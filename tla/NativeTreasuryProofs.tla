-------------------------- MODULE NativeTreasuryProofs --------------------------
(***************************************************************************)
(* Theorems of NativeTreasury, for any number of devices and pages and any *)
(* bound: a device hands the treasury's invoice to the SDK once, behind a  *)
(* published mark; no possible send is taken back; a row that is paid is   *)
(* proven; and a transfer's id, once known, is kept.                       *)
(***************************************************************************)
EXTENDS NativeTreasury, TLAPS

-----------------------------------------------------------------------------
(* The inductive invariant.                                                *)

\* The steps between the mark and the last look at the row; those between that
\* look and the SDK; and those that follow the mark's acknowledgement.
Marking == {"submitted_ack", "reprove", "recheck", "cancel", "readback"}
Sending == {"inspect_send", "calling"}
Published == {"reprove", "recheck", "inspect_send", "calling", "reference",
              "observe_sent", "paid_ack"}

\* A state without an intent is the one before anything was prepared.
Plain(s) == s.intent = NoDevice => s = Unprepared

\* The payment of the state has been marked as submitted.
Begun(s) == s.status \notin {"unprepared", "prepared"}

\* Some relay shows the attempt of the state as submitted.
AheadOf(s) ==
  \E u \in relays : u.status = "submitted" /\ u.intent = s.intent /\ u.attempt >= s.attempt

\* What may still lead a page to the SDK: it has taken its last look at the row; or
\* it has marked the row, or taken the mark back, and the row is still the one it
\* wrote; or it remembers a cancellation of the row as it is.
Committed(t) == job[t].step \in Sending /\ t \notin admitted
Pending(t) == job[t].step \in Marking /\ job[t].revision = RowOf(t).revision
Free(t) == caps[t] # 0 /\ caps[t] = RowOf(t).revision
Licensed(t) == Committed(t) \/ Pending(t) \/ Free(t)

\* At most one page of a device is licensed.
OneLicence ==
  \A t, u \in Tabs : Licensed(t) /\ Licensed(u) /\ DeviceOf[t] = DeviceOf[u] => t = u

\* The state an invocation holds fits its step.
Shape(j) ==
  /\ j.step = "prepare" => j.state.intent = NoDevice
  /\ j.step \in {"prepare", "reconcile"} => ~ j.sent
  /\ j.step \notin {"idle", "prepare"} => j.state.intent # NoDevice
  /\ j.step = "prepared_ack" => j.state.status = "prepared"
  /\ j.step \in {"preflight", "mark"} /\ ~j.retry => j.state.status = "prepared"
  /\ j.step \in {"submitted_ack", "reprove", "recheck", "inspect_send", "calling",
                 "reference"} => j.state.status = "submitted"
  /\ j.step = "observed" => j.seen # "none"
  /\ j.step = "paid_ack" => j.state.status = "paid"

\* What an invocation has seen is so, and what it sends was published.
Proven(j) ==
  /\ j.step = "observed" /\ j.seen = "paid" => transfer = "paid"
  /\ j.step = "observed" /\ j.seen = "terminal_failure" => transfer = "failed"
  /\ j.step = "paid_ack" => transfer = "paid"
  /\ j.step \in Published \/ (j.step = "observed" /\ j.sent) => AheadOf(j.state)

\* No page is ahead of its row, so that a compare-and-swap compares the states.
Held(t) ==
  /\ job[t].revision <= RowOf(t).revision
  /\ job[t].revision = RowOf(t).revision => job[t].state = RowOf(t).state
  /\ caps[t] <= RowOf(t).revision

\* A page is licensed only on a device that has not called, for a payment that is
\* marked; by one kind of licence; and past its last look for a published one.
Allowed(t) ==
  /\ Licensed(t) => calls[DeviceOf[t]] = 0 /\ Begun(RowOf(t).state)
  /\ Committed(t) \/ Pending(t) => caps[t] # RowOf(t).revision
  /\ Committed(t) => /\ AheadOf(RowOf(t).state)
                     /\ RowOf(t).state.status = "terminal_failure" => transfer = "failed"

TabOK(t) == Shape(job[t]) /\ Proven(job[t]) /\ Held(t) /\ Allowed(t)

RowOK(d) ==
  /\ db[d].revision = 0 => db[d].state = Unprepared
  /\ Plain(db[d].state)
  /\ calls[d] <= 1
  /\ calls[d] > 0 => Begun(db[d].state) /\ AheadOf(db[d].state)
  /\ db[d].state.status = "terminal_failure" => transfer = "failed" \/ calls[d] = 0
  /\ db[d].state.status = "paid" => transfer = "paid"

\* Nothing is published that is uncertain or taken back, and a payment is published
\* as paid behind its mark.
SnapshotOK(s) ==
  /\ s.status \in {"unprepared", "prepared", "submitted", "paid"}
  /\ Plain(s)
  /\ s.status = "paid" => transfer = "paid" /\ AheadOf(s)

IInv ==
  /\ TypeOK
  /\ \A t \in Tabs : TabOK(t)
  /\ \A d \in Devices : RowOK(d)
  /\ \A s \in relays : SnapshotOK(s)
  /\ OneLicence

-----------------------------------------------------------------------------
(* Types.                                                                  *)

\* A state's parts have their types.
LEMMA StateTypes ==
  ASSUME BoundAssumption, NEW s \in Finalization
  PROVE  /\ s.status \in Statuses /\ s.intent \in Devices \cup {NoDevice}
         /\ s.ref \in BOOLEAN /\ s.attempt \in 0 .. MaxAttempts /\ s.attempt \in Nat
  BY DEF Finalization, BoundAssumption

\* The state before anything was prepared, and an invocation at rest.
LEMMA AtRest ==
  ASSUME BoundAssumption
  PROVE  /\ Unprepared \in Finalization /\ Unprepared.status = "unprepared"
         /\ Unprepared.intent = NoDevice /\ Unprepared.attempt = 0 /\ ~ Unprepared.ref
         /\ Idle \in Job /\ Idle.step = "idle" /\ Idle.revision = 0
         /\ Idle.state = Unprepared /\ Idle.seen = "none"
         /\ ~ Idle.retry /\ ~ Idle.sent /\ ~ Idle.inspect
  <1>1. /\ Unprepared \in Finalization /\ Unprepared.status = "unprepared"
        /\ Unprepared.intent = NoDevice /\ Unprepared.attempt = 0 /\ ~ Unprepared.ref
    BY DEF Unprepared, Finalization, Statuses, BoundAssumption
  <1>2. Idle \in Job
    BY <1>1 DEF Idle, Job, Steps, Observations
  <1>3. /\ Idle.step = "idle" /\ Idle.revision = 0
        /\ Idle.state = Unprepared /\ Idle.seen = "none"
        /\ ~ Idle.retry /\ ~ Idle.sent /\ ~ Idle.inspect
    BY DEF Idle
  <1> QED BY <1>1, <1>2, <1>3

\* An invocation's parts have their types.
LEMMA JobTypes ==
  ASSUME NEW j \in Job
  PROVE  /\ j.step \in Steps /\ j.revision \in Nat /\ j.state \in Finalization
         /\ j.retry \in BOOLEAN /\ j.sent \in BOOLEAN /\ j.inspect \in BOOLEAN
         /\ j.seen \in Observations
  BY DEF Job

\* What a page has to do with has its types.
LEMMA TabTypes ==
  ASSUME DeviceAssumption, TypeOK, NEW t \in Tabs
  PROVE  /\ DeviceOf[t] \in Devices /\ RowOf(t) \in Row
         /\ RowOf(t).revision \in Nat /\ RowOf(t).state \in Finalization
         /\ job[t] \in Job /\ job[t].revision \in Nat /\ job[t].state \in Finalization
         /\ caps[t] \in Nat
  <1>1. DeviceOf[t] \in Devices
    BY DEF DeviceAssumption
  <1>2. RowOf(t) \in Row
    BY <1>1 DEF TypeOK, RowOf
  <1>3. RowOf(t).revision \in Nat /\ RowOf(t).state \in Finalization
    BY <1>2 DEF Row
  <1>4. job[t] \in Job /\ caps[t] \in Nat
    BY DEF TypeOK
  <1>5. job[t].revision \in Nat /\ job[t].state \in Finalization
    BY <1>4, JobTypes
  <1> QED BY <1>1, <1>2, <1>3, <1>4, <1>5

\* What the relays store stays, and so does what it proves of a state.
LEMMA AheadGrows ==
  ASSUME NEW s, relays \subseteq relays', AheadOf(s)
  PROVE  \E u \in relays' :
           u.status = "submitted" /\ u.intent = s.intent /\ u.attempt >= s.attempt
  BY DEF AheadOf

-----------------------------------------------------------------------------
(* Steps of a page that leave the rows alone.                              *)

\* An invocation goes on, or a page changes what it remembers: nothing is lost
\* unless it is thereby licensed.
LEMMA PageStep ==
  ASSUME DeviceAssumption, BoundAssumption, IInv, NEW t \in Tabs, NEW j \in Job,
         job' = [job EXCEPT ![t] = j],
         caps' \in [Tabs -> Nat], admitted' \subseteq Tabs,
         \A u \in Tabs \ {t} : caps'[u] = caps[u] /\ (u \in admitted' <=> u \in admitted),
         UNCHANGED <<late, db, relays, transfer, wire, calls>>,
         Shape(j), Proven(j),
         j.revision <= RowOf(t).revision,
         j.revision = RowOf(t).revision => j.state = RowOf(t).state,
         caps'[t] <= RowOf(t).revision,
         Licensed(t)' => Licensed(t),
         Committed(t)' \/ Pending(t)' => caps'[t] # RowOf(t).revision,
         Committed(t)' => /\ AheadOf(RowOf(t).state)
                          /\ RowOf(t).state.status = "terminal_failure" => transfer = "failed"
  PROVE  IInv'
  <1>1. TypeOK /\ OneLicence /\ \A u \in Tabs : TabOK(u)
    BY DEF IInv
  <1>2. job' \in [Tabs -> Job] /\ job'[t] = j /\ \A u \in Tabs \ {t} : job'[u] = job[u]
    BY <1>1 DEF TypeOK
  <1>3. TypeOK'
    BY <1>1, <1>2 DEF TypeOK
  <1>4. \A u \in Tabs : RowOf(u)' = RowOf(u)
    BY DEF RowOf
  <1>5. \A u \in Tabs \ {t} : /\ Committed(u)' <=> Committed(u)
                              /\ Pending(u)' <=> Pending(u)
                              /\ Free(u)' <=> Free(u)
    BY <1>2, <1>4 DEF Committed, Pending, Free
  <1>6. \A u \in Tabs : Licensed(u)' => Licensed(u)
    BY <1>5 DEF Licensed
  <1>7. OneLicence'
    BY <1>1, <1>6 DEF OneLicence
  <1>8. ASSUME NEW u \in Tabs PROVE TabOK(u)'
    <2>1. CASE u = t
      <3>1. Shape(job[u])' /\ Proven(job[u])'
        BY <1>2, <2>1 DEF Shape, Proven, AheadOf
      <3>2. Held(u)'
        BY <1>2, <1>4, <2>1 DEF Held
      <3>3. Licensed(u)' => calls[DeviceOf[u]]' = 0 /\ Begun(RowOf(u).state)'
        BY <1>1, <1>4, <1>6 DEF TabOK, Allowed, Begun
      <3>4. Allowed(u)'
        BY <1>4, <2>1, <3>3 DEF Allowed, AheadOf
      <3> QED BY <3>1, <3>2, <3>4 DEF TabOK
    <2>2. CASE u # t
      <3>1. TabOK(u) /\ job'[u] = job[u] /\ caps'[u] = caps[u]
        BY <1>1, <1>2, <2>2
      <3>2. Shape(job[u])' /\ Proven(job[u])'
        BY <3>1 DEF TabOK, Shape, Proven, AheadOf
      <3>3. Held(u)'
        BY <3>1, <1>4 DEF TabOK, Held
      <3>4. Allowed(u)'
        BY <3>1, <1>4, <1>5, <1>6, <2>2 DEF TabOK, Allowed, AheadOf, Begun
      <3> QED BY <3>2, <3>3, <3>4 DEF TabOK
    <2> QED BY <2>1, <2>2
  <1>9. \A d \in Devices : RowOK(d)'
    BY DEF IInv, RowOK, Plain, Begun, AheadOf
  <1>10. \A s \in relays' : SnapshotOK(s)'
    BY DEF IInv, SnapshotOK, Plain, AheadOf
  <1> QED BY <1>3, <1>7, <1>8, <1>9, <1>10 DEF IInv

\* The invocation of t, moved to another step.
Moved(t, step) == [job[t] EXCEPT !.step = step]

LEMMA MovedIs ==
  ASSUME DeviceAssumption, TypeOK, NEW t \in Tabs, NEW step \in Steps
  PROVE  LET j == Moved(t, step) IN
         /\ j \in Job /\ j.step = step /\ j.revision = job[t].revision
         /\ j.state = job[t].state /\ j.seen = job[t].seen
         /\ j.retry <=> job[t].retry
         /\ j.sent <=> job[t].sent
         /\ Goto(t, step) => job' = [job EXCEPT ![t] = j]
  <1>1. job[t] \in Job /\ job \in [Tabs -> Job]
    BY DEF TypeOK
  <1>2. Moved(t, step) \in Job
    BY <1>1 DEF Moved, Job
  <1>3. LET j == Moved(t, step) IN
        /\ j.step = step /\ j.revision = job[t].revision
        /\ j.state = job[t].state /\ j.seen = job[t].seen
        /\ j.retry <=> job[t].retry
        /\ j.sent <=> job[t].sent
    BY <1>1 DEF Moved, Job
  <1>4. Goto(t, step) => job' = [job EXCEPT ![t] = Moved(t, step)]
    BY <1>1 DEF Goto, Moved
  <1> QED BY <1>2, <1>3, <1>4

\* A step that only moves on: what it needs is what the next step asks of the state,
\* and of the licence.
LEMMA GotoStep ==
  ASSUME DeviceAssumption, BoundAssumption, IInv, NEW t \in Tabs, NEW step \in Steps,
         Goto(t, step), UNCHANGED <<late, db, relays, caps, admitted, transfer, wire, calls>>,
         Shape(Moved(t, step)), Proven(Moved(t, step)),
         step \in Sending /\ t \notin admitted =>
           /\ Committed(t) \/ Pending(t)
           /\ AheadOf(RowOf(t).state)
           /\ RowOf(t).state.status = "terminal_failure" => transfer = "failed",
         step \in Marking /\ job[t].revision = RowOf(t).revision =>
           Committed(t) \/ Pending(t)
  PROVE  IInv'
  <1> DEFINE j == Moved(t, step)
  <1>1. TypeOK /\ TabOK(t)
    BY DEF IInv
  <1>2. /\ j \in Job /\ j.step = step /\ j.revision = job[t].revision
        /\ j.state = job[t].state /\ job' = [job EXCEPT ![t] = j]
    BY <1>1, MovedIs
  <1>3. job'[t] = j
    BY <1>1, <1>2 DEF TypeOK
  <1> HIDE DEF j
  <1>4. RowOf(t)' = RowOf(t)
    BY DEF RowOf
  <1>5. Committed(t)' => step \in Sending /\ t \notin admitted
    BY <1>2, <1>3 DEF Committed
  <1>6. Pending(t)' => step \in Marking /\ job[t].revision = RowOf(t).revision
    BY <1>2, <1>3, <1>4 DEF Pending
  <1>7. Free(t)' => Free(t)
    BY <1>4 DEF Free
  <1>8. Committed(t)' \/ Pending(t)' => Committed(t) \/ Pending(t)
    BY <1>5, <1>6
  <1>9. Licensed(t)' => Licensed(t)
    BY <1>7, <1>8 DEF Licensed
  <1>10. Committed(t)' \/ Pending(t)' => caps'[t] # RowOf(t).revision
    BY <1>1, <1>8 DEF TabOK, Allowed
  <1>11. /\ j.revision <= RowOf(t).revision
         /\ j.revision = RowOf(t).revision => j.state = RowOf(t).state
         /\ caps'[t] <= RowOf(t).revision
    BY <1>1, <1>2 DEF TabOK, Held
  <1>12. Shape(j) /\ Proven(j)
    BY DEF j
  <1>13. caps' \in [Tabs -> Nat] /\ admitted' \subseteq Tabs
    BY <1>1 DEF TypeOK
  <1>14. \A u \in Tabs \ {t} : caps'[u] = caps[u] /\ (u \in admitted' <=> u \in admitted)
    OBVIOUS
  <1>15. Committed(t)' => /\ AheadOf(RowOf(t).state)
                          /\ RowOf(t).state.status = "terminal_failure" => transfer = "failed"
    BY <1>5
  <1> QED BY <1>2, <1>9, <1>10, <1>11, <1>12, <1>13, <1>14, <1>15, PageStep

\* An invocation that ends is licensed no more; what the page remembers may be.
LEMMA FinishStep ==
  ASSUME DeviceAssumption, BoundAssumption, IInv, NEW t \in Tabs, Finish(t),
         caps' \in [Tabs -> Nat], admitted' \subseteq Tabs,
         \A u \in Tabs \ {t} : caps'[u] = caps[u] /\ (u \in admitted' <=> u \in admitted),
         UNCHANGED <<late, db, relays, transfer, wire, calls>>,
         caps'[t] \in {0, caps[t]} \/ (Pending(t) /\ caps'[t] = job[t].revision)
  PROVE  IInv'
  <1>1. TypeOK /\ TabOK(t)
    BY DEF IInv
  <1>2. job' = [job EXCEPT ![t] = Idle] /\ job'[t] = Idle
    BY <1>1 DEF Finish, TypeOK
  <1>3. RowOf(t)' = RowOf(t)
    BY DEF RowOf
  <1>4. ~Committed(t)' /\ ~Pending(t)'
    BY <1>2, AtRest DEF Committed, Pending, Sending, Marking
  <1>5. /\ RowOf(t).revision \in Nat /\ job[t].revision \in Nat /\ caps[t] \in Nat
        /\ RowOf(t) = db[DeviceOf[t]] /\ RowOK(DeviceOf[t])
    BY <1>1, TabTypes DEF IInv, RowOf
  <1>6. Free(t)' => Free(t) \/ Pending(t)
    BY <1>3 DEF Free
  <1>7. Licensed(t)' => Licensed(t)
    BY <1>4, <1>6 DEF Licensed
  <1>8. Shape(Idle) /\ Proven(Idle)
    BY AtRest DEF Shape, Proven, Published
  <1>9. /\ Idle.revision <= RowOf(t).revision
        /\ Idle.revision = RowOf(t).revision => Idle.state = RowOf(t).state
    BY <1>5, AtRest DEF RowOK
  <1>10. caps'[t] <= RowOf(t).revision
    BY <1>1, <1>5 DEF TabOK, Held
  <1> QED BY <1>2, <1>4, <1>7, <1>8, <1>9, <1>10, AtRest, PageStep

-----------------------------------------------------------------------------
(* The steps of a page that leave the rows and the relays alone.           *)

\* The invocation Loaded makes.
Fresh(t, step, inspect) ==
  [Idle EXCEPT !.step = step, !.inspect = inspect,
               !.revision = RowOf(t).revision, !.state = RowOf(t).state]

LEMMA FreshIs ==
  ASSUME DeviceAssumption, BoundAssumption, TypeOK, NEW t \in Tabs,
         NEW step \in Steps, NEW inspect \in BOOLEAN
  PROVE  LET j == Fresh(t, step, inspect) IN
         /\ j \in Job /\ j.step = step /\ j.revision = RowOf(t).revision
         /\ j.state = RowOf(t).state /\ ~ j.sent
         /\ Loaded(t, step, inspect) => job' = [job EXCEPT ![t] = j]
  <1>1. RowOf(t).revision \in Nat /\ RowOf(t).state \in Finalization
    BY TabTypes
  <1>2. Idle \in Job
    BY AtRest
  <1>3. Fresh(t, step, inspect) \in Job
    BY <1>1, <1>2 DEF Fresh, Job
  <1>4. /\ Fresh(t, step, inspect).step = step
        /\ Fresh(t, step, inspect).revision = RowOf(t).revision
        /\ Fresh(t, step, inspect).state = RowOf(t).state
        /\ ~ Fresh(t, step, inspect).sent
    BY <1>2, AtRest DEF Fresh, Job
  <1> QED BY <1>3, <1>4 DEF Loaded, Fresh

\* The row as loaded is the row, and licenses nobody.
LEMMA LoadedStep ==
  ASSUME DeviceAssumption, BoundAssumption, IInv, NEW t \in Tabs,
         NEW step \in {"prepare", "reconcile"}, NEW inspect \in BOOLEAN,
         At(t, "idle"), Loaded(t, step, inspect),
         step = "prepare" <=> RowOf(t).state.intent = NoDevice,
         admitted' \subseteq Tabs,
         \A u \in Tabs \ {t} : u \in admitted' <=> u \in admitted,
         UNCHANGED <<late, db, relays, caps, transfer, wire, calls>>
  PROVE  IInv'
  <1> DEFINE j == Fresh(t, step, inspect)
  <1>1. TypeOK /\ TabOK(t)
    BY DEF IInv
  <1>2. step \in Steps
    BY DEF Steps
  <1>3. /\ j \in Job /\ j.step = step /\ j.revision = RowOf(t).revision
        /\ j.state = RowOf(t).state /\ ~ j.sent /\ job' = [job EXCEPT ![t] = j]
    BY <1>1, <1>2, FreshIs
  <1>4. job'[t] = j
    BY <1>1, <1>3 DEF TypeOK
  <1> HIDE DEF j
  <1>5. RowOf(t)' = RowOf(t)
    BY DEF RowOf
  <1>6. ~Committed(t)' /\ ~Pending(t)'
    BY <1>3, <1>4 DEF Committed, Pending, Sending, Marking
  <1>7. Free(t)' => Free(t)
    BY <1>5 DEF Free
  <1>8. Licensed(t)' => Licensed(t)
    BY <1>6, <1>7 DEF Licensed
  <1>9. Shape(j) /\ Proven(j)
    BY <1>3 DEF Shape, Proven, Published
  <1>10. caps' \in [Tabs -> Nat] /\ caps'[t] <= RowOf(t).revision
    BY <1>1 DEF TypeOK, TabOK, Held
  <1>11. /\ j.revision <= RowOf(t).revision
         /\ j.revision = RowOf(t).revision => j.state = RowOf(t).state
    BY <1>1, <1>3, TabTypes
  <1> QED BY <1>3, <1>6, <1>8, <1>9, <1>10, <1>11, PageStep

\* An invocation starts.
LEMMA StartInv ==
  ASSUME DeviceAssumption, BoundAssumption, IInv, NEW t \in Tabs, Start(t)
  PROVE  IInv'
  <1> DEFINE step == IF RowOf(t).state.intent = NoDevice THEN "prepare" ELSE "reconcile"
  <1>1. /\ At(t, "idle") /\ Loaded(t, step, FALSE)
        /\ admitted' = IF IsShopper(t) THEN admitted ELSE admitted \ {t}
        /\ UNCHANGED <<late, db, relays, caps, transfer, wire, calls>>
    BY DEF Start
  <1>2. step \in {"prepare", "reconcile"}
        /\ (step = "prepare" <=> RowOf(t).state.intent = NoDevice)
    OBVIOUS
  <1>3. admitted' \subseteq Tabs /\ \A u \in Tabs \ {t} : u \in admitted' <=> u \in admitted
    BY <1>1 DEF IInv, TypeOK
  <1> QED BY <1>1, <1>2, <1>3, LoadedStep

\* The buyer looks at an attempt that may have been sent.
LEMMA StartInspectionInv ==
  ASSUME DeviceAssumption, BoundAssumption, IInv, NEW t \in Tabs, StartInspection(t)
  PROVE  IInv'
  <1>1. /\ At(t, "idle") /\ Loaded(t, "reconcile", TRUE)
        /\ RowOf(t).state.status \in {"submitted", "ambiguous"}
        /\ admitted' = admitted
        /\ UNCHANGED <<late, db, relays, caps, transfer, wire, calls>>
    BY DEF StartInspection
  <1>2. RowOf(t).state.intent # NoDevice
    <2>1. Plain(RowOf(t).state)
      BY TabTypes DEF IInv, RowOK, RowOf
    <2> QED BY <1>1, <2>1, AtRest DEF Plain
  <1>3. admitted' \subseteq Tabs /\ \A u \in Tabs \ {t} : u \in admitted' <=> u \in admitted
    BY <1>1 DEF IInv, TypeOK
  <1> QED BY <1>1, <1>2, <1>3, LoadedStep

\* The provider's answer is remembered, as it is.
LEMMA ReconcileInv ==
  ASSUME DeviceAssumption, BoundAssumption, IInv, NEW t \in Tabs, Reconcile(t)
  PROVE  IInv'
  <1>1. TypeOK /\ TabOK(t) /\ job[t] \in Job
    BY DEF IInv, TypeOK
  <1>2. /\ job[t].step \in {"reconcile", "observe_sent"}
        /\ UNCHANGED <<late, db, relays, caps, admitted, transfer, wire, calls>>
    BY DEF Reconcile, At
  <1>3. PICK seen \in Inspect(RowOf(t).state) :
          job' = [job EXCEPT ![t] = [@ EXCEPT !.step = "observed", !.seen = seen]]
    BY DEF Reconcile
  <1>4. /\ seen \in Observations /\ seen # "none"
        /\ seen = "paid" => transfer = "paid"
        /\ seen = "terminal_failure" => transfer = "failed"
    BY <1>1 DEF Inspect, Observations, TypeOK, Outcomes
  <1> DEFINE j == [job[t] EXCEPT !.step = "observed", !.seen = seen]
  <1>5. j \in Job
    BY <1>1, <1>4 DEF Job, Steps
  <1>6. /\ j.step = "observed" /\ j.seen = seen /\ j.revision = job[t].revision
        /\ j.state = job[t].state
        /\ j.sent <=> job[t].sent
    BY <1>1 DEF Job
  <1>7. job' = [job EXCEPT ![t] = j] /\ job'[t] = j
    BY <1>1, <1>3 DEF TypeOK
  <1> HIDE DEF j
  <1>8. RowOf(t)' = RowOf(t)
    BY <1>2 DEF RowOf
  <1>9. ~Committed(t)' /\ ~Pending(t)' /\ (Free(t)' => Free(t))
    BY <1>2, <1>6, <1>7, <1>8 DEF Committed, Pending, Free, Sending, Marking
  <1>10. Licensed(t)' => Licensed(t)
    BY <1>9 DEF Licensed
  <1>11. Shape(j)
    BY <1>1, <1>2, <1>4, <1>6 DEF TabOK, Shape
  <1>12. Proven(j)
    <2>1. j.sent => AheadOf(j.state)
      BY <1>1, <1>2, <1>6 DEF TabOK, Shape, Proven, Published
    <2> QED BY <1>4, <1>6, <2>1 DEF Proven, Published
  <1>13. /\ j.revision <= RowOf(t).revision
         /\ j.revision = RowOf(t).revision => j.state = RowOf(t).state
         /\ caps'[t] <= RowOf(t).revision
    BY <1>1, <1>2, <1>6 DEF TabOK, Held
  <1>14. caps' \in [Tabs -> Nat] /\ admitted' \subseteq Tabs
         /\ \A u \in Tabs \ {t} : caps'[u] = caps[u] /\ (u \in admitted' <=> u \in admitted)
    BY <1>1, <1>2 DEF TypeOK
  <1> QED BY <1>2, <1>5, <1>7, <1>9, <1>10, <1>11, <1>12, <1>13, <1>14, PageStep

\* Nothing is found, and the invocation goes on to pay.
LEMMA AdmitInv ==
  ASSUME DeviceAssumption, BoundAssumption, IInv, NEW t \in Tabs, Admit(t)
  PROVE  IInv'
  <1> DEFINE retry == job[t].state.status # "prepared"
             step == IF retry THEN "preflight" ELSE "prepared_ack"
             j == [job[t] EXCEPT !.retry = retry, !.seen = "none", !.step = step]
  <1>1. TypeOK /\ TabOK(t) /\ job[t] \in Job
    BY DEF IInv, TypeOK
  <1>2. /\ job[t].step = "observed"
        /\ UNCHANGED <<late, db, relays, caps, admitted, transfer, wire, calls>>
    BY DEF Admit, At
  <1>3. j \in Job
    BY <1>1 DEF Job, Steps, Observations
  <1>4. /\ j.step = step /\ j.revision = job[t].revision /\ j.state = job[t].state
        /\ j.retry <=> retry
    BY <1>1 DEF Job
  <1>5. job' = [job EXCEPT ![t] = j]
    BY DEF Admit
  <1>6. job'[t] = j
    BY <1>1, <1>5 DEF TypeOK
  <1>7. step \in {"preflight", "prepared_ack"} /\ (step = "prepared_ack" => ~retry)
    OBVIOUS
  <1>8. ~retry => job[t].state.status = "prepared"
    OBVIOUS
  <1> HIDE DEF j, step, retry
  <1>9. RowOf(t)' = RowOf(t)
    BY <1>2 DEF RowOf
  <1>10. ~Committed(t)' /\ ~Pending(t)' /\ (Free(t)' => Free(t))
    BY <1>2, <1>4, <1>6, <1>7, <1>9 DEF Committed, Pending, Free, Sending, Marking
  <1>11. Licensed(t)' => Licensed(t)
    BY <1>10 DEF Licensed
  <1>12. j.state.intent # NoDevice
    BY <1>1, <1>2, <1>4 DEF TabOK, Shape
  <1>13. Shape(j) /\ Proven(j)
    BY <1>4, <1>7, <1>8, <1>12 DEF Shape, Proven, Published
  <1>14. /\ j.revision <= RowOf(t).revision
         /\ j.revision = RowOf(t).revision => j.state = RowOf(t).state
         /\ caps'[t] <= RowOf(t).revision
    BY <1>1, <1>2, <1>4 DEF TabOK, Held
  <1>15. caps' \in [Tabs -> Nat] /\ admitted' \subseteq Tabs
         /\ \A u \in Tabs \ {t} : caps'[u] = caps[u] /\ (u \in admitted' <=> u \in admitted)
    BY <1>1, <1>2 DEF TypeOK
  <1> QED BY <1>2, <1>3, <1>5, <1>10, <1>11, <1>13, <1>14, <1>15, PageStep

\* The SDK answers.
LEMMA AnswerInv ==
  ASSUME DeviceAssumption, BoundAssumption, IInv, NEW t \in Tabs, Answer(t)
  PROVE  IInv'
  <1>1. TypeOK /\ TabOK(t) /\ job[t] \in Job
    BY DEF IInv, TypeOK
  <1>2. /\ job[t].step = "calling"
        /\ UNCHANGED <<late, db, relays, caps, admitted, transfer, wire, calls>>
    BY DEF Answer, At
  <1>3. PICK step \in {"reference", "observe_sent"} :
          job' = [job EXCEPT ![t] = [@ EXCEPT !.step = step, !.sent = TRUE]]
    BY DEF Answer
  <1> DEFINE j == [job[t] EXCEPT !.step = step, !.sent = TRUE]
  <1>4. j \in Job
    BY <1>1 DEF Job, Steps
  <1>5. j.step = step /\ j.revision = job[t].revision /\ j.state = job[t].state
    BY <1>1 DEF Job
  <1>6. job' = [job EXCEPT ![t] = j] /\ job'[t] = j
    BY <1>1, <1>3 DEF TypeOK
  <1> HIDE DEF j
  <1>7. RowOf(t)' = RowOf(t)
    BY <1>2 DEF RowOf
  <1>8. ~Committed(t)' /\ ~Pending(t)' /\ (Free(t)' => Free(t))
    BY <1>2, <1>5, <1>6, <1>7 DEF Committed, Pending, Free, Sending, Marking
  <1>9. Licensed(t)' => Licensed(t)
    BY <1>8 DEF Licensed
  <1>10. Shape(j)
    BY <1>1, <1>2, <1>5 DEF TabOK, Shape
  <1>11. Proven(j)
    <2>1. AheadOf(j.state)
      BY <1>1, <1>2, <1>5 DEF TabOK, Proven, Published
    <2> QED BY <1>5, <2>1 DEF Proven
  <1>12. /\ j.revision <= RowOf(t).revision
         /\ j.revision = RowOf(t).revision => j.state = RowOf(t).state
         /\ caps'[t] <= RowOf(t).revision
    BY <1>1, <1>2, <1>5 DEF TabOK, Held
  <1>13. caps' \in [Tabs -> Nat] /\ admitted' \subseteq Tabs
         /\ \A u \in Tabs \ {t} : caps'[u] = caps[u] /\ (u \in admitted' <=> u \in admitted)
    BY <1>1, <1>2 DEF TypeOK
  <1> QED BY <1>2, <1>4, <1>6, <1>8, <1>9, <1>10, <1>11, <1>12, <1>13, PageStep

\* The prepared payment is published, and the adapter admits it: no licence yet.
LEMMA ToMarkInv ==
  ASSUME DeviceAssumption, BoundAssumption, IInv, NEW t \in Tabs,
         PreparedAck(t) \/ Preflight(t)
  PROVE  IInv'
  <1>1. TypeOK /\ TabOK(t)
    BY DEF IInv
  <1>2. PICK step \in {"preflight", "mark"} :
          /\ Goto(t, step)
          /\ UNCHANGED <<late, db, relays, caps, admitted, transfer, wire, calls>>
          /\ job[t].step \in {"prepared_ack", "preflight"}
    BY DEF PreparedAck, Preflight, At
  <1>3. step \in Steps /\ step \notin Sending /\ step \notin Marking
        /\ step \notin Published
    BY DEF Steps, Sending, Marking, Published
  <1>4. /\ Moved(t, step).step = step /\ Moved(t, step).state = job[t].state
        /\ Moved(t, step).retry <=> job[t].retry
    BY <1>1, <1>3, MovedIs
  <1>5. Shape(Moved(t, step))
    BY <1>1, <1>2, <1>4 DEF TabOK, Shape
  <1>6. Proven(Moved(t, step))
    BY <1>2, <1>3, <1>4 DEF Proven
  <1> QED BY <1>2, <1>3, <1>5, <1>6, GotoStep

\* Before the mark a payment was prepared, or is taken back; behind it it is
\* submitted: what the acknowledgement proves.
LEMMA SubmittedAckInv ==
  ASSUME DeviceAssumption, BoundAssumption, IInv, NEW t \in Tabs, SubmittedAck(t)
  PROVE  IInv'
  <1>1. TypeOK /\ TabOK(t) /\ "reprove" \in Steps
    BY DEF IInv, Steps
  <1>2. /\ job[t].step = "submitted_ack" /\ job[t].state \in relays /\ Goto(t, "reprove")
        /\ UNCHANGED <<late, db, relays, caps, admitted, transfer, wire, calls>>
    BY DEF SubmittedAck, At, Acknowledged
  <1>3. job[t].state.status = "submitted" /\ job[t].state.intent # NoDevice
    BY <1>1, <1>2 DEF TabOK, Shape
  <1>4. job[t].state.attempt \in Nat
    BY <1>1, TabTypes, StateTypes
  <1>5. AheadOf(job[t].state)
    BY <1>2, <1>3, <1>4 DEF AheadOf
  <1>6. Moved(t, "reprove").step = "reprove" /\ Moved(t, "reprove").state = job[t].state
    BY <1>1, MovedIs
  <1>7. Shape(Moved(t, "reprove"))
    BY <1>3, <1>6 DEF Shape
  <1>8. Proven(Moved(t, "reprove"))
    BY <1>5, <1>6 DEF Proven
  <1>9. job[t].revision = RowOf(t).revision => Pending(t)
    BY <1>2 DEF Pending, Marking
  <1> QED BY <1>1, <1>2, <1>7, <1>8, <1>9, GotoStep DEF Sending

\* Commerce is proven again.
LEMMA ReproveInv ==
  ASSUME DeviceAssumption, BoundAssumption, IInv, NEW t \in Tabs, Reprove(t)
  PROVE  IInv'
  <1>1. TypeOK /\ TabOK(t) /\ "recheck" \in Steps
    BY DEF IInv, Steps
  <1>2. /\ job[t].step = "reprove" /\ Goto(t, "recheck")
        /\ UNCHANGED <<late, db, relays, caps, admitted, transfer, wire, calls>>
    BY DEF Reprove, At
  <1>3. Moved(t, "recheck").step = "recheck" /\ Moved(t, "recheck").state = job[t].state
    BY <1>1, MovedIs
  <1>4. Shape(Moved(t, "recheck"))
    BY <1>1, <1>2, <1>3 DEF TabOK, Shape
  <1>5. Proven(Moved(t, "recheck"))
    BY <1>1, <1>2, <1>3 DEF TabOK, Proven, Published
  <1>6. job[t].revision = RowOf(t).revision => Pending(t)
    BY <1>2 DEF Pending, Marking
  <1> QED BY <1>1, <1>2, <1>4, <1>5, <1>6, GotoStep DEF Sending

\* The last look: the row is the one that was marked, and the mark is published.
LEMMA RecheckInv ==
  ASSUME DeviceAssumption, BoundAssumption, IInv, NEW t \in Tabs, Recheck(t)
  PROVE  IInv'
  <1>1. TypeOK /\ TabOK(t) /\ "inspect_send" \in Steps
    BY DEF IInv, Steps
  <1>2. /\ job[t].step = "recheck" /\ SameRow(t) /\ Goto(t, "inspect_send")
        /\ UNCHANGED <<late, db, relays, caps, admitted, transfer, wire, calls>>
    BY DEF Recheck, At
  <1>3. RowOf(t).revision = job[t].revision /\ RowOf(t).state = job[t].state
    BY <1>2 DEF SameRow
  <1>4. /\ Moved(t, "inspect_send").step = "inspect_send"
        /\ Moved(t, "inspect_send").state = job[t].state
    BY <1>1, MovedIs
  <1>5. Shape(Moved(t, "inspect_send"))
    BY <1>1, <1>2, <1>4 DEF TabOK, Shape
  <1>6. Proven(Moved(t, "inspect_send"))
    BY <1>1, <1>2, <1>4 DEF TabOK, Proven, Published
  <1>7. Pending(t)
    BY <1>2, <1>3 DEF Pending, Marking
  <1>8. AheadOf(RowOf(t).state) /\ RowOf(t).state.status = "submitted"
    BY <1>1, <1>2, <1>3 DEF TabOK, Shape, Proven, Published
  <1> QED BY <1>1, <1>2, <1>5, <1>6, <1>7, <1>8, GotoStep DEF Marking

\* Before the SDK it is certain that nothing was sent.
LEMMA GiveUpInv ==
  ASSUME DeviceAssumption, BoundAssumption, IInv, NEW t \in Tabs,
         GiveUp(t) \/ NotSent(t)
  PROVE  IInv'
  <1>1. TypeOK /\ TabOK(t) /\ "cancel" \in Steps
    BY DEF IInv, Steps
  <1>2. /\ job[t].step \in {"submitted_ack", "reprove"}
           \/ (job[t].step = "calling" /\ t \notin admitted)
        /\ Goto(t, "cancel")
        /\ UNCHANGED <<late, db, relays, caps, admitted, transfer, wire, calls>>
    BY DEF GiveUp, NotSent, At
  <1>3. Moved(t, "cancel").step = "cancel" /\ Moved(t, "cancel").state = job[t].state
    BY <1>1, MovedIs
  <1>4. Shape(Moved(t, "cancel"))
    BY <1>1, <1>2, <1>3 DEF TabOK, Shape
  <1>5. Proven(Moved(t, "cancel"))
    BY <1>3 DEF Proven, Published
  <1>6. job[t].revision = RowOf(t).revision => Committed(t) \/ Pending(t)
    BY <1>2 DEF Committed, Pending, Marking, Sending
  <1> QED BY <1>1, <1>2, <1>4, <1>5, <1>6, GotoStep DEF Sending

\* The adapter's own look, before the SDK.
LEMMA InspectSendInv ==
  ASSUME DeviceAssumption, BoundAssumption, IInv, NEW t \in Tabs, InspectSend(t)
  PROVE  IInv'
  <1>1. TypeOK /\ TabOK(t)
    BY DEF IInv
  <1>2. PICK step \in {"observe_sent", "calling"} :
          /\ job[t].step = "inspect_send" /\ Goto(t, step)
          /\ UNCHANGED <<late, db, relays, caps, admitted, transfer, wire, calls>>
    BY DEF InspectSend, At
  <1>3. step \in Steps /\ step \notin Marking
    BY DEF Steps, Marking
  <1>4. Moved(t, step).step = step /\ Moved(t, step).state = job[t].state
    BY <1>1, <1>3, MovedIs
  <1>5. Shape(Moved(t, step))
    BY <1>1, <1>2, <1>4 DEF TabOK, Shape
  <1>6. Proven(Moved(t, step))
    BY <1>1, <1>2, <1>4 DEF TabOK, Proven, Published
  <1>7. t \notin admitted => Committed(t)
    BY <1>2 DEF Committed, Sending
  <1>8. t \notin admitted =>
          /\ AheadOf(RowOf(t).state)
          /\ RowOf(t).state.status = "terminal_failure" => transfer = "failed"
    BY <1>1, <1>7 DEF TabOK, Allowed
  <1> QED BY <1>2, <1>3, <1>5, <1>6, <1>7, <1>8, GotoStep

\* A cancellation is remembered for exactly the row it left.
LEMMA RememberInv ==
  ASSUME DeviceAssumption, BoundAssumption, IInv, NEW t \in Tabs, Remember(t)
  PROVE  IInv'
  <1>1. TypeOK
    BY DEF IInv
  <1>2. /\ job[t].step = "readback" /\ SameRow(t) /\ Finish(t)
        /\ caps' = [caps EXCEPT ![t] = job[t].revision]
        /\ UNCHANGED <<late, db, relays, admitted, transfer, wire, calls>>
    BY DEF Remember, At
  <1>3. Pending(t)
    BY <1>2 DEF Pending, Marking, SameRow
  <1>4. caps' \in [Tabs -> Nat] /\ caps'[t] = job[t].revision
        /\ \A u \in Tabs \ {t} : caps'[u] = caps[u]
    BY <1>1, <1>2, TabTypes DEF TypeOK
  <1>5. admitted' \subseteq Tabs /\ \A u \in Tabs : u \in admitted' <=> u \in admitted
    BY <1>1, <1>2 DEF TypeOK
  <1> QED BY <1>2, <1>3, <1>4, <1>5, FinishStep

\* An invocation ends: at its end, at any wait, or with its page.
LEMMA EndInv ==
  ASSUME DeviceAssumption, BoundAssumption, IInv, NEW t \in Tabs,
         PaidAck(t) \/ Abort(t) \/ Crash(t)
  PROVE  IInv'
  <1>1. TypeOK
    BY DEF IInv
  <1>2. /\ Finish(t) /\ UNCHANGED <<late, db, relays, transfer, wire, calls>>
        /\ caps' = caps \/ caps' = [caps EXCEPT ![t] = 0]
        /\ admitted' = admitted \/ admitted' = admitted \ {t}
    BY DEF PaidAck, Abort, Crash
  <1>3. caps' \in [Tabs -> Nat] /\ caps'[t] \in {0, caps[t]}
        /\ \A u \in Tabs \ {t} : caps'[u] = caps[u]
    BY <1>1, <1>2 DEF TypeOK
  <1>4. admitted' \subseteq Tabs
        /\ \A u \in Tabs \ {t} : u \in admitted' <=> u \in admitted
    BY <1>1, <1>2 DEF TypeOK
  <1> QED BY <1>2, <1>3, <1>4, FinishStep

-----------------------------------------------------------------------------
(* A relay, the SDK and the provider.                                      *)

\* A relay stores a snapshot: one of a prepared payment, of a mark, or of a payment
\* whose mark is published already.
LEMMA StoreInv ==
  ASSUME DeviceAssumption, BoundAssumption, IInv, NEW t \in Tabs, Store(t)
  PROVE  IInv'
  <1>1. TypeOK /\ TabOK(t) /\ job[t].state \in Finalization
    BY TabTypes DEF IInv
  <1>2. /\ job[t].step \in {"prepared_ack", "submitted_ack", "paid_ack"}
        /\ relays' = relays \cup {job[t].state}
        /\ UNCHANGED <<late, db, job, caps, admitted, transfer, wire, calls>>
    BY DEF Store
  <1>3. relays \subseteq relays'
    BY <1>2
  <1>4. ASSUME NEW s, AheadOf(s) PROVE AheadOf(s)'
    BY <1>3, <1>4, AheadGrows DEF AheadOf
  <1>5. TypeOK'
    BY <1>1, <1>2 DEF TypeOK
  <1>6. \A u \in Tabs : /\ RowOf(u)' = RowOf(u)
                        /\ Committed(u)' <=> Committed(u)
                        /\ Pending(u)' <=> Pending(u)
                        /\ Free(u)' <=> Free(u)
                        /\ Licensed(u)' <=> Licensed(u)
    BY <1>2 DEF RowOf, Committed, Pending, Free, Licensed
  <1>7. OneLicence'
    BY <1>6 DEF IInv, OneLicence
  <1>8. ASSUME NEW u \in Tabs PROVE TabOK(u)'
    <2>1. TabOK(u) /\ job'[u] = job[u]
      BY <1>2 DEF IInv
    <2>2. Shape(job[u])' /\ Held(u)'
      BY <1>2, <1>6, <2>1 DEF TabOK, Shape, Held
    <2>3. Proven(job[u])'
      BY <1>2, <1>4, <2>1 DEF TabOK, Proven
    <2>4. Allowed(u)'
      BY <1>2, <1>4, <1>6, <2>1 DEF TabOK, Allowed, Begun
    <2> QED BY <2>2, <2>3, <2>4 DEF TabOK
  <1>9. ASSUME NEW d \in Devices PROVE RowOK(d)'
    <2>1. RowOK(d)
      BY DEF IInv
    <2> QED BY <1>2, <1>4, <2>1 DEF RowOK, Plain, Begun
  <1>10. ASSUME NEW s \in relays' PROVE SnapshotOK(s)'
    <2>1. CASE s \in relays
      <3>1. SnapshotOK(s)
        BY <2>1 DEF IInv
      <3> QED BY <1>2, <1>4, <3>1 DEF SnapshotOK, Plain
    <2>2. CASE s = job[t].state
      <3>1. s.status \in {"prepared", "submitted", "paid"} /\ s.intent # NoDevice
        BY <1>1, <1>2, <2>2 DEF TabOK, Shape
      <3>2. s.status = "paid" => transfer = "paid" /\ AheadOf(s)
        BY <1>1, <1>2, <2>2 DEF TabOK, Shape, Proven, Published
      <3> QED BY <1>2, <1>4, <3>1, <3>2 DEF SnapshotOK, Plain
    <2> QED BY <1>2, <2>1, <2>2
  <1> QED BY <1>5, <1>7, <1>8, <1>9, <1>10 DEF IInv

\* The invoice is handed to the SDK: the device has not called before, and the
\* licence is used up.
LEMMA CallInv ==
  ASSUME DeviceAssumption, BoundAssumption, IInv, NEW t \in Tabs, Call(t)
  PROVE  IInv'
  <1> DEFINE d == DeviceOf[t]
  <1>1. TypeOK /\ TabOK(t) /\ d \in Devices
    BY TabTypes DEF IInv
  <1>2. /\ job[t].step = "calling" /\ t \notin admitted
        /\ admitted' = admitted \cup {t} /\ wire' = wire \cup {d}
        /\ calls' = [calls EXCEPT ![d] = @ + 1]
        /\ UNCHANGED <<late, db, relays, job, caps, transfer>>
    BY DEF Call, At
  <1> HIDE DEF d
  <1>3. Committed(t) /\ Licensed(t)
    BY <1>2 DEF Committed, Sending, Licensed
  <1>4. /\ calls[d] = 0 /\ Begun(db[d].state) /\ AheadOf(db[d].state)
        /\ db[d].state.status = "terminal_failure" => transfer = "failed"
        /\ caps[t] # RowOf(t).revision
    BY <1>1, <1>3 DEF TabOK, Allowed, RowOf, d
  <1>5. calls' \in [Devices -> Nat] /\ calls'[d] = 1
        /\ \A e \in Devices \ {d} : calls'[e] = calls[e]
    BY <1>1, <1>2, <1>4 DEF TypeOK
  <1>6. TypeOK'
    BY <1>1, <1>2, <1>5 DEF TypeOK
  <1>7. \A u \in Tabs : /\ RowOf(u)' = RowOf(u)
                        /\ Pending(u)' <=> Pending(u)
                        /\ Free(u)' <=> Free(u)
                        /\ Committed(u)' => Committed(u)
    BY <1>2 DEF RowOf, Pending, Free, Committed
  <1>8. \A u \in Tabs : Licensed(u)' => Licensed(u) /\ u # t
    <2>1. ~Committed(t)'
      BY <1>2 DEF Committed
    <2>2. ~Pending(t)
      BY <1>2 DEF Pending, Marking
    <2>3. ~Free(t)
      BY <1>4 DEF Free
    <2> QED BY <1>7, <2>1, <2>2, <2>3 DEF Licensed
  <1>9. OneLicence'
    BY <1>8 DEF IInv, OneLicence
  <1>10. ASSUME NEW u \in Tabs PROVE TabOK(u)'
    <2>1. TabOK(u) /\ job'[u] = job[u] /\ caps'[u] = caps[u]
      BY <1>2 DEF IInv
    <2>2. Shape(job[u])' /\ Proven(job[u])' /\ Held(u)'
      BY <1>2, <1>7, <2>1 DEF TabOK, Shape, Proven, Held, AheadOf
    <2>3. Licensed(u)' => DeviceOf[u] # d /\ DeviceOf[u] \in Devices
      BY <1>1, <1>3, <1>8, TabTypes DEF IInv, OneLicence, d
    <2>4. Licensed(u)' => calls'[DeviceOf[u]] = 0 /\ Begun(RowOf(u).state)'
      BY <1>5, <1>7, <1>8, <2>1, <2>3 DEF TabOK, Allowed, Begun
    <2>5. Allowed(u)'
      BY <1>2, <1>7, <2>1, <2>4 DEF TabOK, Allowed, AheadOf
    <2> QED BY <2>2, <2>5 DEF TabOK
  <1>11. ASSUME NEW e \in Devices PROVE RowOK(e)'
    <2>1. RowOK(e)
      BY DEF IInv
    <2>2. CASE e = d
      BY <1>2, <1>4, <1>5, <2>1, <2>2 DEF RowOK, Plain, Begun, AheadOf
    <2>3. CASE e # d
      BY <1>2, <1>5, <2>1, <2>3 DEF RowOK, Plain, Begun, AheadOf
    <2> QED BY <2>2, <2>3
  <1>12. \A s \in relays' : SnapshotOK(s)'
    BY <1>2 DEF IInv, SnapshotOK, Plain, AheadOf
  <1> QED BY <1>6, <1>9, <1>10, <1>11, <1>12 DEF IInv

\* The clock, the wire and the transfer move: what was paid or failed stays so.
LEMMA OutsideInv ==
  ASSUME DeviceAssumption, BoundAssumption, IInv,
         Move \/ \E d \in Devices : Fulfil(d) \/ TakeOver(d)
  PROVE  IInv'
  <1>1. TypeOK
    BY DEF IInv
  <1>2. /\ late' \subseteq Devices /\ wire' \subseteq Devices /\ transfer' \in Outcomes
        /\ transfer = "paid" => transfer' = "paid"
        /\ transfer = "failed" => transfer' = "failed"
        /\ UNCHANGED <<db, relays, job, caps, admitted, calls>>
    BY <1>1 DEF Move, Fulfil, TakeOver, TypeOK, Outcomes
  <1>3. TypeOK'
    BY <1>1, <1>2 DEF TypeOK
  <1>4. \A u \in Tabs : /\ RowOf(u)' = RowOf(u)
                        /\ Committed(u)' <=> Committed(u)
                        /\ Pending(u)' <=> Pending(u)
                        /\ Free(u)' <=> Free(u)
                        /\ Licensed(u)' <=> Licensed(u)
    BY <1>2 DEF RowOf, Committed, Pending, Free, Licensed
  <1>5. OneLicence'
    BY <1>4 DEF IInv, OneLicence
  <1>6. ASSUME NEW u \in Tabs PROVE TabOK(u)'
    <2>1. TabOK(u) /\ job'[u] = job[u]
      BY <1>2 DEF IInv
    <2>2. Shape(job[u])' /\ Held(u)'
      BY <1>2, <1>4, <2>1 DEF TabOK, Shape, Held
    <2>3. Proven(job[u])'
      BY <1>2, <2>1 DEF TabOK, Proven, AheadOf
    <2>4. Allowed(u)'
      BY <1>2, <1>4, <2>1 DEF TabOK, Allowed, Begun, AheadOf
    <2> QED BY <2>2, <2>3, <2>4 DEF TabOK
  <1>7. \A d \in Devices : RowOK(d)'
    BY <1>2 DEF IInv, RowOK, Plain, Begun, AheadOf
  <1>8. \A s \in relays' : SnapshotOK(s)'
    BY <1>2 DEF IInv, SnapshotOK, Plain, AheadOf
  <1> QED BY <1>3, <1>5, <1>6, <1>7, <1>8 DEF IInv

-----------------------------------------------------------------------------
(* Steps that write a row.                                                 *)

\* What page u is left with when it has written s to the row of d: no look behind it,
\* and a licence only of its own mark.
Writer(u, d, s) ==
  /\ DeviceOf[u] = d
  /\ Shape(job'[u]) /\ Proven(job'[u]) /\ job'[u].step \notin Sending
  /\ job'[u].revision <= db[d].revision + 1
  /\ job'[u].revision = db[d].revision + 1 => job'[u].state = s
  /\ caps'[u] \in {0, caps[u]}
  /\ job'[u].step \in Marking =>
       /\ calls[d] = 0 /\ Begun(s)
       /\ \A v \in Tabs \ {u} : DeviceOf[v] = d => ~Committed(v)

\* A device's row is written, by a page of the device or by none.  Every licence
\* that rests on the row is gone, whoever held it; only the writer can have a new
\* one, behind a mark of its own.
LEMMA RowStep ==
  ASSUME DeviceAssumption, BoundAssumption, IInv, NEW d \in Devices,
         NEW s \in Finalization,
         db' = [db EXCEPT ![d] = [revision |-> @.revision + 1, state |-> s]],
         NEW writers \in SUBSET Tabs,
         job' \in [Tabs -> Job], caps' \in [Tabs -> Nat],
         \A u \in Tabs \ writers : job'[u] = job[u] /\ caps'[u] = caps[u],
         \A u \in writers : Writer(u, d, s),
         \A u, v \in writers : u = v,
         UNCHANGED <<late, relays, admitted, transfer, wire, calls>>,
         Plain(s), Begun(db[d].state) => Begun(s),
         (calls[d] > 0 \/ \E u \in Tabs \ writers : DeviceOf[u] = d /\ Committed(u)) =>
           /\ AheadOf(s)
           /\ s.status = "terminal_failure" => transfer = "failed",
         s.status = "paid" => transfer = "paid",
         db[d].state.ref => s.ref
  PROVE  IInv' /\ KeepsReference
  <1>1. TypeOK /\ db[d] \in Row /\ db[d].revision \in Nat /\ calls[d] \in Nat
    BY DEF IInv, TypeOK, Row
  <1>2. /\ db' \in [Devices -> Row] /\ db'[d].revision = db[d].revision + 1
        /\ db'[d].state = s /\ \A e \in Devices \ {d} : db'[e] = db[e]
    BY <1>1 DEF TypeOK, Row
  <1>3. TypeOK'
    BY <1>1, <1>2 DEF TypeOK
  <1>4. \A u \in Tabs : DeviceOf[u] \in Devices /\ TabOK(u) /\ caps[u] \in Nat
                        /\ job[u].revision \in Nat
    BY <1>1, TabTypes DEF IInv
  <1>5. ASSUME NEW u \in Tabs, DeviceOf[u] # d
        PROVE  /\ RowOf(u)' = RowOf(u) /\ job'[u] = job[u] /\ caps'[u] = caps[u]
               /\ u \notin writers
    BY <1>2, <1>4, <1>5 DEF RowOf, Writer
  <1>6. ASSUME NEW u \in Tabs, DeviceOf[u] = d
        PROVE  RowOf(u) = db[d] /\ RowOf(u)' = db'[d]
    BY <1>6 DEF RowOf
  <1>7. ASSUME NEW u \in Tabs, DeviceOf[u] = d PROVE ~Free(u)'
    <2>1. caps[u] <= db[d].revision
      BY <1>4, <1>6, <1>7 DEF TabOK, Held
    <2>2. caps'[u] \in {0, caps[u]}
      BY DEF Writer
    <2>3. RowOf(u)'.revision = db[d].revision + 1
      BY <1>2, <1>6, <1>7
    <2> QED BY <1>1, <1>4, <2>1, <2>2, <2>3 DEF Free
  <1>8. ASSUME NEW u \in Tabs \ writers, DeviceOf[u] = d
        PROVE  ~Pending(u)' /\ (Committed(u)' <=> Committed(u))
    <2>1. job'[u].revision <= db[d].revision /\ job'[u] = job[u]
      BY <1>4, <1>6, <1>8 DEF TabOK, Held
    <2>2. RowOf(u)'.revision = db[d].revision + 1
      BY <1>2, <1>6, <1>8
    <2>3. ~Pending(u)'
      BY <1>1, <1>4, <2>1, <2>2 DEF Pending
    <2> QED BY <2>1, <2>3 DEF Committed
  <1>9. ASSUME NEW u \in writers
        PROVE  ~Committed(u)' /\ (Pending(u)' => job'[u].step \in Marking)
    BY DEF Committed, Pending, Writer
  <1>10. ASSUME NEW u \in Tabs, DeviceOf[u] # d
         PROVE  /\ Committed(u)' <=> Committed(u)
                /\ Pending(u)' <=> Pending(u)
                /\ Free(u)' <=> Free(u)
                /\ Licensed(u)' <=> Licensed(u)
    BY <1>5, <1>10 DEF Committed, Pending, Free, Licensed
  <1>11. ASSUME NEW u \in Tabs, DeviceOf[u] = d, Licensed(u)'
         PROVE  \/ u \notin writers /\ Committed(u)
                \/ u \in writers /\ job'[u].step \in Marking
    BY <1>7, <1>8, <1>9, <1>11 DEF Licensed
  <1>12. OneLicence'
    <2> SUFFICES ASSUME NEW u \in Tabs, NEW v \in Tabs, Licensed(u)', Licensed(v)',
                        DeviceOf[u] = DeviceOf[v]
                 PROVE  u = v
      BY DEF OneLicence
    <2>1. CASE DeviceOf[u] # d
      BY <1>10, <2>1 DEF IInv, OneLicence
    <2>2. CASE DeviceOf[u] = d
      <3>1. CASE u \in writers
        BY <1>11, <2>2, <3>1 DEF Writer
      <3>2. CASE v \in writers
        BY <1>11, <2>2, <3>2 DEF Writer
      <3>3. CASE u \notin writers /\ v \notin writers
        BY <1>11, <2>2, <3>3 DEF IInv, OneLicence, Licensed
      <3> QED BY <3>1, <3>2, <3>3
    <2> QED BY <2>1, <2>2
  <1>13. ASSUME NEW u \in Tabs PROVE TabOK(u)'
    <2>1. CASE DeviceOf[u] # d
      <3>1. TabOK(u) /\ RowOf(u)' = RowOf(u) /\ job'[u] = job[u] /\ caps'[u] = caps[u]
        BY <1>4, <1>5, <2>1
      <3>2. Shape(job[u])' /\ Proven(job[u])' /\ Held(u)'
        BY <3>1 DEF TabOK, Shape, Proven, Held, AheadOf
      <3>3. Allowed(u)'
        BY <1>10, <2>1, <3>1 DEF TabOK, Allowed, AheadOf, Begun
      <3> QED BY <3>2, <3>3 DEF TabOK
    <2>2. CASE DeviceOf[u] = d
      <3>1. /\ RowOf(u) = db[d] /\ RowOf(u)'.state = s
            /\ RowOf(u)'.revision = db[d].revision + 1
        BY <1>2, <1>6, <2>2
      <3>2. Shape(job[u])' /\ Proven(job[u])'
        <4>1. CASE u \in writers
          BY <4>1 DEF Writer, Shape, Proven, AheadOf
        <4>2. CASE u \notin writers
          BY <1>4, <4>2 DEF TabOK, Shape, Proven, AheadOf
        <4> QED BY <4>1, <4>2
      <3>3. Held(u)'
        <4>1. caps'[u] <= db[d].revision + 1
          BY <1>1, <1>4, <3>1 DEF TabOK, Held, Writer
        <4>2. CASE u \in writers
          BY <3>1, <4>1, <4>2 DEF Held, Writer
        <4>3. CASE u \notin writers
          <5>1. job'[u] = job[u] /\ job[u].revision <= db[d].revision
            BY <1>4, <3>1, <4>3 DEF TabOK, Held
          <5> QED BY <1>1, <1>4, <3>1, <4>1, <5>1 DEF Held
        <4> QED BY <4>2, <4>3
      <3>4. Licensed(u)' => calls'[d] = 0 /\ Begun(s)
        <4>1. CASE u \in writers
          BY <1>11, <2>2, <4>1 DEF Writer
        <4>2. CASE u \notin writers
          BY <1>4, <1>11, <2>2, <3>1, <4>2 DEF TabOK, Allowed, Licensed
        <4> QED BY <4>1, <4>2
      <3>5. caps'[u] # RowOf(u)'.revision
        BY <1>1, <1>4, <3>1 DEF TabOK, Held, Writer
      <3>6. Committed(u)' => /\ AheadOf(s)
                             /\ s.status = "terminal_failure" => transfer = "failed"
        BY <1>8, <1>9, <2>2
      <3>7. Allowed(u)'
        BY <2>2, <3>1, <3>4, <3>5, <3>6 DEF Allowed, AheadOf, Begun
      <3> QED BY <3>2, <3>3, <3>7 DEF TabOK
    <2> QED BY <2>1, <2>2
  <1>14. ASSUME NEW e \in Devices PROVE RowOK(e)'
    <2>1. RowOK(e)
      BY DEF IInv
    <2>2. CASE e # d
      BY <1>2, <2>1, <2>2 DEF RowOK, Plain, Begun, AheadOf
    <2>3. CASE e = d
      BY <1>1, <1>2, <2>1, <2>3 DEF RowOK, Plain, Begun, AheadOf
    <2> QED BY <2>2, <2>3
  <1>15. \A r \in relays' : SnapshotOK(r)'
    BY DEF IInv, SnapshotOK, Plain, AheadOf
  <1>16. KeepsReference
    BY <1>2 DEF KeepsReference
  <1> QED BY <1>3, <1>12, <1>13, <1>14, <1>15, <1>16 DEF IInv

\* What s must show if the device has called, or another page is about to.
Others(t, d, s) ==
  (calls[d] > 0 \/ \E u \in Tabs \ {t} : DeviceOf[u] = d /\ Committed(u)) =>
    /\ AheadOf(s)
    /\ s.status = "terminal_failure" => transfer = "failed"

\* The same of a page that writes its own row.
LEMMA WriterStep ==
  ASSUME DeviceAssumption, BoundAssumption, IInv, NEW t \in Tabs, NEW d, d = DeviceOf[t],
         NEW s \in Finalization,
         db' = [db EXCEPT ![d] = [revision |-> @.revision + 1, state |-> s]],
         job' \in [Tabs -> Job], \A u \in Tabs \ {t} : job'[u] = job[u],
         caps' \in [Tabs -> Nat], \A u \in Tabs \ {t} : caps'[u] = caps[u],
         Writer(t, d, s), Others(t, d, s),
         UNCHANGED <<late, relays, admitted, transfer, wire, calls>>,
         Plain(s), Begun(db[d].state) => Begun(s),
         s.status = "paid" => transfer = "paid",
         db[d].state.ref => s.ref
  PROVE  IInv' /\ KeepsReference
  <1>1. d \in Devices
    BY DEF DeviceAssumption
  <1> DEFINE writers == {t}
  <1>2. writers \in SUBSET Tabs /\ \A u, v \in writers : u = v
    OBVIOUS
  <1>3. \A u \in Tabs \ writers : job'[u] = job[u] /\ caps'[u] = caps[u]
    OBVIOUS
  <1>4. \A u \in writers : Writer(u, d, s)
    OBVIOUS
  <1>5. (calls[d] > 0 \/ \E u \in Tabs \ writers : DeviceOf[u] = d /\ Committed(u)) =>
           /\ AheadOf(s)
           /\ s.status = "terminal_failure" => transfer = "failed"
    BY DEF Others
  <1> HIDE DEF writers
  <1> QED BY <1>1, <1>2, <1>3, <1>4, <1>5, RowStep

\* A row whose payment is not marked yet licenses nobody on its device.
LEMMA NoneBegun ==
  ASSUME DeviceAssumption, IInv, NEW t \in Tabs, ~Begun(RowOf(t).state)
  PROVE  /\ calls[DeviceOf[t]] = 0
         /\ \A u \in Tabs : DeviceOf[u] = DeviceOf[t] => ~Committed(u)
  <1>1. RowOK(DeviceOf[t]) /\ RowOf(t) = db[DeviceOf[t]] /\ calls[DeviceOf[t]] \in Nat
    BY TabTypes DEF IInv, TypeOK, RowOf
  <1>2. calls[DeviceOf[t]] = 0
    BY <1>1 DEF RowOK
  <1>3. ASSUME NEW u \in Tabs, DeviceOf[u] = DeviceOf[t] PROVE ~Committed(u)
    <2>1. Licensed(u) => Begun(RowOf(t).state)
      BY <1>3 DEF IInv, TabOK, Allowed, RowOf
    <2> QED BY <2>1 DEF Licensed
  <1> QED BY <1>2, <1>3

\* A licensed page is the only one, on a device that has not called.
LEMMA OnlyOne ==
  ASSUME IInv, NEW t \in Tabs, Licensed(t)
  PROVE  /\ calls[DeviceOf[t]] = 0 /\ Begun(RowOf(t).state)
         /\ \A u \in Tabs \ {t} : DeviceOf[u] = DeviceOf[t] => ~Committed(u)
  <1>1. calls[DeviceOf[t]] = 0 /\ Begun(RowOf(t).state)
    BY DEF IInv, TabOK, Allowed
  <1>2. \A u \in Tabs \ {t} : DeviceOf[u] = DeviceOf[t] => ~Licensed(u)
    BY DEF IInv, OneLicence
  <1> QED BY <1>1, <1>2 DEF Licensed

\* A page that saves under the revision it holds, holds the row.
LEMMA HoldsRow ==
  ASSUME DeviceAssumption, IInv, NEW t \in Tabs, RowOf(t).revision = job[t].revision
  PROVE  /\ job[t].state = RowOf(t).state /\ RowOf(t) = db[DeviceOf[t]]
         /\ DeviceOf[t] \in Devices /\ RowOf(t).state \in Finalization
         /\ TypeOK /\ TabOK(t) /\ RowOK(DeviceOf[t]) /\ job[t] \in Job
  BY TabTypes DEF IInv, TabOK, Held, RowOf

\* What a save leaves.
LEMMA SavedIs ==
  ASSUME DeviceAssumption, TypeOK, NEW t \in Tabs, NEW s \in Finalization,
         NEW step \in Steps, Saved(t, s, step)
  PROVE  /\ db' = [db EXCEPT ![DeviceOf[t]] = [revision |-> @.revision + 1, state |-> s]]
         /\ job' \in [Tabs -> Job] /\ \A u \in Tabs \ {t} : job'[u] = job[u]
         /\ job'[t].step = step /\ job'[t].state = s
         /\ job'[t].revision = RowOf(t).revision + 1
         /\ job'[t].sent <=> job[t].sent
  <1> DEFINE j == [job[t] EXCEPT !.revision = RowOf(t).revision + 1, !.state = s,
                                 !.step = step]
  <1>1. job[t] \in Job /\ RowOf(t).revision + 1 \in Nat
    BY TabTypes
  <1>2. j \in Job
    BY <1>1 DEF Job
  <1>3. /\ j.step = step /\ j.state = s /\ j.revision = RowOf(t).revision + 1
        /\ j.sent <=> job[t].sent
    BY <1>1 DEF Job
  <1>4. job' = [job EXCEPT ![t] = j]
    BY DEF Saved
  <1> HIDE DEF j
  <1>5. job' \in [Tabs -> Job] /\ job'[t] = j /\ \A u \in Tabs \ {t} : job'[u] = job[u]
    BY <1>2, <1>4 DEF TypeOK
  <1> QED BY <1>3, <1>5 DEF Saved

\* The first write of a payment: what it is made of licenses nobody.
LEMMA PrepareInv ==
  ASSUME DeviceAssumption, BoundAssumption, IInv, NEW t \in Tabs, Prepare(t)
  PROVE  IInv' /\ KeepsReference
  <1> DEFINE s == [Unprepared EXCEPT !.status = "prepared", !.intent = DeviceOf[t]]
             d == DeviceOf[t]
  <1>1. /\ job[t].step = "prepare" /\ RowOf(t).revision = job[t].revision
        /\ Saved(t, s, "reconcile")
        /\ UNCHANGED <<late, relays, caps, admitted, transfer, wire, calls>>
    BY DEF Prepare, At, CanSave
  <1>2. /\ job[t].state = RowOf(t).state /\ RowOf(t) = db[d] /\ d \in Devices
        /\ TypeOK /\ TabOK(t) /\ RowOK(d) /\ d # NoDevice
    BY <1>1, HoldsRow DEF DeviceAssumption
  <1>3. RowOf(t).state = Unprepared /\ ~job[t].sent
    BY <1>1, <1>2 DEF TabOK, Shape, RowOK, Plain
  <1>4. /\ s \in Finalization /\ s.status = "prepared" /\ s.intent = d
    BY <1>2, AtRest DEF Unprepared, Finalization, Statuses
  <1> HIDE DEF s, d
  <1>5. ~Begun(RowOf(t).state)
    BY <1>3, AtRest DEF Begun
  <1>6. calls[d] = 0 /\ \A u \in Tabs : DeviceOf[u] = d => ~Committed(u)
    BY <1>5, NoneBegun DEF d
  <1>7. /\ db' = [db EXCEPT ![d] = [revision |-> @.revision + 1, state |-> s]]
        /\ job' \in [Tabs -> Job] /\ \A u \in Tabs \ {t} : job'[u] = job[u]
        /\ job'[t].step = "reconcile" /\ job'[t].state = s
        /\ job'[t].revision = db[d].revision + 1 /\ ~job'[t].sent
    BY <1>1, <1>2, <1>3, <1>4, SavedIs DEF Steps, d
  <1>8. Shape(job'[t]) /\ Proven(job'[t])
    BY <1>2, <1>4, <1>7 DEF Shape, Proven, Published
  <1>9. job'[t].step \notin Sending /\ job'[t].step \notin Marking
    BY <1>7 DEF Sending, Marking
  <1>10. caps' \in [Tabs -> Nat] /\ \A u \in Tabs : caps'[u] = caps[u]
    BY <1>1, <1>2 DEF TypeOK
  <1>11. Plain(s) /\ (Begun(db[d].state) => Begun(s)) /\ (db[d].state.ref => s.ref)
    BY <1>2, <1>3, <1>4, <1>5, AtRest DEF Plain
  <1>12. d = DeviceOf[t] /\ caps'[t] \in {0, caps[t]} /\ s.status # "paid"
    BY <1>4, <1>10 DEF d
  <1>13. job'[t].revision <= db[d].revision + 1
    BY <1>2, <1>7, TabTypes DEF d
  <1>14. Writer(t, d, s)
    BY <1>7, <1>8, <1>9, <1>12, <1>13 DEF Writer
  <1>15. Others(t, d, s)
    BY <1>6 DEF Others
  <1>16. \A u \in Tabs \ {t} : caps'[u] = caps[u]
    BY <1>10
  <1> QED BY <1>1, <1>4, <1>7, <1>10, <1>11, <1>12, <1>14, <1>15, <1>16, WriterStep

\* The evidence of the provider is written down.
LEMMA RecordObservedInv ==
  ASSUME DeviceAssumption, BoundAssumption, IInv, NEW t \in Tabs, RecordObserved(t)
  PROVE  IInv' /\ KeepsReference
  <1> DEFINE seen == job[t].seen
             s == Recorded(job[t].state, seen)
             d == DeviceOf[t]
             last == [job[t] EXCEPT !.revision = RowOf(t).revision + 1, !.state = s,
                                    !.step = "paid_ack"]
             pays == seen = "paid" /\ job[t].sent
  <1>1. /\ job[t].step = "observed" /\ seen # "not_found"
        /\ RowOf(t).revision = job[t].revision /\ Progression(RowOf(t).state, s)
        /\ db' = [db EXCEPT ![d] = [revision |-> @.revision + 1, state |-> s]]
        /\ job' = [job EXCEPT ![t] = IF pays THEN last ELSE Idle]
        /\ caps' = IF seen = "paid" THEN [caps EXCEPT ![t] = 0] ELSE caps
        /\ UNCHANGED <<late, relays, admitted, transfer, wire, calls>>
    BY DEF RecordObserved, At, CanSave
  <1>2. /\ job[t].state = RowOf(t).state /\ RowOf(t) = db[d] /\ d \in Devices
        /\ TypeOK /\ TabOK(t) /\ RowOK(d) /\ job[t] \in Job
        /\ RowOf(t).state \in Finalization
    BY <1>1, HoldsRow
  <1>3. /\ seen \in {"pending", "paid", "terminal_failure", "conflicting_evidence"}
        /\ job[t].state.intent # NoDevice
        /\ seen = "paid" => transfer = "paid"
        /\ seen = "terminal_failure" => transfer = "failed"
        /\ job[t].sent => AheadOf(job[t].state)
    BY <1>1, <1>2, JobTypes DEF Observations, TabOK, Shape, Proven
  <1>4. RecordedAs(seen) \in {"ambiguous", "paid", "terminal_failure", "conflicting_evidence"}
        /\ (RecordedAs(seen) = "paid" <=> seen = "paid")
        /\ (RecordedAs(seen) = "terminal_failure" <=> seen = "terminal_failure")
    BY <1>3 DEF RecordedAs
  <1>5. s \in Finalization
    BY <1>2, <1>4 DEF Recorded, Finalization, Statuses
  <1>6. /\ s.status = RecordedAs(seen) /\ s.intent = job[t].state.intent
        /\ s.attempt = job[t].state.attempt
        /\ job[t].state.ref => s.ref
    BY <1>2 DEF Recorded, Finalization
  <1> HIDE DEF s
  <1>7. /\ last \in Job /\ last.step = "paid_ack" /\ last.state = s
        /\ last.revision = RowOf(t).revision + 1
    <2>1. RowOf(t).revision + 1 \in Nat
      BY <1>2, TabTypes
    <2>2. last \in Job
      BY <1>2, <1>5, <2>1 DEF Job, Steps
    <2>3. last.step = "paid_ack" /\ last.state = s /\ last.revision = RowOf(t).revision + 1
      BY <1>2 DEF Job
    <2> QED BY <2>2, <2>3
  <1> HIDE DEF last
  <1>8. /\ job' \in [Tabs -> Job] /\ \A u \in Tabs \ {t} : job'[u] = job[u]
        /\ job'[t] = IF pays THEN last ELSE Idle
    BY <1>1, <1>2, <1>7, AtRest DEF TypeOK
  <1>9. ASSUME AheadOf(job[t].state) PROVE AheadOf(s)
    BY <1>6, <1>9 DEF AheadOf
  <1>10. Shape(job'[t]) /\ Proven(job'[t])
    <2>1. CASE pays
      <3>1. Shape(last)
        BY <1>3, <1>4, <1>6, <1>7, <2>1 DEF Shape
      <3>2. Proven(last)
        BY <1>3, <1>7, <1>9, <2>1 DEF Proven
      <3> QED BY <1>8, <2>1, <3>1, <3>2
    <2>2. CASE ~pays
      BY <1>8, <2>2, AtRest DEF Shape, Proven, Published
    <2> QED BY <2>1, <2>2
  <1>11. /\ job'[t].step \notin Sending /\ job'[t].step \notin Marking
         /\ job'[t].revision <= db[d].revision + 1
         /\ job'[t].revision = db[d].revision + 1 => job'[t].state = s
    <2>1. db[d].revision \in Nat
      BY <1>2, TabTypes
    <2>2. CASE pays
      BY <1>2, <1>7, <1>8, <2>1, <2>2 DEF Sending, Marking
    <2>3. CASE ~pays
      BY <1>8, <2>1, <2>3, AtRest DEF Sending, Marking
    <2> QED BY <2>2, <2>3
  <1>12. /\ caps' \in [Tabs -> Nat] /\ caps'[t] \in {0, caps[t]}
         /\ \A u \in Tabs \ {t} : caps'[u] = caps[u]
    BY <1>1, <1>2 DEF TypeOK
  <1>13. Plain(s) /\ Begun(s) /\ (db[d].state.ref => s.ref)
    BY <1>2, <1>3, <1>4, <1>6 DEF Plain, Begun
  <1>14. (s.status = "terminal_failure" => transfer = "failed")
         /\ (s.status = "paid" => transfer = "paid")
    BY <1>3, <1>4, <1>6
  <1>15. (calls[d] > 0 \/ \E u \in Tabs \ {t} : DeviceOf[u] = d /\ Committed(u)) => AheadOf(s)
    <2>1. calls[d] > 0 => AheadOf(job[t].state)
      BY <1>2 DEF RowOK
    <2>2. ASSUME NEW u \in Tabs \ {t}, DeviceOf[u] = d, Committed(u)
          PROVE  AheadOf(job[t].state)
      BY <1>2, <2>2 DEF IInv, TabOK, Allowed, RowOf
    <2> QED BY <1>9, <2>1, <2>2
  <1>16. d = DeviceOf[t]
    OBVIOUS
  <1> HIDE DEF d, seen, pays
  <1>17. Writer(t, d, s)
    BY <1>10, <1>11, <1>12, <1>16 DEF Writer
  <1>18. Others(t, d, s)
    BY <1>14, <1>15 DEF Others
  <1> QED BY <1>1, <1>5, <1>8, <1>12, <1>13, <1>14, <1>16, <1>17, <1>18, WriterStep

\* The mark: of a payment that nobody has marked yet, or of one whose cancellation
\* this page holds.
LEMMA MarkInv ==
  ASSUME DeviceAssumption, BoundAssumption, IInv, NEW t \in Tabs, Mark(t)
  PROVE  IInv' /\ KeepsReference
  <1> DEFINE s == Marked(job[t].state)
             d == DeviceOf[t]
  <1>1. /\ job[t].step = "mark" /\ RowOf(t).revision = job[t].revision
        /\ job[t].state.attempt < MaxAttempts
        /\ Saved(t, s, "submitted_ack")
        /\ caps' = IF job[t].retry THEN [caps EXCEPT ![t] = 0] ELSE caps
        /\ UNCHANGED <<late, relays, admitted, transfer, wire, calls>>
    BY DEF Mark, At, CanSave
  <1>2. IF job[t].retry THEN LiveCancellation(t) /\ ~job[t].state.ref
        ELSE Progression(RowOf(t).state, s)
    BY DEF Mark
  <1>3. /\ job[t].state = RowOf(t).state /\ RowOf(t) = db[d] /\ d \in Devices
        /\ TypeOK /\ TabOK(t) /\ RowOK(d) /\ job[t].state \in Finalization
    BY <1>1, HoldsRow
  <1>4. s \in Finalization
    <2>1. job[t].state.attempt + 1 \in 0 .. MaxAttempts
      BY <1>1, <1>3, StateTypes DEF BoundAssumption
    <2> QED BY <1>3, <2>1 DEF Marked, Finalization, Statuses
  <1>5. /\ s.status = "submitted" /\ s.intent = job[t].state.intent
        /\ s.ref <=> job[t].state.ref
    BY <1>3 DEF Marked, Finalization
  <1>6. s.intent # NoDevice
    BY <1>1, <1>3, <1>5 DEF TabOK, Shape
  <1> HIDE DEF s, d
  <1>7. /\ calls[d] = 0 /\ \A u \in Tabs \ {t} : DeviceOf[u] = d => ~Committed(u)
    <2>1. CASE job[t].retry
      <3>1. job[t].state.status = "terminal_failure" /\ caps[t] = job[t].revision
        BY <1>2, <2>1 DEF LiveCancellation
      <3>2. job[t].revision # 0
        BY <1>1, <1>3, <3>1, AtRest DEF RowOK
      <3>3. Licensed(t)
        BY <1>1, <3>1, <3>2 DEF Licensed, Free
      <3> QED BY <3>3, OnlyOne DEF d
    <2>2. CASE ~job[t].retry
      <3>1. ~Begun(RowOf(t).state)
        BY <1>1, <1>3, <2>2 DEF TabOK, Shape, Begun
      <3> QED BY <3>1, NoneBegun DEF d
    <2> QED BY <2>1, <2>2
  <1>8. /\ db' = [db EXCEPT ![d] = [revision |-> @.revision + 1, state |-> s]]
        /\ job' \in [Tabs -> Job] /\ \A u \in Tabs \ {t} : job'[u] = job[u]
        /\ job'[t].step = "submitted_ack" /\ job'[t].state = s
        /\ job'[t].revision = db[d].revision + 1
    BY <1>1, <1>3, <1>4, SavedIs DEF Steps, d
  <1>9. Shape(job'[t]) /\ Proven(job'[t]) /\ job'[t].step \notin Sending
    BY <1>5, <1>6, <1>8 DEF Shape, Proven, Published, Sending
  <1>10. caps' \in [Tabs -> Nat] /\ caps'[t] \in {0, caps[t]}
         /\ \A u \in Tabs \ {t} : caps'[u] = caps[u]
    BY <1>1, <1>3 DEF TypeOK
  <1>11. Begun(s) /\ Plain(s) /\ (db[d].state.ref => s.ref)
         /\ (s.status = "paid" => transfer = "paid")
    BY <1>3, <1>5, <1>6 DEF Begun, Plain
  <1>12. d = DeviceOf[t]
    BY DEF d
  <1>13. job'[t].revision <= db[d].revision + 1
    BY <1>3, <1>8, TabTypes DEF d
  <1>14. Writer(t, d, s)
    BY <1>7, <1>8, <1>9, <1>10, <1>11, <1>12, <1>13 DEF Writer
  <1>15. Others(t, d, s)
    BY <1>7 DEF Others
  <1> QED BY <1>1, <1>4, <1>8, <1>10, <1>11, <1>12, <1>14, <1>15, WriterStep

\* The transfer's id is added to the row that was marked.
LEMMA KeepReferenceInv ==
  ASSUME DeviceAssumption, BoundAssumption, IInv, NEW t \in Tabs, KeepReference(t)
  PROVE  IInv' /\ KeepsReference
  <1> DEFINE s == [job[t].state EXCEPT !.ref = TRUE]
             d == DeviceOf[t]
  <1>1. /\ job[t].step = "reference" /\ RowOf(t).revision = job[t].revision
        /\ job[t].state.status = "submitted"
        /\ Saved(t, s, "observe_sent")
        /\ UNCHANGED <<late, relays, caps, admitted, transfer, wire, calls>>
    BY DEF KeepReference, At, SameRow
  <1>2. /\ job[t].state = RowOf(t).state /\ RowOf(t) = db[d] /\ d \in Devices
        /\ TypeOK /\ TabOK(t) /\ RowOK(d) /\ job[t].state \in Finalization
    BY <1>1, HoldsRow
  <1>3. s \in Finalization
    BY <1>2 DEF Finalization
  <1>4. /\ s.status = "submitted" /\ s.intent = job[t].state.intent
        /\ s.attempt = job[t].state.attempt /\ s.ref
    BY <1>1, <1>2 DEF Finalization
  <1>5. s.intent # NoDevice
    BY <1>1, <1>2, <1>4 DEF TabOK, Shape
  <1> HIDE DEF s, d
  <1>6. AheadOf(s)
    <2>1. AheadOf(job[t].state)
      BY <1>1, <1>2 DEF TabOK, Proven, Published
    <2> QED BY <1>4, <2>1 DEF AheadOf
  <1>7. /\ db' = [db EXCEPT ![d] = [revision |-> @.revision + 1, state |-> s]]
        /\ job' \in [Tabs -> Job] /\ \A u \in Tabs \ {t} : job'[u] = job[u]
        /\ job'[t].step = "observe_sent" /\ job'[t].state = s
        /\ job'[t].revision = db[d].revision + 1
    BY <1>1, <1>2, <1>3, SavedIs DEF Steps, d
  <1>8. /\ Shape(job'[t]) /\ Proven(job'[t]) /\ job'[t].step \notin Sending
        /\ job'[t].step \notin Marking
    BY <1>5, <1>6, <1>7 DEF Shape, Proven, Published, Sending, Marking
  <1>9. caps' \in [Tabs -> Nat] /\ caps'[t] \in {0, caps[t]}
        /\ \A u \in Tabs \ {t} : caps'[u] = caps[u]
    BY <1>1, <1>2 DEF TypeOK
  <1>10. Begun(s) /\ Plain(s) /\ (s.status = "paid" => transfer = "paid")
    BY <1>4, <1>5 DEF Begun, Plain
  <1>11. d = DeviceOf[t]
    BY DEF d
  <1>12. job'[t].revision <= db[d].revision + 1
    BY <1>2, <1>7, TabTypes DEF d
  <1>13. Writer(t, d, s)
    BY <1>7, <1>8, <1>9, <1>11, <1>12 DEF Writer
  <1>14. Others(t, d, s)
    BY <1>4, <1>6 DEF Others
  <1> QED BY <1>1, <1>3, <1>4, <1>7, <1>9, <1>10, <1>11, <1>13, <1>14, WriterStep

\* The mark is taken back by the page that made it, and by no other.
LEMMA CancelInv ==
  ASSUME DeviceAssumption, BoundAssumption, IInv, NEW t \in Tabs, Cancel(t)
  PROVE  IInv' /\ KeepsReference
  <1> DEFINE s == [job[t].state EXCEPT !.status = "terminal_failure"]
             d == DeviceOf[t]
  <1>1. /\ job[t].step = "cancel" /\ RowOf(t).revision = job[t].revision
        /\ Saved(t, s, "readback")
        /\ UNCHANGED <<late, relays, caps, admitted, transfer, wire, calls>>
    BY DEF Cancel, CancelledFrom, At, CanSave
  <1>2. /\ job[t].state = RowOf(t).state /\ RowOf(t) = db[d] /\ d \in Devices
        /\ TypeOK /\ TabOK(t) /\ RowOK(d) /\ job[t].state \in Finalization
    BY <1>1, HoldsRow
  <1>3. s \in Finalization
    BY <1>2 DEF Finalization, Statuses
  <1>4. /\ s.status = "terminal_failure" /\ s.intent = job[t].state.intent
        /\ s.ref <=> job[t].state.ref
    BY <1>2 DEF Finalization
  <1>5. s.intent # NoDevice
    BY <1>1, <1>2, <1>4 DEF TabOK, Shape
  <1> HIDE DEF s, d
  <1>6. /\ calls[d] = 0 /\ \A u \in Tabs \ {t} : DeviceOf[u] = d => ~Committed(u)
    <2>1. Licensed(t)
      BY <1>1 DEF Licensed, Pending, Marking
    <2> QED BY <2>1, OnlyOne DEF d
  <1>7. /\ db' = [db EXCEPT ![d] = [revision |-> @.revision + 1, state |-> s]]
        /\ job' \in [Tabs -> Job] /\ \A u \in Tabs \ {t} : job'[u] = job[u]
        /\ job'[t].step = "readback" /\ job'[t].state = s
        /\ job'[t].revision = db[d].revision + 1
    BY <1>1, <1>2, <1>3, SavedIs DEF Steps, d
  <1>8. Shape(job'[t]) /\ Proven(job'[t]) /\ job'[t].step \notin Sending
    BY <1>5, <1>7 DEF Shape, Proven, Published, Sending
  <1>9. caps' \in [Tabs -> Nat] /\ caps'[t] \in {0, caps[t]}
        /\ \A u \in Tabs \ {t} : caps'[u] = caps[u]
    BY <1>1, <1>2 DEF TypeOK
  <1>10. Begun(s) /\ Plain(s) /\ (db[d].state.ref => s.ref)
         /\ (s.status = "paid" => transfer = "paid")
    BY <1>2, <1>4, <1>5 DEF Begun, Plain
  <1>11. d = DeviceOf[t]
    BY DEF d
  <1>12. job'[t].revision <= db[d].revision + 1
    BY <1>2, <1>7, TabTypes DEF d
  <1>13. Writer(t, d, s)
    BY <1>6, <1>7, <1>8, <1>9, <1>10, <1>11, <1>12 DEF Writer
  <1>14. Others(t, d, s)
    BY <1>6 DEF Others
  <1> QED BY <1>1, <1>3, <1>7, <1>9, <1>10, <1>11, <1>13, <1>14, WriterStep

\* What a row may become forgets neither a mark nor a transfer's id.
LEMMA ProgressionKeeps ==
  ASSUME NEW before \in Finalization, NEW after \in Finalization,
         Progression(before, after)
  PROVE  (Begun(before) => Begun(after)) /\ (before.ref => after.ref)
  <1>1. before.status \in Statuses
    BY DEF Finalization
  <1>2. before.ref => after.ref
    BY DEF Progression
  <1>3. CASE before.status = "submitted"
    BY <1>3 DEF Progression, Begun, Uncertain
  <1>4. CASE before.status = "terminal_failure"
    BY <1>4 DEF Progression, Begun, Uncertain
  <1>5. CASE before.status \in Uncertain
    BY <1>5 DEF Progression, Begun, Uncertain
  <1>6. CASE before.status = "paid"
    BY <1>6 DEF Progression, Begun
  <1> QED BY <1>1, <1>2, <1>3, <1>4, <1>5, <1>6 DEF Statuses, Uncertain, Begun

\* A merchant stores a snapshot that is not behind its row.
LEMMA ImportInv ==
  ASSUME DeviceAssumption, BoundAssumption, IInv, NEW d \in Devices, NEW s \in relays,
         Import(d, s)
  PROVE  IInv' /\ KeepsReference
  <1>1. /\ db[d].revision > 0 => Progression(db[d].state, s)
        /\ db' = [db EXCEPT ![d] = [revision |-> @.revision + 1, state |-> s]]
        /\ UNCHANGED <<late, relays, job, caps, admitted, transfer, wire, calls>>
    BY DEF Import
  <1>2. /\ TypeOK /\ SnapshotOK(s) /\ RowOK(d) /\ s \in Finalization
        /\ db[d].revision \in Nat /\ db[d].state \in Finalization /\ calls[d] \in Nat
    BY DEF IInv, TypeOK, Row
  <1>3. db[d].revision = 0 => ~Begun(db[d].state) /\ ~db[d].state.ref
    BY <1>2, AtRest DEF RowOK, Begun
  <1>4. db[d].revision = 0 \/ Progression(db[d].state, s)
    BY <1>1, <1>2
  <1>5. (Begun(db[d].state) => Begun(s)) /\ (db[d].state.ref => s.ref)
    BY <1>2, <1>3, <1>4, ProgressionKeeps
  <1>6. Begun(s) => AheadOf(s)
    <2>1. s.attempt >= s.attempt
      BY <1>2, StateTypes
    <2>2. s.status = "submitted" => AheadOf(s)
      BY <2>1 DEF AheadOf
    <2> QED BY <1>2, <2>2 DEF SnapshotOK, Begun
  <1>7. (calls[d] > 0 \/ \E u \in Tabs : DeviceOf[u] = d /\ Committed(u))
          => Begun(db[d].state)
    <2>1. calls[d] > 0 => Begun(db[d].state)
      BY <1>2 DEF RowOK
    <2>2. ASSUME NEW u \in Tabs, DeviceOf[u] = d, Committed(u) PROVE Begun(db[d].state)
      BY <2>2 DEF IInv, TabOK, Allowed, Licensed, RowOf
    <2> QED BY <2>1, <2>2
  <1>8. Plain(s) /\ s.status # "terminal_failure" /\ (s.status = "paid" => transfer = "paid")
    BY <1>2 DEF SnapshotOK
  <1> DEFINE writers == {}
  <1>9. /\ writers \in SUBSET Tabs /\ (\A u, v \in writers : u = v)
        /\ \A u \in writers : Writer(u, d, s)
    OBVIOUS
  <1>10. /\ job' \in [Tabs -> Job] /\ caps' \in [Tabs -> Nat]
         /\ \A u \in Tabs \ writers : job'[u] = job[u] /\ caps'[u] = caps[u]
    BY <1>1, <1>2 DEF TypeOK
  <1>11. (calls[d] > 0 \/ \E u \in Tabs \ writers : DeviceOf[u] = d /\ Committed(u)) =>
           /\ AheadOf(s)
           /\ s.status = "terminal_failure" => transfer = "failed"
    BY <1>5, <1>6, <1>7, <1>8
  <1> HIDE DEF writers
  <1> QED BY <1>1, <1>2, <1>5, <1>8, <1>9, <1>10, <1>11, RowStep

-----------------------------------------------------------------------------
(* The invariant.                                                          *)

\* Nothing is marked, sent or stored at the start.
LEMMA InitInv ==
  ASSUME DeviceAssumption, BoundAssumption, Init
  PROVE  IInv
  <1>1. TypeOK
    BY AtRest DEF Init, TypeOK, Row, Outcomes, DeviceAssumption
  <1>2. ASSUME NEW d \in Devices
        PROVE  db[d].revision \in {0, 1} /\ db[d].state = Unprepared /\ calls[d] = 0
    BY DEF Init
  <1>3. \A t \in Tabs : job[t] = Idle /\ caps[t] = 0
    BY DEF Init
  <1>4. ASSUME NEW t \in Tabs PROVE ~Licensed(t)
    BY <1>3, AtRest DEF Licensed, Committed, Pending, Free, Sending, Marking
  <1>5. ASSUME NEW t \in Tabs PROVE TabOK(t)
    <2>1. Shape(job[t]) /\ Proven(job[t])
      BY <1>3, AtRest DEF Shape, Proven, Published
    <2>2. RowOf(t).revision \in {0, 1} /\ RowOf(t).state = Unprepared
      BY <1>1, <1>2, TabTypes DEF RowOf
    <2>3. Held(t)
      BY <1>3, <2>2, AtRest DEF Held
    <2>4. Allowed(t)
      BY <1>4 DEF Allowed, Licensed
    <2> QED BY <2>1, <2>3, <2>4 DEF TabOK
  <1>6. ASSUME NEW d \in Devices PROVE RowOK(d)
    <2>1. db[d].state = Unprepared /\ calls[d] = 0
      BY <1>2
    <2>2. calls[d] <= 1 /\ ~(calls[d] > 0)
      BY <2>1
    <2>3. Plain(db[d].state)
      BY <2>1 DEF Plain
    <2>4. db[d].state.status # "paid" /\ db[d].state.status # "terminal_failure"
      BY <2>1, AtRest
    <2> QED BY <2>1, <2>2, <2>3, <2>4 DEF RowOK
  <1>7. \A s \in relays : SnapshotOK(s)
    BY AtRest DEF Init, SnapshotOK, Plain
  <1>8. OneLicence
    BY <1>4 DEF OneLicence
  <1> QED BY <1>1, <1>5, <1>6, <1>7, <1>8 DEF IInv

\* Every step of a page keeps it, and every transfer's id.
LEMMA PageInv ==
  ASSUME DeviceAssumption, BoundAssumption, IInv, NEW t \in Tabs, Page(t)
  PROVE  IInv' /\ KeepsReference
  <1>1. CASE Prepare(t) \/ RecordObserved(t) \/ Mark(t) \/ KeepReference(t) \/ Cancel(t)
    BY <1>1, PrepareInv, RecordObservedInv, MarkInv, KeepReferenceInv, CancelInv
  <1>2. ASSUME db' = db PROVE KeepsReference
    BY <1>2 DEF KeepsReference
  <1>3. CASE Start(t) \/ StartInspection(t) \/ Reconcile(t) \/ Admit(t) \/ Store(t)
    <2>1. db' = db
      BY <1>3 DEF Start, StartInspection, Reconcile, Admit, Store
    <2> QED BY <1>2, <1>3, <2>1, StartInv, StartInspectionInv, ReconcileInv, AdmitInv, StoreInv
  <1>4. CASE PreparedAck(t) \/ Preflight(t) \/ SubmittedAck(t) \/ Reprove(t) \/ Recheck(t)
    <2>1. db' = db
      BY <1>4 DEF PreparedAck, Preflight, SubmittedAck, Reprove, Recheck
    <2> QED BY <1>2, <1>4, <2>1, ToMarkInv, SubmittedAckInv, ReproveInv, RecheckInv
  <1>5. CASE GiveUp(t) \/ InspectSend(t) \/ NotSent(t) \/ Call(t) \/ Answer(t)
    <2>1. db' = db
      BY <1>5 DEF GiveUp, InspectSend, NotSent, Call, Answer
    <2> QED BY <1>2, <1>5, <2>1, GiveUpInv, InspectSendInv, CallInv, AnswerInv
  <1>6. CASE Remember(t) \/ PaidAck(t) \/ Abort(t) \/ Crash(t)
    <2>1. db' = db
      BY <1>6 DEF Remember, PaidAck, Abort, Crash
    <2> QED BY <1>2, <1>6, <2>1, RememberInv, EndInv
  <1> QED BY <1>1, <1>3, <1>4, <1>5, <1>6 DEF Page

\* A step that changes nothing keeps it.
LEMMA StutterInv ==
  ASSUME IInv, UNCHANGED vars
  PROVE  IInv' /\ KeepsReference
  <1>1. UNCHANGED <<late, db, relays, job, caps, admitted, transfer, wire, calls>>
    BY DEF vars
  <1>2. \A t \in Tabs : /\ RowOf(t)' = RowOf(t)
                        /\ Committed(t)' <=> Committed(t)
                        /\ Pending(t)' <=> Pending(t)
                        /\ Free(t)' <=> Free(t)
                        /\ Licensed(t)' <=> Licensed(t)
    BY <1>1 DEF RowOf, Committed, Pending, Free, Licensed
  <1>3. TypeOK'
    BY <1>1 DEF IInv, TypeOK
  <1>4. OneLicence'
    BY <1>2 DEF IInv, OneLicence
  <1>5. ASSUME NEW t \in Tabs PROVE TabOK(t)'
    <2>1. TabOK(t)
      BY DEF IInv
    <2>2. Shape(job[t])' /\ Proven(job[t])'
      BY <1>1, <2>1 DEF TabOK, Shape, Proven, AheadOf
    <2>3. Held(t)' /\ Allowed(t)'
      BY <1>1, <1>2, <2>1 DEF TabOK, Held, Allowed, AheadOf, Begun
    <2> QED BY <2>2, <2>3 DEF TabOK
  <1>6. \A d \in Devices : RowOK(d)'
    BY <1>1 DEF IInv, RowOK, Plain, Begun, AheadOf
  <1>7. \A s \in relays' : SnapshotOK(s)'
    BY <1>1 DEF IInv, SnapshotOK, Plain, AheadOf
  <1> QED BY <1>1, <1>3, <1>4, <1>5, <1>6, <1>7 DEF IInv, KeepsReference

\* Every step keeps it, and every transfer's id.
LEMMA NextInv ==
  ASSUME DeviceAssumption, BoundAssumption, IInv, [Next]_vars
  PROVE  IInv' /\ KeepsReference
  <1>1. CASE \E t \in Tabs : Page(t)
    BY <1>1, PageInv
  <1>2. CASE Move \/ \E d \in Devices : Fulfil(d) \/ TakeOver(d)
    <2>1. db' = db
      BY <1>2 DEF Move, Fulfil, TakeOver
    <2> QED BY <1>2, <2>1, OutsideInv DEF KeepsReference
  <1>3. CASE \E d \in Devices, s \in relays : Import(d, s)
    BY <1>3, ImportInv
  <1>4. CASE UNCHANGED vars
    BY <1>4, StutterInv
  <1> QED BY <1>1, <1>2, <1>3, <1>4 DEF Next

\* The invariant holds in every reachable state.
LEMMA Invariance ==
  ASSUME DeviceAssumption, BoundAssumption
  PROVE  Spec => []IInv
  <1>1. Init => IInv
    BY InitInv
  <1>2. IInv /\ [Next]_vars => IInv'
    BY NextInv
  <1> QED BY <1>1, <1>2, PTL DEF Spec

-----------------------------------------------------------------------------
(* What it gives.                                                          *)

\* Every variable keeps the shape the code gives it.
THEOREM TreasuryTypes ==
  ASSUME DeviceAssumption, BoundAssumption
  PROVE  Spec => []TypeOK
  <1>1. IInv => TypeOK
    BY DEF IInv
  <1> QED BY <1>1, Invariance, PTL

\* However many pages of a device run the step, crash and try again, and whatever
\* snapshots it imports, it hands the treasury's invoice to the SDK once.
THEOREM TreasuryCalledOnce ==
  ASSUME DeviceAssumption, BoundAssumption
  PROVE  Spec => []AtMostOneCall
  <1>1. IInv => AtMostOneCall
    BY DEF IInv, RowOK, AtMostOneCall
  <1> QED BY <1>1, Invariance, PTL

\* A row shows a failure only if the provider's transfer failed or its device has
\* never called: a cancellation takes back no possible send.
THEOREM NoSendTakenBack ==
  ASSUME DeviceAssumption, BoundAssumption
  PROVE  Spec => []TakenBackUnsent
  <1>1. IInv => TakenBackUnsent
    BY DEF IInv, RowOK, TakenBackUnsent
  <1> QED BY <1>1, Invariance, PTL

\* A device that has called left a mark of the attempt on a relay before it did.
THEOREM CalledBehindMark ==
  ASSUME DeviceAssumption, BoundAssumption
  PROVE  Spec => []MarkedAhead
  <1>1. IInv => MarkedAhead
    BY DEF IInv, RowOK, AheadOf, MarkedAhead
  <1> QED BY <1>1, Invariance, PTL

\* A row is paid only behind the provider's commitment, observed or imported.
THEOREM TreasuryPaidIsProven ==
  ASSUME DeviceAssumption, BoundAssumption
  PROVE  Spec => []PaidIsProven
  <1>1. IInv => PaidIsProven
    BY DEF IInv, RowOK, PaidIsProven
  <1> QED BY <1>1, Invariance, PTL

\* Once a device knows the transfer's id it never loses it.
THEOREM TreasuryKeepsReference ==
  ASSUME DeviceAssumption, BoundAssumption
  PROVE  Spec => ReferenceKept
  <1>1. IInv /\ [Next]_vars => [KeepsReference]_vars
    BY NextInv
  <1> QED BY <1>1, Invariance, PTL DEF Spec, ReferenceKept

=============================================================================
