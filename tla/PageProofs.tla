------------------------------ MODULE PageProofs ------------------------------
(***************************************************************************)
(* Theorems about the loops that a page runs.  Of ReconciliationWorker,    *)
(* the merchant's: for every number of checkouts, every delay and every    *)
(* sequence of listings, pauses and answers.  Of ProgressOutbox, here      *)
(* Outbox: for any number of snapshots, retained rows and interrupted      *)
(* invocations, for an event's plan and any other, with or without a row   *)
(* of the older version.  Of ShopperRunner, here Runner: for any number of *)
(* runners, legs, polls and ticks.  Of SettledFunding, here Funding: for   *)
(* any number of tabs.  And of MCPageLoops, whichever moves.               *)
(***************************************************************************)
EXTENDS MCPageLoops, FiniteSetTheorems, SequenceTheorems, TLAPS

-----------------------------------------------------------------------------
(* The scheduler: its inductive invariant.                                 *)

\* What is running is the one current work.
Working ==
  /\ running # {} <=> currentWork = "running"
  /\ \A i, j \in running : i = j

\* A worker that was disposed has no entries.
Emptied == stop # "no" => \A c \in Checkouts : entries[c] = NoEntry

\* The timer stays behind the gap after the last start.
Paced == gap <= StepGap /\ (timer # NoTimer => timer >= gap)

\* Without the early observation nothing is started before its takeover.
StartedLate ==
  ~ObserveBeforeTakeover =>
    \A c \in Checkouts :
      entries[c] # NoEntry /\ entries[c].held => until[entries[c].version] = 0

\* What is still current was started for the entry of its checkout.
Asked ==
  \A work \in running :
    LET e == entries[work.checkout]
    IN ~work.moved /\ e # NoEntry /\ e.held => e.version = work.version

Inv ==
  /\ TypeOK /\ Working /\ Emptied /\ DrainedIsQuiet /\ Paced
  /\ Armed /\ DueByTakeover /\ StartedLate /\ Asked

-----------------------------------------------------------------------------
(* The operators.                                                          *)

\* An entry is not the lack of one.
LEMMA EntryIsOne == ASSUME NEW e \in Entry PROVE e # NoEntry
BY DEF Entry, NoEntry, Statuses, Terminal

\* What an entry may be changed to is an entry again.
LEMMA EntryChanges ==
  ASSUME NEW e \in Entry
  PROVE  /\ e.version \in Versions /\ e.status \in Statuses /\ e.retry \in Nat
         /\ e.due \in Int /\ e.held \in BOOLEAN
         /\ \A held \in BOOLEAN : [e EXCEPT !.held = held] \in Entry
         /\ \A due \in Int : [e EXCEPT !.due = due] \in Entry
BY DEF Entry

\* A set timer is not negative and not before the gap; it is set if something waits.
LEMMA QueueSets ==
  ASSUME NEW es \in [Checkouts -> Entry \cup {NoEntry}], NEW idle \in BOOLEAN,
         NEW g \in Nat, g <= StepGap, Queue(es, idle, g)
  PROVE  /\ timer' \in Nat \cup {NoTimer}
         /\ timer' # NoTimer => timer' >= g
         /\ idle /\ Waiting(es) # {} => timer' # NoTimer
<1>1. CASE timer' = NoTimer /\ (~idle \/ Waiting(es) = {})
  BY <1>1
<1>2. CASE idle /\ \E c \in Soonest(es) : timer' = Least(MaxTimerDelay, Most(g, es[c].due))
  <2>1. PICK c \in Soonest(es) : timer' = Least(MaxTimerDelay, Most(g, es[c].due))
    BY <1>2
  <2>2. es[c] \in Entry BY DEF Soonest, Waiting
  <2>3. es[c].due \in Int BY <2>2, EntryChanges
  <2> QED BY <2>1, <2>3, DelayAssumption, GapAssumption DEF Least, Most, NoTimer
<1> QED BY <1>1, <1>2 DEF Queue

\* Entries that wait alike are chosen from alike.
LEMMA WaitingIsEntry ==
  ASSUME NEW es \in [Checkouts -> Entry \cup {NoEntry}], NEW c \in Waiting(es)
  PROVE  c \in Checkouts /\ es[c] \in Entry /\ es[c].version \in Versions
BY EntryChanges DEF Waiting

\* The bound on lateness leaves alone what is not overdue.
LEMMA FloorBelow ==
  ASSUME TypeOK, NEW c \in Checkouts
  PROVE  Floor(c) \in Int /\ Floor(c) <= 0
<1> DEFINE earlier == {d \in Waiting(entries) : entries[d].due < entries[c].due}
<1>1. IsFiniteSet(Checkouts \ {c})
  BY LateAssumption, FS_RemoveElement
<1>2. Cardinality(Checkouts \ {c}) = Cardinality(Checkouts) - 1
  BY LateAssumption, FS_RemoveElement
<1>3. c \notin earlier
  <2> SUFFICES ASSUME c \in earlier PROVE FALSE OBVIOUS
  <2>1. c \in Waiting(entries) /\ entries[c].due < entries[c].due OBVIOUS
  <2>2. entries[c].due \in Int BY <2>1, WaitingIsEntry, EntryChanges DEF TypeOK
  <2> QED BY <2>1, <2>2
<1>4. earlier \subseteq Checkouts \ {c}
  BY <1>3 DEF Waiting
<1>5. Cardinality(earlier) \in Nat /\ Cardinality(earlier) <= Cardinality(Checkouts) - 1
  BY <1>1, <1>2, <1>4, FS_Subset, FS_CardinalityType
<1>6. Cardinality(Checkouts) \in Nat
  BY LateAssumption, FS_CardinalityType
<1> QED BY <1>5, <1>6, LateAssumption DEF Floor

\* A listing is a sequence, and what is selected of it a candidate of the checkout.
LEMMA SelectedIsListed ==
  ASSUME NEW list \in Listings, NEW c \in Checkouts, NEW i \in Selected(list, c)
  PROVE  list[i].version \in Versions
<1>1. PICK n \in 0 .. MaxListed : list \in [1 .. n -> Candidate]
  BY DEF Listings
<1>2. list \in Seq(Candidate) /\ Len(list) = n
  BY <1>1, ListAssumption
<1>3. i \in 1 .. n
  BY <1>2, ListAssumption DEF Selected, Least
<1> QED BY <1>1, <1>3 DEF Candidate

\* A listing leaves a checkout nothing, the entry it had, or a new one.
LEMMA ReplacedEntry ==
  ASSUME TypeOK, NEW list \in Listings, NEW c \in Checkouts
  PROVE  \/ Replaced(list)[c] = NoEntry
         \/ entries[c] # NoEntry /\ Replaced(list)[c] = entries[c]
         \/ \E version \in Versions :
              /\ Replaced(list)[c] = NewEntry(version)
              /\ entries[c] # NoEntry => entries[c].version # version
<1> DEFINE version == list[CHOOSE i \in Selected(list, c) : TRUE].version
<1>1. CASE Selected(list, c) = {}
  BY <1>1 DEF Replaced
<1>2. CASE Selected(list, c) # {}
  <2>1. version \in Versions
    BY <1>2, SelectedIsListed
  <2>2. Replaced(list)[c] = IF entries[c] # NoEntry /\ entries[c].version = version
                            THEN entries[c] ELSE NewEntry(version)
    BY <1>2 DEF Replaced
  <2> QED BY <2>1, <2>2
<1> QED BY <1>1, <1>2

\* A new entry is due at once, or at its takeover, and is not held.
LEMMA NewEntryIsOne ==
  ASSUME TypeOK, NEW version \in Versions
  PROVE  /\ NewEntry(version) \in Entry
         /\ NewEntry(version).version = version
         /\ ~NewEntry(version).held
         /\ version \notin Malformed =>
              NewEntry(version).due = IF ObserveBeforeTakeover THEN 0 ELSE until[version]
<1>1. until[version] \in Int BY DEF TypeOK
<1> QED BY <1>1 DEF NewEntry, Entry, Statuses, Terminal

\* The backoff is a number.
LEMMA BackoffType == ASSUME NEW retry \in Nat \ {0} PROVE Backoff(retry) \in Int
<1>1. retry - 1 \in Nat OBVIOUS
<1>2. 2 ^ (retry - 1) \in Int BY <1>1
<1>3. MinRetry * 2 ^ (retry - 1) \in Int BY <1>2, DelayAssumption
<1> QED BY <1>3, DelayAssumption DEF Backoff, Least

\* What an answer makes of an entry: it is not held any more, and what is still to
\* come is due by the takeover.
LEMMA RescheduledEntry ==
  ASSUME TypeOK, NEW e \in Entry, NEW answer \in Statuses, NEW progress \in BOOLEAN
  PROVE  /\ Rescheduled(e, answer, progress) \in Entry
         /\ Rescheduled(e, answer, progress).version = e.version
         /\ Rescheduled(e, answer, progress).status = answer
         /\ ~Rescheduled(e, answer, progress).held
         /\ answer \notin Terminal /\ ObserveBeforeTakeover /\ until[e.version] > 0 =>
              Rescheduled(e, answer, progress).due <= Most(until[e.version], StepGap)
<1> DEFINE retry == Least(e.retry + 1, MaxRetryCount)
           takeover == until[e.version]
           checked == [e EXCEPT !.status = answer, !.held = FALSE]
           due == IF ObserveBeforeTakeover /\ takeover > 0
                  THEN Least(Backoff(retry), takeover)
                  ELSE Most(takeover, Backoff(retry))
<1>1. e.retry \in Nat /\ e.version \in Versions BY EntryChanges
<1>2. retry \in Nat \ {0} BY <1>1, DelayAssumption DEF Least
<1>3. takeover \in Nat BY <1>1 DEF TypeOK
<1>4. Backoff(retry) \in Int BY <1>2, BackoffType
<1>5. due \in Int /\ (ObserveBeforeTakeover /\ takeover > 0 => due <= Most(takeover, StepGap))
  BY <1>3, <1>4, DelayAssumption DEF Least, Most
<1>6. checked \in Entry /\ checked.version = e.version /\ checked.status = answer
        /\ checked.held = FALSE
  BY DEF Entry
<1>0. takeover = until[e.version] OBVIOUS
<1>7. Most(takeover, StepGap) \in Int BY <1>3, DelayAssumption DEF Most
<1>8. CASE answer \in Terminal
  <2>1. Rescheduled(e, answer, progress) = [checked EXCEPT !.retry = 0]
    BY <1>8 DEF Rescheduled, Terminal
  <2> HIDE DEF checked
  <2> QED BY <1>6, <1>8, <2>1 DEF Entry
<1>9. CASE answer \notin Terminal /\ progress /\ answer = "progress_pending"
  <2> DEFINE late == Most(takeover, StepGap)
  <2>1. Rescheduled(e, answer, progress) = [checked EXCEPT !.retry = 0, !.due = late]
    BY <1>9 DEF Rescheduled
  <2>2. late \in Int /\ late <= Most(until[e.version], StepGap)
    BY <1>7
  <2> HIDE DEF checked, takeover, late
  <2>3. [checked EXCEPT !.retry = 0, !.due = late] \in Entry
    BY <1>6, <2>2 DEF Entry
  <2>4. [checked EXCEPT !.retry = 0, !.due = late].due = late
    BY <1>6 DEF Entry
  <2> QED BY <1>6, <1>9, <2>1, <2>2, <2>3, <2>4 DEF Entry
<1>10. CASE answer \notin Terminal /\ ~(progress /\ answer = "progress_pending")
  <2>1. Rescheduled(e, answer, progress) = [checked EXCEPT !.retry = retry, !.due = due]
    BY <1>10 DEF Rescheduled
  <2> HIDE DEF retry, due, checked, takeover
  <2> QED BY <1>0, <1>2, <1>5, <1>6, <1>7, <1>10, <2>1 DEF Entry
<1> QED BY <1>8, <1>9, <1>10

\* Whatever the adapter says is understood as a status.
LEMMA UnderstoodIsStatus == ASSUME NEW answer PROVE Understood(answer) \in Statuses
BY DEF Understood, Statuses

\* There is one element in a set of one.
LEMMA CountOne == ASSUME NEW x PROVE Cardinality({x}) = 1
BY FS_Singleton

\* Nothing waits where there are no entries.
LEMMA NothingWaits ==
  ASSUME NEW es, \A c \in Checkouts : es[c] = NoEntry
  PROVE  Waiting(es) = {}
BY DEF Waiting

\* Of at most one there is at most one moved.
LEMMA MovedWork ==
  ASSUME TypeOK, Working
  PROVE  /\ Moved \subseteq Job
         /\ \A work \in Moved : work.moved
         /\ \A i, j \in Moved : i = j
         /\ Moved # {} <=> running # {}
<1>1. \A work \in running : [work EXCEPT !.moved = TRUE] \in Job
                              /\ [work EXCEPT !.moved = TRUE].moved
  BY DEF TypeOK, Job
<1> QED BY <1>1 DEF Moved, Working

-----------------------------------------------------------------------------
(* Every step keeps the invariant.                                         *)

LEMMA InitInv == Init => Inv
<1> SUFFICES ASSUME Init PROVE Inv OBVIOUS
<1> USE DEF Init
<1>1. TypeOK
  BY DelayAssumption DEF TypeOK, NoTimer
<1>2. Waiting(entries) = {}
  BY NothingWaits
<1>3. gap <= StepGap
  BY DelayAssumption
<1> QED BY <1>1, <1>2, <1>3 DEF Inv, Working, Emptied, DrainedIsQuiet, Paced, Armed,
           DueByTakeover, StartedLate, Asked

\* Where no entry changes but in whether it is held, waiting and due are as before.
LEMMA HeldOnly ==
  ASSUME TypeOK, NEW es \in [Checkouts -> Entry \cup {NoEntry}],
         \A c \in Checkouts :
           \/ es[c] = entries[c]
           \/ /\ entries[c] # NoEntry /\ es[c] # NoEntry
              /\ es[c].version = entries[c].version /\ es[c].status = entries[c].status
              /\ es[c].due = entries[c].due
  PROVE  /\ Waiting(es) = Waiting(entries)
         /\ \A c \in Waiting(entries) : es[c].version = entries[c].version
                                         /\ es[c].due = entries[c].due
BY DEF Waiting

LEMMA FireInv == ASSUME Inv, Fire PROVE Inv'
<1> USE DEF Inv
<1>1. CASE /\ Queue(entries, Idle, gap)
           /\ UNCHANGED <<entries, running, currentWork, gap, active, stop, until>>
  <2>1. Idle \in BOOLEAN BY DEF Idle, TypeOK
  <2>2. /\ timer' \in Nat \cup {NoTimer} /\ (timer' # NoTimer => timer' >= gap)
        /\ Idle /\ Waiting(entries) # {} => timer' # NoTimer
    BY <1>1, <2>1, QueueSets DEF TypeOK, Paced
  <2>3. TypeOK' BY <1>1, <2>2 DEF TypeOK
  <2>4. Waiting(entries)' = Waiting(entries) /\ Idle' = Idle
    BY <1>1 DEF Waiting, Idle
  <2> QED BY <1>1, <2>2, <2>3, <2>4 DEF Working, Emptied, DrainedIsQuiet, Paced, Armed,
             DueByTakeover, StartedLate, Asked
<1>2. ASSUME Idle, NEW c \in Soonest(entries), entries[c].due <= 0,
             entries' = [entries EXCEPT ![c].held = TRUE],
             running' = running \cup
               {[checkout |-> c, version |-> entries[c].version, moved |-> FALSE]},
             currentWork' = "running", gap' = StepGap, timer' = NoTimer,
             UNCHANGED <<active, stop, until>>
      PROVE  Inv'
  <2>1. c \in Waiting(entries) /\ c \in Checkouts /\ entries[c] \in Entry
          /\ entries[c].version \in Versions
    BY <1>2, WaitingIsEntry DEF Soonest, TypeOK
  <2>2. running = {} BY <1>2 DEF Idle, Working
  <2>3. /\ entries'[c] \in Entry /\ entries'[c].held = TRUE
        /\ entries'[c].version = entries[c].version
        /\ entries'[c].status = entries[c].status /\ entries'[c].due = entries[c].due
    BY <1>2, <2>1 DEF TypeOK, Entry
  <2>4. \A d \in Checkouts : d # c => entries'[d] = entries[d]
    BY <1>2 DEF TypeOK
  <2>5. entries' \in [Checkouts -> Entry \cup {NoEntry}]
    BY <1>2, <2>3, <2>4 DEF TypeOK
  <2>6. TypeOK'
    BY <1>2, <2>1, <2>2, <2>5, DelayAssumption DEF TypeOK, Job
  <2>7. entries[c] # NoEntry /\ entries'[c] # NoEntry
    BY <2>1, <2>3, EntryIsOne
  <2>8. /\ Waiting(entries') = Waiting(entries)
        /\ \A d \in Waiting(entries) : entries'[d].version = entries[d].version
                                        /\ entries'[d].due = entries[d].due
    BY <2>3, <2>4, <2>5, <2>7, HeldOnly
  <2>9. Working' BY <1>2, <2>2 DEF Working
  <2>10. Emptied' /\ DrainedIsQuiet' BY <1>2 DEF Idle, Emptied, DrainedIsQuiet
  <2>11. Paced' /\ Armed' BY <1>2, DelayAssumption DEF Paced, Armed, Idle
  <2>12. DueByTakeover' BY <1>2, <2>8 DEF DueByTakeover
  <2>13. StartedLate'
    <3>1. ~ObserveBeforeTakeover => until[entries[c].version] = 0
      BY <1>2, <2>1 DEF DueByTakeover, TypeOK
    <3> QED BY <1>2, <2>3, <2>4, <3>1 DEF StartedLate
  <2>14. Asked'
    BY <1>2, <2>2, <2>3 DEF Asked
  <2> QED BY <2>6, <2>9, <2>10, <2>11, <2>12, <2>13, <2>14
<1> QED BY <1>1, <1>2 DEF Fire

LEMMA SettleInv == ASSUME Inv, NEW work \in running, Settle(work) PROVE Inv'
<1> USE DEF Inv
<1>0. /\ running' = running \ {work} /\ currentWork' = "settled"
      /\ UNCHANGED <<active, stop, timer, gap, until>>
  BY DEF Settle
<1>1. running' = {} /\ currentWork = "running"
  BY <1>0 DEF Working
<1>2. Working' /\ DrainedIsQuiet' /\ Paced' /\ Armed' /\ Asked'
  BY <1>0, <1>1 DEF Working, DrainedIsQuiet, Paced, Armed, Asked, Idle
<1>3. CASE UNCHANGED entries
  <2>1. TypeOK' BY <1>0, <1>1, <1>3 DEF TypeOK
  <2>2. Waiting(entries)' = Waiting(entries) BY <1>3 DEF Waiting
  <2> QED BY <1>0, <1>2, <1>3, <2>1, <2>2 DEF Emptied, DueByTakeover, StartedLate
<1>4. ASSUME IsCurrent(work), NEW answer \in Statuses, NEW progress \in BOOLEAN,
             entries' = [entries EXCEPT ![work.checkout] =
                           Rescheduled(@, answer, progress)]
      PROVE  Inv'
  <2> DEFINE c == work.checkout
             e == entries[c]
             next == Rescheduled(e, answer, progress)
  <2>1. c \in Checkouts /\ e \in Entry /\ e.held /\ stop = "no"
    BY <1>4 DEF IsCurrent, TypeOK, Job
  <2>2. /\ next \in Entry /\ next.version = e.version /\ next.status = answer /\ ~next.held
        /\ answer \notin Terminal /\ ObserveBeforeTakeover /\ until[e.version] > 0 =>
              next.due <= Most(until[e.version], StepGap)
    BY <2>1, RescheduledEntry
  <2>3. entries'[c] = next /\ \A d \in Checkouts : d # c => entries'[d] = entries[d]
    BY <1>4, <2>1 DEF TypeOK
  <2>4. e # NoEntry /\ next # NoEntry BY <2>1, <2>2, EntryIsOne
  <2>5. ~ObserveBeforeTakeover => until[e.version] = 0
    BY <2>1, <2>4 DEF StartedLate
  <2> HIDE DEF next
  <2>6. TypeOK'
    BY <1>0, <1>1, <1>4, <2>1, <2>2, <2>3 DEF TypeOK
  <2>7. Emptied' BY <1>0, <2>1 DEF Emptied
  <2>8. DueByTakeover'
    <3> SUFFICES ASSUME NEW d \in Waiting(entries'), until[entries'[d].version] > 0
                 PROVE  /\ entries'[d].due <= Most(until[entries'[d].version], StepGap)
                        /\ ~ObserveBeforeTakeover =>
                             entries'[d].due = until[entries'[d].version]
      BY <1>0 DEF DueByTakeover
    <3>1. CASE d = c
      <4>1. answer \notin Terminal BY <2>2, <2>3, <3>1 DEF Waiting
      <4> QED BY <2>2, <2>3, <2>5, <3>1, <4>1
    <3>2. CASE d # c
      <4>1. entries'[d] = entries[d] BY <2>3, <3>2 DEF Waiting
      <4>2. d \in Waiting(entries) BY <4>1 DEF Waiting
      <4> QED BY <4>1, <4>2 DEF DueByTakeover
    <3> QED BY <3>1, <3>2
  <2>9. StartedLate' BY <1>0, <2>2, <2>3 DEF StartedLate
  <2> QED BY <1>2, <2>6, <2>7, <2>8, <2>9
<1>5. \/ UNCHANGED entries
      \/ IsCurrent(work) /\ \E answer \in Statuses, progress \in BOOLEAN :
           entries' = [entries EXCEPT ![work.checkout] = Rescheduled(@, answer, progress)]
  BY UnderstoodIsStatus DEF Settle
<1> QED BY <1>3, <1>4, <1>5

LEMMA FinallyInv == ASSUME Inv, Finally PROVE Inv'
<1> USE DEF Inv
<1>0. /\ currentWork = "settled" /\ currentWork' = "none"
      /\ UNCHANGED <<active, stop, entries, running, gap, until>>
  BY DEF Finally
<1>1. running = {} BY <1>0 DEF Working
<1>2. /\ timer' \in Nat \cup {NoTimer} /\ (timer' # NoTimer => timer' >= gap)
      /\ stop = "no" /\ active /\ Waiting(entries) # {} => timer' # NoTimer
  <2>1. CASE stop = "no"
    BY <2>1, QueueSets DEF Finally, TypeOK, Paced
  <2>2. CASE stop # "no"
    BY <2>2 DEF Finally, TypeOK, Paced
  <2> QED BY <2>1, <2>2
<1>3. TypeOK' BY <1>0, <1>2 DEF TypeOK
<1>4. Waiting(entries)' = Waiting(entries) BY <1>0 DEF Waiting
<1> QED BY <1>0, <1>1, <1>2, <1>3, <1>4 DEF Working, Emptied, DrainedIsQuiet, Paced, Armed,
           Idle, DueByTakeover, StartedLate, Asked

LEMMA ReplaceInv == ASSUME Inv, NEW list \in Listings, ReplaceCandidates(list) PROVE Inv'
<1> USE DEF Inv
<1>0. /\ stop = "no" /\ entries' = Replaced(list) /\ Queue(entries', Idle, gap)
      /\ UNCHANGED <<active, stop, running, currentWork, gap, until>>
  BY DEF ReplaceCandidates
<1>1. \A c \in Checkouts :
        \/ entries'[c] = NoEntry
        \/ entries[c] # NoEntry /\ entries'[c] = entries[c]
        \/ \E version \in Versions :
             /\ entries'[c] = NewEntry(version)
             /\ entries[c] # NoEntry => entries[c].version # version
  BY <1>0, ReplacedEntry
<1>2. entries' \in [Checkouts -> Entry \cup {NoEntry}]
  <2>1. entries' = [c \in Checkouts |-> entries'[c]] BY <1>0 DEF Replaced
  <2>2. \A c \in Checkouts : entries'[c] \in Entry \cup {NoEntry}
    BY <1>1, NewEntryIsOne DEF TypeOK
  <2> QED BY <2>1, <2>2
<1>3. Idle \in BOOLEAN BY DEF Idle, TypeOK
<1>4. /\ timer' \in Nat \cup {NoTimer} /\ (timer' # NoTimer => timer' >= gap)
      /\ Idle /\ Waiting(entries') # {} => timer' # NoTimer
  BY <1>0, <1>2, <1>3, QueueSets DEF TypeOK, Paced
<1>5. TypeOK' BY <1>0, <1>2, <1>4 DEF TypeOK
<1>6. Working' /\ Emptied' /\ DrainedIsQuiet' /\ Paced'
  BY <1>0, <1>4 DEF Working, Emptied, DrainedIsQuiet, Paced
<1>7. Armed' BY <1>0, <1>4 DEF Armed, Idle
<1>8. DueByTakeover'
  <2> SUFFICES ASSUME NEW c \in Waiting(entries'), until[entries'[c].version] > 0
               PROVE  /\ entries'[c].due <= Most(until[entries'[c].version], StepGap)
                      /\ ~ObserveBeforeTakeover =>
                           entries'[c].due = until[entries'[c].version]
    BY <1>0 DEF DueByTakeover
  <2>1. c \in Checkouts /\ entries'[c] # NoEntry /\ entries'[c].version \notin Malformed
    BY DEF Waiting
  <2>2. CASE entries'[c] = entries[c]
    <3>1. c \in Waiting(entries) BY <2>2 DEF Waiting
    <3> QED BY <2>2, <3>1 DEF DueByTakeover
  <2>3. ASSUME NEW version \in Versions, entries'[c] = NewEntry(version)
        PROVE  /\ entries'[c].due <= Most(until[entries'[c].version], StepGap)
               /\ ~ObserveBeforeTakeover => entries'[c].due = until[entries'[c].version]
    <3>1. entries'[c].version = version BY <2>3, NewEntryIsOne
    <3>2. until[version] \in Nat BY DEF TypeOK
    <3>3. entries'[c].due = IF ObserveBeforeTakeover THEN 0 ELSE until[version]
      BY <2>1, <2>3, <3>1, NewEntryIsOne
    <3> QED BY <3>1, <3>2, <3>3, DelayAssumption DEF Most
  <2> QED BY <1>1, <2>1, <2>2, <2>3
<1>9. StartedLate'
  <2>1. \A c \in Checkouts : entries'[c] # NoEntry /\ entries'[c].held =>
          entries[c] # NoEntry /\ entries'[c] = entries[c]
    BY <1>1, NewEntryIsOne
  <2> QED BY <1>0, <2>1 DEF StartedLate
<1>10. Asked'
  <2>1. \A c \in Checkouts : entries'[c] # NoEntry /\ entries'[c].held =>
          entries[c] # NoEntry /\ entries'[c] = entries[c]
    BY <1>1, NewEntryIsOne
  <2> QED BY <1>0, <2>1 DEF Asked, TypeOK, Job
<1> QED BY <1>5, <1>6, <1>7, <1>8, <1>9, <1>10

LEMMA SetActiveInv == ASSUME Inv, SetActive PROVE Inv'
<1> USE DEF Inv
<1>0. /\ stop = "no" /\ active' = ~active /\ running' = Moved
      /\ Queue(entries, active' /\ currentWork = "none", gap)
      /\ UNCHANGED <<stop, entries, currentWork, gap, until>>
  BY DEF SetActive
<1>1. (active' /\ currentWork = "none") \in BOOLEAN OBVIOUS
<1>2. /\ timer' \in Nat \cup {NoTimer} /\ (timer' # NoTimer => timer' >= gap)
      /\ (active' /\ currentWork = "none") /\ Waiting(entries) # {} => timer' # NoTimer
  BY <1>0, <1>1, QueueSets DEF TypeOK, Paced
<1>3. /\ running' \subseteq Job /\ (\A work \in running' : work.moved)
      /\ (\A i, j \in running' : i = j) /\ (running' # {} <=> running # {})
  BY <1>0, MovedWork
<1>4. TypeOK' BY <1>0, <1>2, <1>3 DEF TypeOK
<1>5. Waiting(entries)' = Waiting(entries) BY <1>0 DEF Waiting
<1>6. Working' BY <1>0, <1>3 DEF Working
<1> QED BY <1>0, <1>2, <1>3, <1>4, <1>5, <1>6 DEF Emptied, DrainedIsQuiet, Paced, Armed,
           Idle, DueByTakeover, StartedLate, Asked

LEMMA StopInv == ASSUME Inv, StopAndDrain PROVE Inv'
<1> USE DEF Inv
<1>0. /\ stop = "no" /\ stop' = "draining" /\ timer' = NoTimer
      /\ entries' = [c \in Checkouts |-> NoEntry] /\ running' = Moved
      /\ UNCHANGED <<active, currentWork, gap, until>>
  BY DEF StopAndDrain
<1>1. /\ running' \subseteq Job /\ (\A work \in running' : work.moved)
      /\ (\A i, j \in running' : i = j) /\ (running' # {} <=> running # {})
  BY <1>0, MovedWork
<1>2. TypeOK' BY <1>0, <1>1 DEF TypeOK
<1>3. Waiting(entries') = {} BY <1>0, NothingWaits
<1>4. Working' BY <1>0, <1>1 DEF Working
<1> QED BY <1>0, <1>1, <1>2, <1>3, <1>4 DEF Emptied, DrainedIsQuiet, Paced, Armed,
           Idle, DueByTakeover, StartedLate, Asked

LEMMA DrainedInv == ASSUME Inv, Drained PROVE Inv'
<1> USE DEF Inv
<1>0. /\ stop = "draining" /\ currentWork # "running" /\ stop' = "drained"
      /\ UNCHANGED <<active, entries, running, currentWork, timer, gap, until>>
  BY DEF Drained
<1>1. TypeOK' BY <1>0 DEF TypeOK
<1>2. Waiting(entries)' = Waiting(entries) BY <1>0 DEF Waiting
<1>3. Working' /\ DrainedIsQuiet' BY <1>0 DEF Working, DrainedIsQuiet
<1> QED BY <1>0, <1>1, <1>2, <1>3 DEF Emptied, Paced, Armed,
           Idle, DueByTakeover, StartedLate, Asked

LEMMA RestartInv == ASSUME Inv, Restart PROVE Inv'
<1> USE DEF Inv
<1>0. /\ stop = "drained" /\ stop' = "no" /\ active' \in BOOLEAN
      /\ currentWork' = "none" /\ gap' = 0 /\ UNCHANGED <<entries, running, timer, until>>
  BY DEF Restart
<1>1. running = {} BY <1>0 DEF DrainedIsQuiet
<1>2. TypeOK' BY <1>0 DEF TypeOK
<1>3. Waiting(entries') = {} BY <1>0, NothingWaits DEF Emptied
<1>4. Paced' BY <1>0, DelayAssumption DEF Paced, TypeOK
<1>5. Working' BY <1>0, <1>1 DEF Working
<1> QED BY <1>0, <1>1, <1>2, <1>3, <1>4, <1>5 DEF Emptied, DrainedIsQuiet, Armed,
           DueByTakeover, StartedLate, Asked

LEMMA TickInv == ASSUME Inv, Tick PROVE Inv'
<1> USE DEF Inv
<1>0. /\ timer' = IF timer = NoTimer THEN NoTimer ELSE Most(0, timer - 1)
      /\ gap' = Most(0, gap - 1)
      /\ until' = [v \in Versions |-> Most(0, until[v] - 1)]
      /\ UNCHANGED <<active, stop, running, currentWork>>
  BY DEF Tick
<1>1. ASSUME NEW c \in Checkouts
      PROVE  \/ entries[c] = NoEntry /\ entries'[c] = NoEntry
             \/ /\ entries[c] \in Entry /\ entries'[c] \in Entry
                /\ entries[c] # NoEntry /\ entries'[c] # NoEntry
                /\ entries'[c].version = entries[c].version
                /\ entries'[c].status = entries[c].status
                /\ entries'[c].held = entries[c].held
                /\ entries'[c].due = Most(Floor(c), entries[c].due - 1)
  <2>1. CASE entries[c] = NoEntry
    BY <2>1 DEF Tick
  <2>2. CASE entries[c] # NoEntry
    <3> DEFINE due == Most(Floor(c), entries[c].due - 1)
    <3>1. entries[c] \in Entry BY <2>2 DEF TypeOK
    <3>2. due \in Int BY <3>1, FloorBelow, EntryChanges DEF Most
    <3>3. entries'[c] = [entries[c] EXCEPT !.due = due] BY <2>2 DEF Tick
    <3> HIDE DEF due
    <3>4. /\ entries'[c] \in Entry /\ entries'[c].due = due
          /\ entries'[c].version = entries[c].version
          /\ entries'[c].status = entries[c].status /\ entries'[c].held = entries[c].held
      BY <3>1, <3>2, <3>3 DEF Entry
    <3>5. entries'[c] # NoEntry BY <3>4, EntryIsOne
    <3> QED BY <2>2, <3>1, <3>4, <3>5 DEF due
  <2> QED BY <2>1, <2>2
<1>2. entries' \in [Checkouts -> Entry \cup {NoEntry}]
  <2>1. entries' = [c \in Checkouts |-> entries'[c]] BY DEF Tick
  <2> QED BY <1>1, <2>1
<1>3. timer' \in Nat \cup {NoTimer} /\ gap' \in Nat /\ (timer' = NoTimer <=> timer = NoTimer)
  BY <1>0 DEF TypeOK, Most, NoTimer
<1>4. \A v \in Versions :
        /\ until[v] \in Nat /\ until'[v] \in Nat /\ until'[v] = Most(0, until[v] - 1)
        /\ until[v] = 0 => until'[v] = 0
        /\ until'[v] > 0 => until'[v] = until[v] - 1
  BY <1>0 DEF TypeOK, Most
<1>5. TypeOK'
  <2>1. until' \in [Versions -> Nat] BY <1>0, <1>4
  <2> QED BY <1>0, <1>2, <1>3, <2>1 DEF TypeOK
<1>6. Working' /\ Emptied' /\ DrainedIsQuiet' BY <1>0, <1>1 DEF Working, Emptied, DrainedIsQuiet
<1>7. Paced' BY <1>0, DelayAssumption DEF Paced, TypeOK, Most, NoTimer
<1>8. Waiting(entries') = Waiting(entries) BY <1>1 DEF Waiting
<1>9. Armed' BY <1>0, <1>3, <1>8 DEF Armed, Idle
<1>10. DueByTakeover'
  <2> SUFFICES ASSUME NEW c \in Waiting(entries'), until'[entries'[c].version] > 0
               PROVE  /\ entries'[c].due <= Most(until'[entries'[c].version], StepGap)
                      /\ ~ObserveBeforeTakeover =>
                           entries'[c].due = until'[entries'[c].version]
    BY DEF DueByTakeover
  <2> DEFINE v == entries[c].version
  <2>1. c \in Waiting(entries) /\ c \in Checkouts /\ entries[c] # NoEntry
    BY <1>8 DEF Waiting
  <2>2. /\ entries[c] \in Entry /\ entries'[c].version = v /\ v \in Versions
        /\ entries[c].due \in Int
        /\ entries'[c].due = Most(Floor(c), entries[c].due - 1)
    BY <1>1, <2>1, EntryChanges
  <2>3. until'[v] = until[v] - 1 /\ until[v] > 0 /\ until[v] \in Nat
    BY <1>4, <2>2
  <2>4. /\ entries[c].due <= Most(until[v], StepGap)
        /\ ~ObserveBeforeTakeover => entries[c].due = until[v]
    BY <2>1, <2>3 DEF DueByTakeover
  <2>5. Floor(c) \in Int /\ Floor(c) <= 0 BY <2>1, FloorBelow
  <2> HIDE DEF v
  <2> QED BY <2>2, <2>3, <2>4, <2>5, DelayAssumption DEF Most
<1>11. StartedLate'
  <2> SUFFICES ASSUME ~ObserveBeforeTakeover, NEW c \in Checkouts, entries'[c] # NoEntry,
                      entries'[c].held
               PROVE  until'[entries'[c].version] = 0
    BY DEF StartedLate
  <2>1. entries[c] \in Entry /\ entries[c] # NoEntry /\ entries[c].held
          /\ entries'[c].version = entries[c].version
    BY <1>1
  <2>2. until[entries[c].version] = 0 BY <2>1 DEF StartedLate
  <2> QED BY <1>4, <2>1, <2>2, EntryChanges
<1>12. Asked' BY <1>0, <1>1 DEF Asked, TypeOK, Job
<1> QED BY <1>5, <1>6, <1>7, <1>9, <1>10, <1>11, <1>12

LEMMA NextInv == ASSUME Inv, [Next]_vars PROVE Inv'
<1>1. CASE UNCHANGED vars
  <2>1. Waiting(entries)' = Waiting(entries) BY <1>1 DEF vars, Waiting
  <2> QED BY <1>1, <2>1 DEF vars, Inv, TypeOK, Working, Emptied, DrainedIsQuiet, Paced,
             Armed, Idle, DueByTakeover, StartedLate, Asked
<1>2. CASE Next
  BY <1>2, FireInv, SettleInv, FinallyInv, ReplaceInv, SetActiveInv, StopInv, DrainedInv,
     RestartInv, TickInv DEF Next
<1> QED BY <1>1, <1>2

LEMMA Invariance == Spec => []Inv
BY InitInv, NextInv, PTL DEF Spec

-----------------------------------------------------------------------------
(* The theorems.                                                           *)

\* At most one reconciliation, and so one payout of this page, is in flight, over
\* every pause, listing, late answer and restart of the worker; after
\* stopAndDrain there is none (run, stopAndDrain).
THEOREM OneReconciliation == Spec => []OneCheck
<1>1. ASSUME Inv PROVE OneCheck
  <2>1. Cardinality(running) <= 1
    <3>1. CASE running = {} BY <3>1, FS_EmptySet
    <3>2. ASSUME NEW work \in running PROVE Cardinality(running) <= 1
      <4>1. running = {work} BY <1>1 DEF Inv, Working
      <4> QED BY <4>1, CountOne
    <3> QED BY <3>1, <3>2
  <2> QED BY <1>1, <2>1 DEF Inv, OneCheck, OneAtATime
<1> QED BY <1>1, Invariance, PTL

\* A visible, idle worker with something to check has a timer, and what waits for
\* its takeover is due by then (queue, chooseNext and the rescheduling of run).
THEOREM NoWakeUpLost == Spec => []WakesInTime
<1>1. ASSUME Inv PROVE WakesInTime BY <1>1 DEF Inv, WakesInTime
<1> QED BY <1>1, Invariance, PTL

\* A step records an answer only for the candidate that was asked about and has
\* not moved since, and starts nothing before the step gap is over
\* (assertCurrent, lastStartedAt).
THEOREM AnswersAreRight == Spec => RightAnswers
<1> DEFINE Own ==
      \A c \in Checkouts :
        (/\ entries[c] # NoEntry /\ entries'[c] # NoEntry
         /\ entries[c].version = entries'[c].version
         /\ entries[c].status # entries'[c].status)
        => \E work \in running \ running' :
             work.checkout = c /\ work.version = entries[c].version /\ ~work.moved
    Spaced == Cardinality(running') > Cardinality(running) => gap = 0
<1>1. ASSUME Inv, Inv', [Next]_vars PROVE Own
  <2> SUFFICES ASSUME NEW c \in Checkouts, entries[c] # NoEntry, entries'[c] # NoEntry,
                      entries[c].version = entries'[c].version,
                      entries[c].status # entries'[c].status
               PROVE  \E work \in running \ running' :
                        work.checkout = c /\ work.version = entries[c].version /\ ~work.moved
    OBVIOUS
  <2>1. CASE Fire
    <3>1. ~UNCHANGED entries OBVIOUS
    <3>2. PICK d \in Soonest(entries) : entries' = [entries EXCEPT ![d].held = TRUE]
      BY <2>1, <3>1 DEF Fire
    <3>3. entries[c] \in Entry BY <1>1 DEF Inv, TypeOK
    <3>4. entries'[c].status = entries[c].status BY <1>1, <3>2, <3>3 DEF Inv, TypeOK, Entry
    <3> QED BY <3>4
  <2>2. ASSUME NEW work \in running, Settle(work)
        PROVE  work \in running \ running' /\ work.checkout = c
                 /\ work.version = entries[c].version /\ ~work.moved
    <3>1. work \notin running' /\ ~UNCHANGED entries BY <2>2 DEF Settle
    <3>2. IsCurrent(work) /\ \E answer, progress :
            entries' = [entries EXCEPT ![work.checkout] = Rescheduled(@, answer, progress)]
      BY <2>2, <3>1 DEF Settle
    <3>3. work.checkout = c BY <1>1, <3>2 DEF Inv, TypeOK
    <3> QED BY <1>1, <3>1, <3>2, <3>3 DEF Inv, Asked, IsCurrent
  <2>3. ASSUME NEW list \in Listings, ReplaceCandidates(list) PROVE FALSE
    <3>1. entries' = Replaced(list) BY <2>3 DEF ReplaceCandidates
    <3> QED BY <1>1, <3>1, ReplacedEntry, NewEntryIsOne DEF Inv
  <2>4. CASE StopAndDrain BY <2>4 DEF StopAndDrain
  <2>5. CASE Tick
    <3>1. entries[c] \in Entry BY <1>1 DEF Inv, TypeOK
    <3>2. entries'[c] = [entries[c] EXCEPT !.due = Most(Floor(c), @ - 1)] BY <2>5 DEF Tick
    <3> QED BY <3>1, <3>2 DEF Entry
  <2>6. CASE UNCHANGED entries BY <2>6
  <2> QED BY <1>1, <2>1, <2>2, <2>3, <2>4, <2>5, <2>6
          DEF Next, vars, Finally, SetActive, Drained, Restart
<1>2. ASSUME Inv, Inv', [Next]_vars PROVE Spaced
  <2> SUFFICES ASSUME Cardinality(running') > Cardinality(running) PROVE gap = 0
    OBVIOUS
  <2>1. running = {} /\ running' # {}
    <3>1. running' # {}
      <4>1. CASE running = {} BY <4>1, FS_EmptySet
      <4>2. ASSUME NEW work \in running, running' = {} PROVE FALSE
        <5>1. running = {work} BY <1>2 DEF Inv, Working
        <5>2. Cardinality(running) = 1 BY <5>1, CountOne
        <5>3. Cardinality(running') = 0 BY <4>2, FS_EmptySet
        <5> QED BY <5>2, <5>3
      <4> QED BY <4>1, <4>2
    <3>2. ASSUME NEW work \in running PROVE FALSE
      <4>1. PICK other \in running' : TRUE BY <3>1
      <4>2. running = {work} BY <1>2 DEF Inv, Working
      <4>3. running' = {other} BY <1>2, <4>1 DEF Inv, Working
      <4>4. Cardinality(running) = 1 BY <4>2, CountOne
      <4>5. Cardinality(running') = 1 BY <4>3, CountOne
      <4> QED BY <4>4, <4>5
    <3> QED BY <3>1, <3>2
  <2>2. Fire /\ ~UNCHANGED running
    BY <1>2, <2>1 DEF Next, vars, Settle, Finally, ReplaceCandidates, SetActive,
       StopAndDrain, Drained, Restart, Tick, Moved
  <2>3. timer = 0 BY <2>2 DEF Fire
  <2> QED BY <1>2, <2>3 DEF Inv, Paced, NoTimer, TypeOK
<1>3. Spec => [][Own]_vars /\ [][Spaced]_vars
  BY <1>1, <1>2, NextInv, Invariance, PTL DEF Spec
<1> QED BY <1>3 DEF RightAnswers, AnswersItsOwn, StartsSpaced

-----------------------------------------------------------------------------
(* The outbox of the progress: its inductive invariant.                    *)

\* What is acknowledged was signed; a row of the older version has the merchant's
\* copy only, and only an event's rows have more.
Versioned(row) ==
  /\ \A r \in row.acked : row.bytes[r] # 0
  /\ row.schema # 2 => row.bytes["organizer"] = 0 /\ row.acked \subseteq {"merchant"}
  /\ row.schema = 2 => EventPlan

\* Stored bytes are the bytes of every copy that was sent.
SentAreStored ==
  \A wrap \in sent : /\ wrap.bytes # 0
                     /\ wrap.bytes = outbox[wrap.snapshot].bytes[wrap.role]

\* An acknowledgement is of the bytes beside it.
Acknowledged(s, row) ==
  \A r \in row.acked : [snapshot |-> s, role |-> r, bytes |-> row.bytes[r]] \in relays

\* What an invocation means to store completes the row and changes nothing of it.
Completes(old, row) ==
  /\ row \in Outbox!Row
  /\ Versioned(row)
  /\ Outbox!Unsigned(row) = {}
  /\ row.acked = old.acked
  /\ \A r \in Outbox!Roles : old.bytes[r] # 0 => row.bytes[r] = old.bytes[r]

\* What an invocation knows at each step: before it has signed and after it has
\* stored, it holds the row of the outbox.
InvocationOK ==
  /\ job.step = "sign" => job.row = outbox[job.at]
  /\ job.step = "stage" => Completes(outbox[job.at], job.row)
  /\ job.step \in {"send", "wait", "mark", "answer"} =>
       /\ job.row = outbox[job.at]
       /\ Outbox!Unsigned(job.row) = {}
  /\ job.due \subseteq Outbox!Recipients
  /\ job.role \in Outbox!Recipients
  /\ job.step = "mark" => Outbox!Awaited \in relays

RowsOK ==
  \A s \in Outbox!Snapshots : Versioned(outbox[s]) /\ Acknowledged(s, outbox[s])

OutboxInv ==
  /\ Outbox!TypeOK
  /\ RowsOK
  /\ SentAreStored
  /\ InvocationOK
  /\ Outbox!ProceedsDelivered

-----------------------------------------------------------------------------
(* Rows.                                                                   *)

\* Every plan's snapshots must reach the merchant.
LEMMA RecipientFacts ==
  /\ "merchant" \in Outbox!Recipients /\ Outbox!Recipients \subseteq Outbox!Roles
  /\ EventPlan => Outbox!Recipients = Outbox!Roles
  /\ ~EventPlan => Outbox!Recipients = {"merchant"}
  BY DEF Outbox!Recipients, Outbox!Roles

\* The parts of a row have their types.
LEMMA RowTypes ==
  ASSUME NEW row \in Outbox!Row \cup {Outbox!NoRow}
  PROVE  /\ row.schema \in {0, 1, 2}
         /\ row.bytes \in [Outbox!Roles -> Nat]
         /\ row.acked \in SUBSET Outbox!Roles
         /\ row = [schema |-> row.schema, bytes |-> row.bytes, acked |-> row.acked]
         /\ row \in Outbox!Row <=> row.schema # 0
  BY DEF Outbox!Row, Outbox!NoRow

\* The parts of the invocation have their types.
LEMMA InvocationTypes ==
  ASSUME Outbox!TypeOK
  PROVE  /\ job.at \in Outbox!Snapshots /\ job.step \in Outbox!Steps
         /\ job.role \in Outbox!Roles
         /\ job.row \in Outbox!Row \cup {Outbox!NoRow} /\ job.due \in SUBSET Outbox!Roles
         /\ job.todo \in SUBSET Outbox!Snapshots /\ job.retry \in BOOLEAN
         /\ outbox[job.at] \in Outbox!Row \cup {Outbox!NoRow}
  <1>1. job \in Outbox!Job
    BY DEF Outbox!TypeOK
  <1>2. /\ job.at \in Outbox!Snapshots /\ job.step \in Outbox!Steps
        /\ job.role \in Outbox!Roles
        /\ job.row \in Outbox!Row \cup {Outbox!NoRow} /\ job.due \in SUBSET Outbox!Roles
        /\ job.todo \in SUBSET Outbox!Snapshots /\ job.retry \in BOOLEAN
    BY <1>1 DEF Outbox!Job
  <1> QED BY <1>2 DEF Outbox!TypeOK

\* The instance counts as its module does.
LEMMA SameCardinality ==
  ASSUME NEW S
  PROVE  Outbox!Cardinality(S) = Cardinality(S)
  BY DEF Outbox!Cardinality, Cardinality

\* The bytes of a new encryption are neither absent nor the stored ones: every
\* ciphertext that was sent is the stored one, so that there is one to avoid.
LEMMA FreshBytes ==
  ASSUME Outbox!TypeOK, SentAreStored, NEW r \in Outbox!Roles
  PROVE  Outbox!Fresh(r) \in Nat /\ Outbox!Fresh(r) # 0
  <1> DEFINE stored == outbox[job.at].bytes[r]
  <1>1. stored \in Nat
    BY InvocationTypes, RowTypes
  <1>2. Outbox!Used(r) = {stored}
    BY DEF Outbox!Used, SentAreStored
  <1>3. Outbox!Cardinality(Outbox!Used(r)) = 1
    BY <1>2, SameCardinality, FS_Singleton
  <1>4. \E n \in 1 .. 2 : n \notin Outbox!Used(r)
    BY <1>1, <1>2
  <1>5. Outbox!Fresh(r) \in 1 .. 2
    BY <1>3, <1>4 DEF Outbox!Fresh
  <1> QED BY <1>5

\* The signer completes the row.
LEMMA SignedCompletes ==
  ASSUME Outbox!TypeOK, SentAreStored, NEW row \in Outbox!Row \cup {Outbox!NoRow},
         Versioned(row)
  PROVE  Completes(row, Outbox!Signed(row))
  <1> DEFINE new == Outbox!Signed(row)
  <1>1. \A r \in Outbox!Roles : Outbox!Fresh(r) \in Nat /\ Outbox!Fresh(r) # 0
    BY FreshBytes
  <1>2. /\ new.schema = IF EventPlan THEN 2 ELSE 1
        /\ new.acked = row.acked
        /\ new.bytes = [r \in Outbox!Roles |->
                          IF r \notin Outbox!Unsigned(row) THEN row.bytes[r]
                          ELSE Outbox!Fresh(r)]
    BY RowTypes DEF Outbox!Signed
  <1>3. new.bytes \in [Outbox!Roles -> Nat]
    BY <1>1, <1>2, RowTypes
  <1>4. new \in Outbox!Row
    <2> DEFINE first == [row EXCEPT !.schema = new.schema]
    <2>0. new.schema \in {1, 2}
      BY <1>2
    <2>1. first \in Outbox!Row
      <3>1. CASE row \in Outbox!Row
        BY <2>0, <3>1 DEF Outbox!Row
      <3>2. CASE row = Outbox!NoRow
        <4>1. first = [Outbox!NoRow EXCEPT !.schema = new.schema]
          BY <3>2
        <4>2. \A n \in {1, 2} : [Outbox!NoRow EXCEPT !.schema = n] \in Outbox!Row
          BY DEF Outbox!NoRow, Outbox!Row, Outbox!Roles
        <4> QED BY <2>0, <4>1, <4>2
      <3> QED BY <3>1, <3>2
    <2>3. \A old \in Outbox!Row, b \in [Outbox!Roles -> Nat] :
            [old EXCEPT !.bytes = b] \in Outbox!Row
      BY DEF Outbox!Row
    <2>2. new = [first EXCEPT !.bytes = new.bytes]
      BY <1>2 DEF Outbox!Signed
    <2> QED BY <1>3, <2>1, <2>2, <2>3
  <1>5. \A r \in Outbox!Roles : row.bytes[r] # 0 => new.bytes[r] = row.bytes[r]
    BY <1>2 DEF Outbox!Unsigned
  <1>6. Outbox!Unsigned(new) = {}
    <2>1. \A r \in Outbox!Recipients : new.bytes[r] # 0
      BY <1>1, <1>2, RecipientFacts DEF Outbox!Unsigned
    <2> QED BY <2>1 DEF Outbox!Unsigned
  <1>7. Versioned(new)
    <2>0. \A r \in new.acked : new.bytes[r] # 0
      BY <1>2, <1>5, RowTypes DEF Versioned
    <2>1. CASE EventPlan
      BY <2>0, <2>1, <1>2 DEF Versioned
    <2>2. CASE ~EventPlan
      <3>1. row.schema # 2 /\ row.bytes["organizer"] = 0 /\ row.acked \subseteq {"merchant"}
        BY <2>2 DEF Versioned
      <3>2. "organizer" \notin Outbox!Unsigned(row)
        BY <2>2, RecipientFacts DEF Outbox!Unsigned
      <3>3. new.bytes["organizer"] = 0
        BY <3>1, <3>2, <1>2 DEF Outbox!Roles
      <3> QED BY <2>0, <2>2, <3>1, <3>3, <1>2 DEF Versioned
    <2> QED BY <2>1, <2>2
  <1> QED BY <1>2, <1>4, <1>5, <1>6, <1>7 DEF Completes

\* Whatever the transaction finds, the stored row completes the one before.
LEMMA StagedCompletes ==
  ASSUME Outbox!TypeOK, Completes(outbox[job.at], job.row), Outbox!CanStage(job.row),
         Versioned(outbox[job.at])
  PROVE  Completes(outbox[job.at], Outbox!StagedRow(job.row))
  <1> DEFINE old == outbox[job.at]
             new == Outbox!StagedRow(job.row)
  <1>1. old \in Outbox!Row \cup {Outbox!NoRow} /\ job.row \in Outbox!Row
    BY InvocationTypes DEF Completes
  <1>2. CASE old = Outbox!NoRow
    BY <1>2 DEF Outbox!StagedRow
  <1>3. CASE old # Outbox!NoRow /\ old.schema = job.row.schema
    <2>1. new = old
      BY <1>3 DEF Outbox!StagedRow
    <2>2. old.bytes = job.row.bytes
      <3>1. CASE old.schema = 1 /\ job.row.schema = 2
        BY <3>1, <1>3
      <3>2. CASE ~(old.schema = 1 /\ job.row.schema = 2)
        BY <3>2, <1>3 DEF Outbox!CanStage
      <3> QED BY <3>1, <3>2
    <2>3. old \in Outbox!Row
      BY <1>1, <1>3
    <2>4. Outbox!Unsigned(old) = {}
      BY <2>2 DEF Completes, Outbox!Unsigned
    <2> QED BY <2>1, <2>3, <2>4 DEF Completes
  <1>4. CASE old # Outbox!NoRow /\ old.schema # job.row.schema
    <2>1. new = Outbox!Upgraded(old, job.row)
      BY <1>4 DEF Outbox!StagedRow
    <2>2. new = job.row
      BY <2>1, <1>1, RowTypes DEF Outbox!Upgraded, Completes
    <2> QED BY <2>2
  <1> QED BY <1>2, <1>3, <1>4

-----------------------------------------------------------------------------
(* Initially.                                                              *)

LEMMA OutboxInit ==
  ASSUME Outbox!PlanAssumption
  PROVE  Outbox!Init => OutboxInv
  <1> SUFFICES ASSUME Outbox!Init PROVE OutboxInv
    OBVIOUS
  <1> USE DEF Outbox!Init
  <1>1. 1 \in Outbox!Snapshots
    BY DEF Outbox!PlanAssumption, Outbox!Snapshots
  <1>2. Outbox!Idle \in Outbox!Job
    BY <1>1 DEF Outbox!Idle, Outbox!Job, Outbox!Steps, Outbox!Roles
  <1>3. /\ Outbox!OldWrap \in Outbox!Wrap
        /\ \A acked \in SUBSET {"merchant"} : Outbox!OldRow(acked) \in Outbox!Row
    BY <1>1 DEF Outbox!OldWrap, Outbox!Wrap, Outbox!OldRow, Outbox!Row, Outbox!Roles
  <1>4. \A s \in Outbox!Snapshots : outbox[s] \in Outbox!Row \cup {Outbox!NoRow}
    BY <1>3
  <1>5. outbox \in [Outbox!Snapshots -> Outbox!Row \cup {Outbox!NoRow}]
    BY <1>4
  <1>6. Outbox!TypeOK
    <2>1. relays \subseteq Outbox!Wrap /\ sent \subseteq Outbox!Wrap
      BY <1>3
    <2>2. interrupts \in 0 .. MaxInterrupts
      BY DEF Outbox!PlanAssumption
    <2> QED BY <1>1, <1>2, <1>5, <2>1, <2>2 DEF Outbox!TypeOK
  <1>7. RowsOK
    <2> SUFFICES ASSUME NEW s \in Outbox!Snapshots
                 PROVE  Versioned(outbox[s]) /\ Acknowledged(s, outbox[s])
      BY DEF RowsOK
    <2>1. CASE outbox[s] = Outbox!NoRow
      BY <2>1 DEF Outbox!NoRow, Versioned, Acknowledged, Outbox!Roles
    <2>2. CASE outbox[s] # Outbox!NoRow
      <3>1. /\ s = 1 /\ relays = {Outbox!OldWrap}
            /\ \E acked \in SUBSET {"merchant"} : outbox[s] = Outbox!OldRow(acked)
        BY <2>2
      <3> PICK acked \in SUBSET {"merchant"} : outbox[s] = Outbox!OldRow(acked)
        BY <3>1
      <3>2. /\ outbox[s].schema = 1 /\ outbox[s].acked = acked
            /\ outbox[s].bytes["merchant"] = 1 /\ outbox[s].bytes["organizer"] = 0
        BY DEF Outbox!OldRow, Outbox!Roles
      <3>3. Acknowledged(s, outbox[s])
        BY <3>1, <3>2 DEF Acknowledged, Outbox!OldWrap
      <3>4. \A r \in outbox[s].acked : r = "merchant"
        BY <3>2
      <3>5. \A r \in outbox[s].acked : outbox[s].bytes[r] # 0
        <4> HIDE DEF Outbox!Init
        <4> QED BY <3>2, <3>4
      <3> QED BY <3>2, <3>3, <3>4, <3>5 DEF Versioned
    <2> QED BY <2>1, <2>2
  <1>8. SentAreStored
    <2>1. CASE sent = {}
      BY <2>1 DEF SentAreStored
    <2>2. CASE sent # {}
      <3>1. /\ sent = {Outbox!OldWrap}
            /\ \E acked \in SUBSET {"merchant"} : outbox[1] = Outbox!OldRow(acked)
        BY <2>2, <1>1
      <3>2. outbox[1].bytes["merchant"] = 1
        BY <3>1 DEF Outbox!OldRow, Outbox!Roles
      <3> QED BY <3>1, <3>2 DEF SentAreStored, Outbox!OldWrap
    <2> QED BY <2>1, <2>2
  <1>9. InvocationOK
    BY RecipientFacts DEF InvocationOK, Outbox!Idle
  <1>10. Outbox!ProceedsDelivered
    BY DEF Outbox!ProceedsDelivered
  <1> QED BY <1>6, <1>7, <1>8, <1>9, <1>10 DEF OutboxInv

-----------------------------------------------------------------------------
(* Every step keeps the invariant.                                         *)

\* A step that leaves the outbox alone, and sends and forgets nothing, keeps what is
\* said of rows, of what was sent and of what was gone on with.
LEMMA OutboxUntouched ==
  ASSUME OutboxInv, outbox' = outbox, sent' = sent, relays \subseteq relays'
  PROVE  /\ RowsOK'
         /\ SentAreStored'
         /\ proceeded' = proceeded => Outbox!ProceedsDelivered'
  <1>1. RowsOK'
    BY DEF OutboxInv, RowsOK, Acknowledged, Versioned
  <1>2. SentAreStored'
    BY DEF OutboxInv, SentAreStored
  <1>3. proceeded' = proceeded => Outbox!ProceedsDelivered'
    BY DEF OutboxInv, Outbox!ProceedsDelivered
  <1> QED BY <1>1, <1>2, <1>3

\* An invocation that is at rest, or about to read, knows nothing.
LEMMA NothingHeld ==
  ASSUME job'.step \in {"idle", "next", "load"},
         job'.due \subseteq Outbox!Recipients, job'.role \in Outbox!Recipients
  PROVE  InvocationOK'
  BY DEF InvocationOK

\* The end of an invocation.
LEMMA Ending ==
  ASSUME Outbox!PlanAssumption, OutboxInv, job' = Outbox!Idle
  PROVE  job' \in Outbox!Job /\ InvocationOK'
  <1>1. 1 \in Outbox!Snapshots
    BY DEF Outbox!PlanAssumption, Outbox!Snapshots
  <1>2. job' \in Outbox!Job
    BY <1>1 DEF Outbox!Idle, Outbox!Job, Outbox!Steps, Outbox!Roles
  <1>3. InvocationOK'
    BY NothingHeld, RecipientFacts DEF Outbox!Idle
  <1> QED BY <1>2, <1>3

\* Steps that change the invocation only.
LEMMA Readings ==
  ASSUME Outbox!PlanAssumption, OutboxInv,
         Outbox!Start \/ Outbox!NextRow \/ Outbox!Load \/ Outbox!Sign
  PROVE  OutboxInv'
  <1>1. /\ UNCHANGED <<current, witnessed, outbox, wire, relays, sent, proceeded>>
        /\ interrupts' = interrupts
    BY DEF Outbox!Start, Outbox!NextRow, Outbox!Load, Outbox!Sign
  <1>2. RowsOK' /\ SentAreStored' /\ Outbox!ProceedsDelivered'
    BY <1>1, OutboxUntouched
  <1>3. job \in Outbox!Job /\ InvocationOK /\ Outbox!TypeOK
    BY DEF OutboxInv, Outbox!TypeOK
  <1>4. job' \in Outbox!Job /\ InvocationOK'
    <2>1. CASE Outbox!Start
      <3>1. job' \in Outbox!Job
        <4>1. 1 \in Outbox!Snapshots
          BY DEF Outbox!PlanAssumption, Outbox!Snapshots
        <4>2. Outbox!Unaccepted \in SUBSET Outbox!Snapshots
          BY DEF Outbox!Unaccepted, Outbox!Stored
        <4>3. \A todo \in SUBSET Outbox!Snapshots :
                [Outbox!Idle EXCEPT !.step = "next", !.todo = todo] \in Outbox!Job
          BY <4>1 DEF Outbox!Idle, Outbox!Job, Outbox!Steps, Outbox!Roles
        <4> QED BY <2>1, <4>2, <4>3 DEF Outbox!Start
      <3>2. job'.step = "next" /\ job'.due = {} /\ job'.role = "merchant"
        BY <2>1 DEF Outbox!Idle, Outbox!Start
      <3> QED BY <3>1, <3>2, NothingHeld, RecipientFacts
    <2>2. CASE Outbox!NextRow
      <3>1. CASE \E s \in job.todo :
                   job' = [job EXCEPT !.step = "load", !.at = s, !.todo = @ \ {s},
                                      !.retry = TRUE]
        <4> PICK s \in job.todo :
                   job' = [job EXCEPT !.step = "load", !.at = s, !.todo = @ \ {s},
                                      !.retry = TRUE]
          BY <3>1
        <4>1. job' \in Outbox!Job
          BY <1>3 DEF Outbox!Job, Outbox!Steps
        <4>2. job'.step = "load" /\ job'.due = job.due /\ job'.role = job.role
          BY <1>3 DEF Outbox!Job
        <4> QED BY <4>1, <4>2, <1>3, NothingHeld DEF InvocationOK
      <3>2. CASE job' = [job EXCEPT !.step = "load", !.at = current, !.retry = FALSE]
        <4>1. job' \in Outbox!Job
          BY <3>2, <1>3 DEF Outbox!Job, Outbox!Steps, Outbox!TypeOK
        <4>2. job'.step = "load" /\ job'.due = job.due /\ job'.role = job.role
          BY <3>2, <1>3 DEF Outbox!Job
        <4> QED BY <4>1, <4>2, <1>3, NothingHeld DEF InvocationOK
      <3> QED BY <2>2, <3>1, <3>2 DEF Outbox!NextRow
    <2>3. CASE Outbox!Load
      <3> DEFINE row == outbox[job.at]
      <3>1. /\ row \in Outbox!Row \cup {Outbox!NoRow}
            /\ Outbox!Recipients \ row.acked \in SUBSET Outbox!Roles
        BY <1>3, InvocationTypes, RecipientFacts
      <3>2. CASE job' = Outbox!Idle
        BY <3>2, Ending
      <3>3. ASSUME NEW step \in {"sign", "send"}, step = "send" => Outbox!Unsigned(row) = {},
                   job' = [job EXCEPT !.row = row, !.due = Outbox!Recipients \ row.acked,
                                      !.step = step]
            PROVE  job' \in Outbox!Job /\ InvocationOK'
        <4>1. job' \in Outbox!Job
          BY <3>1, <3>3, <1>3 DEF Outbox!Job, Outbox!Steps
        <4>2. /\ job'.step = step /\ job'.row = row /\ job'.at = job.at
              /\ job'.due = Outbox!Recipients \ row.acked /\ job'.role = job.role
          BY <3>3, <1>3 DEF Outbox!Job
        <4>3. job'.due \subseteq Outbox!Recipients /\ job'.role \in Outbox!Recipients
          BY <4>2, <1>3 DEF InvocationOK
        <4>4. Outbox!Unsigned(job'.row) = Outbox!Unsigned(row) /\ job'.row = outbox'[job'.at]
          BY <4>2, <1>1
        <4>5. InvocationOK'
          BY <4>2, <4>3, <4>4, <3>3 DEF InvocationOK, Outbox!Unsigned
        <4> QED BY <4>1, <4>5
      <3>4. \/ job' = Outbox!Idle
            \/ \E step \in {"sign", "send"} :
                 /\ step = "send" => Outbox!Unsigned(row) = {}
                 /\ job' = [job EXCEPT !.row = row, !.due = Outbox!Recipients \ row.acked,
                                       !.step = step]
        BY <2>3 DEF Outbox!Load
      <3> QED BY <3>2, <3>3, <3>4
    <2>4. CASE Outbox!Sign
      <3>1. job.row = outbox[job.at]
        BY <2>4, <1>3 DEF Outbox!Sign, InvocationOK
      <3>2. Completes(outbox[job.at], Outbox!Signed(job.row))
        BY <3>1, <1>3, InvocationTypes, SignedCompletes DEF OutboxInv, RowsOK
      <3>3. job' \in Outbox!Job
        BY <2>4, <3>2, <1>3 DEF Outbox!Sign, Outbox!Job, Outbox!Steps, Completes
      <3>4. /\ job'.step = "stage" /\ job'.row = Outbox!Signed(job.row) /\ job'.at = job.at
            /\ job'.due = job.due /\ job'.role = job.role
        BY <2>4, <1>3 DEF Outbox!Sign, Outbox!Job
      <3>5. Completes(outbox[job.at], job.row)'
        BY <3>2, <3>4, <1>1 DEF Completes, Outbox!Unsigned, Versioned
      <3>6. InvocationOK'
        BY <3>4, <3>5, <1>3 DEF InvocationOK
      <3> QED BY <3>3, <3>6
    <2> QED BY <2>1, <2>2, <2>3, <2>4
  <1>5. Outbox!TypeOK'
    BY <1>1, <1>4, <1>3 DEF Outbox!TypeOK
  <1> QED BY <1>2, <1>4, <1>5 DEF OutboxInv


\* Storing the row: it was completed, and no stored byte changed.
LEMMA StageKeeps ==
  ASSUME Outbox!PlanAssumption, OutboxInv, Outbox!Stage
  PROVE  OutboxInv'
  <1> DEFINE old == outbox[job.at]
             new == Outbox!StagedRow(job.row)
  <1>1. job \in Outbox!Job /\ InvocationOK /\ Outbox!TypeOK /\ job.at \in Outbox!Snapshots
    BY InvocationTypes DEF OutboxInv, Outbox!TypeOK
  <1>2. /\ UNCHANGED <<current, witnessed, wire, relays, sent, proceeded, interrupts>>
        /\ outbox' = [outbox EXCEPT ![job.at] = new]
        /\ job' = [job EXCEPT !.step = "send", !.row = outbox'[job.at]]
        /\ job.step = "stage" /\ Outbox!CanStage(job.row)
    BY DEF Outbox!Stage
  <1>3. /\ Versioned(old) /\ Acknowledged(job.at, old)
        /\ old \in Outbox!Row \cup {Outbox!NoRow}
    BY <1>1 DEF OutboxInv, RowsOK, Outbox!TypeOK
  <1>4. Completes(old, new)
    BY <1>1, <1>2, <1>3, StagedCompletes DEF InvocationOK
  <1>5. new \in Outbox!Row
    BY <1>4 DEF Completes
  <1>6. outbox' \in [Outbox!Snapshots -> Outbox!Row \cup {Outbox!NoRow}]
    BY <1>1, <1>2, <1>5 DEF Outbox!TypeOK
  <1>7. outbox'[job.at] = new
        /\ \A s \in Outbox!Snapshots : s # job.at => outbox'[s] = outbox[s]
    BY <1>1, <1>2 DEF Outbox!TypeOK
  <1>8. job' \in Outbox!Job
    BY <1>1, <1>2, <1>5, <1>7 DEF Outbox!Job, Outbox!Steps
  <1>9. /\ job'.step = "send" /\ job'.row = new /\ job'.at = job.at
        /\ job'.due = job.due /\ job'.role = job.role
    BY <1>1, <1>2, <1>7 DEF Outbox!Job
  <1>10. SentAreStored'
    <2> SUFFICES ASSUME NEW wrap \in sent
                 PROVE  wrap.bytes # 0
                        /\ wrap.bytes = outbox'[wrap.snapshot].bytes[wrap.role]
      BY <1>2 DEF SentAreStored
    <2>1. wrap.snapshot \in Outbox!Snapshots /\ wrap.role \in Outbox!Roles
      BY <1>1 DEF Outbox!TypeOK, Outbox!Wrap
    <2>2. wrap.bytes # 0 /\ wrap.bytes = outbox[wrap.snapshot].bytes[wrap.role]
      BY DEF OutboxInv, SentAreStored
    <2>3. CASE wrap.snapshot = job.at
      BY <2>1, <2>2, <2>3, <1>4, <1>7 DEF Completes
    <2>4. CASE wrap.snapshot # job.at
      BY <2>1, <2>2, <2>4, <1>7
    <2> QED BY <2>3, <2>4
  <1>11. RowsOK'
    <2> SUFFICES ASSUME NEW s \in Outbox!Snapshots
                 PROVE  Versioned(outbox'[s]) /\ Acknowledged(s, outbox[s])'
      BY DEF RowsOK, Versioned
    <2>1. CASE s # job.at
      BY <2>1, <1>2, <1>7 DEF OutboxInv, RowsOK, Acknowledged
    <2>2. CASE s = job.at
      <3>1. new.acked = old.acked /\ \A r \in Outbox!Roles : old.bytes[r] # 0
              => new.bytes[r] = old.bytes[r]
        BY <1>4 DEF Completes
      <3>2. \A r \in old.acked : r \in Outbox!Roles /\ old.bytes[r] # 0
        BY <1>3, RowTypes DEF Versioned
      <3>3. Acknowledged(job.at, new)
        BY <3>1, <3>2, <1>3 DEF Acknowledged
      <3>4. Versioned(new)
        BY <1>4 DEF Completes
      <3> QED BY <2>2, <3>3, <3>4, <1>2, <1>7 DEF Acknowledged
    <2> QED BY <2>1, <2>2
  <1>12. InvocationOK'
    <2>1. Outbox!Unsigned(job.row)' = {}
      BY <1>4, <1>9 DEF Completes, Outbox!Unsigned
    <2> QED BY <2>1, <1>1, <1>7, <1>9 DEF InvocationOK
  <1>13. Outbox!ProceedsDelivered'
    BY <1>2 DEF OutboxInv, Outbox!ProceedsDelivered
  <1>14. Outbox!TypeOK'
    BY <1>1, <1>2, <1>6, <1>8 DEF Outbox!TypeOK
  <1> QED BY <1>10, <1>11, <1>12, <1>13, <1>14 DEF OutboxInv


\* Sending: what goes out is what is stored.
LEMMA SendKeeps ==
  ASSUME Outbox!PlanAssumption, OutboxInv, Outbox!Send
  PROVE  OutboxInv'
  <1>1. job \in Outbox!Job /\ InvocationOK /\ Outbox!TypeOK /\ job.at \in Outbox!Snapshots
    BY InvocationTypes DEF OutboxInv, Outbox!TypeOK
  <1>2. /\ UNCHANGED <<current, witnessed, outbox, relays, proceeded, interrupts>>
        /\ job.step = "send"
    BY DEF Outbox!Send
  <1>3. job.row = outbox[job.at] /\ Outbox!Unsigned(job.row) = {}
    BY <1>1, <1>2 DEF InvocationOK
  <1>4. RowsOK' /\ Outbox!ProceedsDelivered'
    BY <1>2 DEF OutboxInv, RowsOK, Acknowledged, Versioned, Outbox!ProceedsDelivered
  <1>5. CASE job' = [job EXCEPT !.step = "answer"] /\ UNCHANGED <<wire, sent>>
    <2>1. job' \in Outbox!Job
      BY <1>1, <1>5 DEF Outbox!Job, Outbox!Steps
    <2>2. /\ job'.step = "answer" /\ job'.row = job.row /\ job'.at = job.at
          /\ job'.due = job.due /\ job'.role = job.role
      BY <1>1, <1>5 DEF Outbox!Job
    <2>3. InvocationOK'
      BY <2>2, <1>1, <1>2, <1>3 DEF InvocationOK, Outbox!Unsigned
    <2>4. Outbox!TypeOK' /\ SentAreStored'
      BY <2>1, <1>1, <1>2, <1>5 DEF Outbox!TypeOK, OutboxInv, SentAreStored
    <2> QED BY <1>4, <2>3, <2>4 DEF OutboxInv
  <1>6. ASSUME NEW r \in job.due,
               job' = [job EXCEPT !.step = "wait", !.role = r, !.due = @ \ {r}],
               wire' = wire \cup
                 {[snapshot |-> job.at, role |-> r, bytes |-> job.row.bytes[r]]},
               sent' = sent \cup
                 {[snapshot |-> job.at, role |-> r, bytes |-> job.row.bytes[r]]}
        PROVE  OutboxInv'
    <2> DEFINE wrap == [snapshot |-> job.at, role |-> r, bytes |-> job.row.bytes[r]]
    <2>1. r \in Outbox!Recipients /\ r \in Outbox!Roles
      BY <1>1, RecipientFacts DEF InvocationOK
    <2>2. job' \in Outbox!Job
      BY <2>1, <1>1, <1>6 DEF Outbox!Job, Outbox!Steps
    <2>3. /\ job'.step = "wait" /\ job'.row = job.row /\ job'.at = job.at
          /\ job'.due = job.due \ {r} /\ job'.role = r
      BY <1>1, <1>6 DEF Outbox!Job
    <2>4. InvocationOK'
      BY <2>1, <2>3, <1>1, <1>2, <1>3 DEF InvocationOK, Outbox!Unsigned
    <2>5. job.row.bytes[r] \in Nat /\ job.row.bytes[r] # 0
      BY <2>1, <1>1, <1>3, InvocationTypes, RowTypes DEF Outbox!Unsigned
    <2>6. wrap \in Outbox!Wrap
      BY <2>1, <2>5, <1>1 DEF Outbox!Wrap
    <2>7. SentAreStored'
      BY <2>5, <1>2, <1>3, <1>6 DEF OutboxInv, SentAreStored
    <2>8. Outbox!TypeOK'
      BY <2>2, <2>6, <1>1, <1>2, <1>6 DEF Outbox!TypeOK
    <2> QED BY <1>4, <2>4, <2>7, <2>8 DEF OutboxInv
  <1> QED BY <1>5, <1>6 DEF Outbox!Send

\* Marking: the role of the acknowledgement, beside the bytes that are acknowledged.
LEMMA MarkKeeps ==
  ASSUME Outbox!PlanAssumption, OutboxInv, Outbox!Mark
  PROVE  OutboxInv'
  <1> DEFINE old == outbox[job.at]
             new == Outbox!Marked(old, job.role)
  <1>1. job \in Outbox!Job /\ InvocationOK /\ Outbox!TypeOK /\ job.at \in Outbox!Snapshots
    BY InvocationTypes DEF OutboxInv, Outbox!TypeOK
  <1>2. /\ UNCHANGED <<current, witnessed, wire, relays, sent, proceeded, interrupts>>
        /\ outbox' = [outbox EXCEPT ![job.at] = new]
        /\ job' = [job EXCEPT !.step = "send", !.row = outbox'[job.at]]
        /\ job.step = "mark"
    BY DEF Outbox!Mark
  <1>3. /\ Versioned(old) /\ Acknowledged(job.at, old)
        /\ old \in Outbox!Row \cup {Outbox!NoRow}
    BY <1>1 DEF OutboxInv, RowsOK, Outbox!TypeOK
  <1>4. /\ job.row = old /\ Outbox!Unsigned(old) = {} /\ Outbox!Awaited \in relays
        /\ job.role \in Outbox!Recipients /\ job.role \in Outbox!Roles
    BY <1>1, <1>2, RecipientFacts DEF InvocationOK
  <1>5. \A r \in Outbox!Recipients : old.bytes[r] # 0
    BY <1>4 DEF Outbox!Unsigned
  <1>6. old \in Outbox!Row
    BY <1>3, <1>4, <1>5 DEF Outbox!NoRow
  <1>7. new \in Outbox!Row /\ new.schema = old.schema /\ new.bytes = old.bytes
        /\ new.acked = old.acked \cup {job.role}
    BY <1>4, <1>6 DEF Outbox!Marked, Outbox!Row
  <1>8. outbox' \in [Outbox!Snapshots -> Outbox!Row \cup {Outbox!NoRow}]
    BY <1>1, <1>2, <1>7 DEF Outbox!TypeOK
  <1>9. outbox'[job.at] = new
        /\ \A s \in Outbox!Snapshots : s # job.at => outbox'[s] = outbox[s]
    BY <1>1, <1>2 DEF Outbox!TypeOK
  <1>10. job' \in Outbox!Job
    BY <1>1, <1>2, <1>7, <1>9 DEF Outbox!Job, Outbox!Steps
  <1>11. /\ job'.step = "send" /\ job'.row = new /\ job'.at = job.at
         /\ job'.due = job.due /\ job'.role = job.role
    BY <1>1, <1>2, <1>9 DEF Outbox!Job
  <1>12. SentAreStored'
    BY <1>2, <1>7, <1>9, <1>1 DEF OutboxInv, SentAreStored, Outbox!TypeOK, Outbox!Wrap
  <1>13. RowsOK'
    <2> SUFFICES ASSUME NEW s \in Outbox!Snapshots
                 PROVE  Versioned(outbox[s])' /\ Acknowledged(s, outbox[s])'
      BY DEF RowsOK
    <2>1. CASE s # job.at
      BY <2>1, <1>2, <1>9 DEF OutboxInv, RowsOK, Acknowledged, Versioned
    <2>2. CASE s = job.at
      <3>1. Acknowledged(job.at, new)
        BY <1>3, <1>4, <1>7 DEF Acknowledged, Outbox!Awaited
      <3>2. Versioned(new)
        BY <1>3, <1>4, <1>5, <1>7 DEF Versioned, Outbox!Roles
      <3>3. Versioned(outbox[s])'
        BY <2>2, <3>2, <1>9 DEF Versioned
      <3> QED BY <2>2, <3>1, <3>3, <1>2, <1>9 DEF Acknowledged
    <2> QED BY <2>1, <2>2
  <1>14. InvocationOK'
    <2>1. Outbox!Unsigned(job.row)' = {}
      BY <1>5, <1>7, <1>11 DEF Outbox!Unsigned
    <2> QED BY <2>1, <1>1, <1>9, <1>11 DEF InvocationOK
  <1>15. Outbox!ProceedsDelivered'
    BY <1>2 DEF OutboxInv, Outbox!ProceedsDelivered
  <1>16. Outbox!TypeOK'
    BY <1>1, <1>2, <1>8, <1>10 DEF Outbox!TypeOK
  <1> QED BY <1>12, <1>13, <1>14, <1>15, <1>16 DEF OutboxInv

\* The relays' answers, in time and late.
LEMMA RelaysKeep ==
  ASSUME Outbox!PlanAssumption, OutboxInv,
         Outbox!RelayAcknowledges \/ Outbox!RelaySilent \/ Outbox!LateArrival
  PROVE  OutboxInv'
  <1>1. job \in Outbox!Job /\ InvocationOK /\ Outbox!TypeOK /\ job.at \in Outbox!Snapshots
    BY InvocationTypes DEF OutboxInv, Outbox!TypeOK
  <1>2. /\ UNCHANGED <<current, witnessed, outbox, sent, proceeded, interrupts>>
        /\ relays \subseteq relays' /\ wire' \subseteq wire
    BY DEF Outbox!RelayAcknowledges, Outbox!RelaySilent, Outbox!LateArrival
  <1>3. RowsOK' /\ SentAreStored' /\ Outbox!ProceedsDelivered'
    BY <1>2, OutboxUntouched
  <1>4. relays' \subseteq Outbox!Wrap /\ job' \in Outbox!Job /\ InvocationOK'
    <2>1. CASE Outbox!RelayAcknowledges
      <3>1. job.step = "wait" /\ relays' = relays \cup {Outbox!Awaited}
            /\ job' = [job EXCEPT !.step = "mark"]
        BY <2>1 DEF Outbox!RelayAcknowledges
      <3>2. job' \in Outbox!Job
        BY <3>1, <1>1 DEF Outbox!Job, Outbox!Steps
      <3>3. /\ job'.step = "mark" /\ job'.row = job.row /\ job'.at = job.at
            /\ job'.due = job.due /\ job'.role = job.role
        BY <3>1, <1>1 DEF Outbox!Job
      <3>4. Outbox!Awaited' = Outbox!Awaited
        BY <3>3 DEF Outbox!Awaited
      <3>5. InvocationOK'
        BY <3>1, <3>3, <3>4, <1>1, <1>2 DEF InvocationOK, Outbox!Unsigned
      <3>6. Outbox!Awaited \in Outbox!Wrap
        BY <1>1, InvocationTypes, RowTypes DEF Outbox!Awaited, Outbox!Wrap
      <3> QED BY <3>1, <3>2, <3>5, <3>6, <1>1 DEF Outbox!TypeOK
    <2>2. CASE Outbox!RelaySilent
      <3>1. job.step = "wait" /\ relays' = relays /\ job' = [job EXCEPT !.step = "send"]
        BY <2>2 DEF Outbox!RelaySilent
      <3>2. job' \in Outbox!Job
        BY <3>1, <1>1 DEF Outbox!Job, Outbox!Steps
      <3>3. /\ job'.step = "send" /\ job'.row = job.row /\ job'.at = job.at
            /\ job'.due = job.due /\ job'.role = job.role
        BY <3>1, <1>1 DEF Outbox!Job
      <3>4. InvocationOK'
        BY <3>1, <3>3, <1>1, <1>2 DEF InvocationOK, Outbox!Unsigned
      <3> QED BY <3>1, <3>2, <3>4, <1>1 DEF Outbox!TypeOK
    <2>3. CASE Outbox!LateArrival
      <3>1. job' = job /\ \E wrap \in wire : relays' \in {relays, relays \cup {wrap}}
        BY <2>3 DEF Outbox!LateArrival
      <3>2. InvocationOK'
        BY <3>1, <1>1, <1>2 DEF InvocationOK, Outbox!Unsigned, Completes, Versioned,
          Outbox!Awaited
      <3> QED BY <3>1, <3>2, <1>1 DEF Outbox!TypeOK
    <2> QED BY <2>1, <2>2, <2>3
  <1>5. Outbox!TypeOK'
    BY <1>1, <1>2, <1>4 DEF Outbox!TypeOK
  <1> QED BY <1>3, <1>4, <1>5 DEF OutboxInv

\* Going on: the row is accepted by everybody its snapshot must reach.
LEMMA AnswerKeeps ==
  ASSUME Outbox!PlanAssumption, OutboxInv, Outbox!Answer
  PROVE  OutboxInv'
  <1>1. job \in Outbox!Job /\ InvocationOK /\ Outbox!TypeOK /\ job.at \in Outbox!Snapshots
    BY InvocationTypes DEF OutboxInv, Outbox!TypeOK
  <1>2. /\ UNCHANGED <<current, witnessed, outbox, wire, relays, sent, interrupts>>
        /\ job.step = "answer"
    BY DEF Outbox!Answer
  <1>3. RowsOK' /\ SentAreStored'
    BY <1>2, OutboxUntouched
  <1>4. job' \in Outbox!Job /\ InvocationOK'
    <2>1. CASE job' = Outbox!Idle
      BY <2>1, Ending
    <2>2. CASE job' = [job EXCEPT !.step = "next"]
      <3>1. job' \in Outbox!Job
        BY <2>2, <1>1 DEF Outbox!Job, Outbox!Steps
      <3>2. job'.step = "next" /\ job'.due = job.due /\ job'.role = job.role
        BY <2>2, <1>1 DEF Outbox!Job
      <3> QED BY <3>1, <3>2, <1>1, NothingHeld DEF InvocationOK
    <2> QED BY <2>1, <2>2 DEF Outbox!Answer
  <1>5. Outbox!ProceedsDelivered' /\ proceeded' \subseteq Outbox!Snapshots
    <2>1. CASE proceeded' = proceeded
      BY <2>1, <1>1, <1>2, OutboxUntouched DEF Outbox!TypeOK
    <2>2. CASE Outbox!RelayAccepted(job.row) /\ proceeded' = proceeded \cup {job.at}
      <3> DEFINE row == outbox[job.at]
      <3>1. row = job.row /\ Outbox!Unsigned(row) = {} /\ Versioned(row)
            /\ Acknowledged(job.at, row)
        BY <1>1, <1>2 DEF InvocationOK, OutboxInv, RowsOK
      <3>2. Outbox!Recipients \subseteq row.acked
        <4>1. CASE row.schema = 2
          BY <4>1, <2>2, <3>1, RecipientFacts DEF Outbox!RelayAccepted
        <4>2. CASE row.schema # 2
          <5>1. row.acked = {"merchant"} /\ row.bytes["organizer"] = 0
            BY <4>2, <2>2, <3>1 DEF Outbox!RelayAccepted, Versioned
          <5>2. "organizer" \notin Outbox!Recipients
            BY <5>1, <3>1 DEF Outbox!Unsigned
          <5> QED BY <5>1, <5>2, RecipientFacts DEF Outbox!Roles
        <4> QED BY <4>1, <4>2
      <3>3. \A r \in Outbox!Recipients : \E wrap \in relays :
              wrap.snapshot = job.at /\ wrap.role = r
        <4> SUFFICES ASSUME NEW r \in Outbox!Recipients
                     PROVE  \E wrap \in relays : wrap.snapshot = job.at /\ wrap.role = r
          OBVIOUS
        <4>1. [snapshot |-> job.at, role |-> r, bytes |-> row.bytes[r]] \in relays
          BY <3>1, <3>2 DEF Acknowledged
        <4> QED BY <4>1
      <3>4. Outbox!ProceedsDelivered'
        BY <2>2, <3>3, <1>2 DEF OutboxInv, Outbox!ProceedsDelivered
      <3> QED BY <2>2, <3>4, <1>1 DEF Outbox!TypeOK
    <2> QED BY <2>1, <2>2 DEF Outbox!Answer
  <1>6. Outbox!TypeOK'
    BY <1>1, <1>2, <1>4, <1>5 DEF Outbox!TypeOK
  <1> QED BY <1>3, <1>4, <1>5, <1>6 DEF OutboxInv

\* The steps that end an invocation, and those around it.
LEMMA OthersKeep ==
  ASSUME Outbox!PlanAssumption, OutboxInv,
         \/ Outbox!StageRefused \/ Outbox!Interrupt
         \/ Outbox!StateMoves \/ Outbox!OrderAuthenticated
  PROVE  OutboxInv'
  <1>1. job \in Outbox!Job /\ InvocationOK /\ Outbox!TypeOK
    BY DEF OutboxInv, Outbox!TypeOK
  <1>2. UNCHANGED <<outbox, wire, relays, sent, proceeded>>
    BY DEF Outbox!StageRefused, Outbox!Interrupt, Outbox!StateMoves,
      Outbox!OrderAuthenticated
  <1>3. RowsOK' /\ SentAreStored' /\ Outbox!ProceedsDelivered'
    BY <1>2, OutboxUntouched
  <1>4. job' \in Outbox!Job /\ InvocationOK'
    <2>1. CASE job' = Outbox!Idle
      BY <2>1, Ending
    <2>2. CASE job' = job
      BY <2>2, <1>1, <1>2 DEF InvocationOK, Outbox!Unsigned, Completes, Versioned,
        Outbox!Awaited
    <2> QED BY <2>1, <2>2 DEF Outbox!StageRefused, Outbox!Interrupt, Outbox!StateMoves,
      Outbox!OrderAuthenticated
  <1>5. /\ current' \in Outbox!Snapshots /\ witnessed' \in BOOLEAN
        /\ interrupts' \in 0 .. MaxInterrupts
    <2>1. CASE Outbox!StageRefused
      BY <2>1, <1>1 DEF Outbox!StageRefused, Outbox!TypeOK
    <2>2. CASE Outbox!Interrupt
      BY <2>2, <1>1 DEF Outbox!Interrupt, Outbox!TypeOK, Outbox!PlanAssumption
    <2>3. CASE Outbox!StateMoves
      BY <2>3, <1>1 DEF Outbox!StateMoves, Outbox!TypeOK
    <2>4. CASE Outbox!OrderAuthenticated
      BY <2>4, <1>1 DEF Outbox!OrderAuthenticated, Outbox!TypeOK
    <2> QED BY <2>1, <2>2, <2>3, <2>4
  <1>6. Outbox!TypeOK'
    BY <1>1, <1>2, <1>4, <1>5 DEF Outbox!TypeOK
  <1> QED BY <1>3, <1>4, <1>6 DEF OutboxInv

\* A step that changes nothing.
LEMMA StutterKeeps ==
  ASSUME OutboxInv, UNCHANGED Outbox!vars
  PROVE  OutboxInv'
  <1> USE DEF Outbox!vars
  <1>1. Outbox!TypeOK'
    BY DEF OutboxInv, Outbox!TypeOK
  <1>2. RowsOK' /\ SentAreStored' /\ Outbox!ProceedsDelivered'
    BY OutboxUntouched
  <1>3. InvocationOK'
    BY DEF OutboxInv, InvocationOK, Outbox!Unsigned, Completes, Versioned, Outbox!Awaited
  <1> QED BY <1>1, <1>2, <1>3 DEF OutboxInv

LEMMA OutboxNext ==
  ASSUME Outbox!PlanAssumption, OutboxInv, [Outbox!Next]_(Outbox!vars)
  PROVE  OutboxInv'
  <1>1. CASE UNCHANGED Outbox!vars
    BY <1>1, StutterKeeps
  <1>2. CASE Outbox!Next
    BY <1>2, Readings, StageKeeps, SendKeeps, MarkKeeps, RelaysKeep, AnswerKeeps,
      OthersKeep DEF Outbox!Next, Outbox!Page
  <1> QED BY <1>1, <1>2

LEMMA OutboxInvariance ==
  ASSUME Outbox!PlanAssumption
  PROVE  Outbox!Spec => []OutboxInv
  <1>1. Outbox!Init => OutboxInv
    BY OutboxInit
  <1>2. OutboxInv /\ [Outbox!Next]_(Outbox!vars) => OutboxInv'
    BY OutboxNext
  <1> QED BY <1>1, <1>2, PTL DEF Outbox!Spec

-----------------------------------------------------------------------------
(* The theorems.                                                           *)

\* The variables have their types.
THEOREM OutboxTypes ==
  ASSUME Outbox!PlanAssumption
  PROVE  Outbox!Spec => []Outbox!TypeOK
  <1>1. OutboxInv => Outbox!TypeOK
    BY DEF OutboxInv
  <1> QED BY <1>1, OutboxInvariance, PTL

\* No recipient is ever sent two encryptions of one snapshot by a device: all that
\* was sent is what is stored, and stored bytes do not change.
THEOREM SnapshotSealedOnce ==
  ASSUME Outbox!PlanAssumption
  PROVE  Outbox!Spec => []Outbox!OneCiphertext
  <1>1. OutboxInv => Outbox!OneCiphertext
    <2> SUFFICES ASSUME OutboxInv, NEW a \in sent, NEW b \in sent,
                        a.snapshot = b.snapshot, a.role = b.role
                 PROVE  a = b
      BY DEF Outbox!OneCiphertext
    <2>1. a \in Outbox!Wrap /\ b \in Outbox!Wrap
      BY DEF OutboxInv, Outbox!TypeOK
    <2>2. a.bytes = b.bytes
      BY DEF OutboxInv, SentAreStored
    <2> QED BY <2>1, <2>2 DEF Outbox!Wrap
  <1> QED BY <1>1, OutboxInvariance, PTL

\* An acknowledgement in the outbox is true of the bytes beside it.
THEOREM AcknowledgedIsStored ==
  ASSUME Outbox!PlanAssumption
  PROVE  Outbox!Spec => []Outbox!AckIsStored
  <1>1. OutboxInv => Outbox!AckIsStored
    BY DEF OutboxInv, RowsOK, Acknowledged, Outbox!AckIsStored
  <1> QED BY <1>1, OutboxInvariance, PTL

\* The merchant pays only from a state everybody can read back from the relays.
THEOREM PaidFromDelivered ==
  ASSUME Outbox!PlanAssumption
  PROVE  Outbox!Spec => []Outbox!ProceedsDelivered
  <1>1. OutboxInv => Outbox!ProceedsDelivered
    BY DEF OutboxInv
  <1> QED BY <1>1, OutboxInvariance, PTL

\* No step takes back stored bytes or an acknowledgement, not even an upgrade.
THEOREM OutboxOnlyGrows ==
  ASSUME Outbox!PlanAssumption
  PROVE  Outbox!Spec => Outbox!NothingTakenBack
  <1> DEFINE Kept == \A s \in Outbox!Snapshots : \A r \in Outbox!Roles :
                       /\ outbox[s].bytes[r] # 0 => outbox'[s].bytes[r] = outbox[s].bytes[r]
                       /\ outbox[s].acked \subseteq outbox'[s].acked
  <1>1. ASSUME OutboxInv, Outbox!Next PROVE Kept
    <2>1. /\ job.at \in Outbox!Snapshots
          /\ outbox \in [Outbox!Snapshots -> Outbox!Row \cup {Outbox!NoRow}]
      BY <1>1, InvocationTypes DEF OutboxInv, Outbox!TypeOK
    <2>2. CASE outbox' = outbox
      BY <2>2
    <2>3. CASE Outbox!Stage
      <3>1. Completes(outbox[job.at], Outbox!StagedRow(job.row))
        BY <1>1, <2>1, <2>3, StagedCompletes DEF Outbox!Stage, OutboxInv, RowsOK,
          InvocationOK
      <3>2. outbox' = [outbox EXCEPT ![job.at] = Outbox!StagedRow(job.row)]
        BY <2>3 DEF Outbox!Stage
      <3> QED BY <2>1, <3>1, <3>2 DEF Completes
    <2>4. CASE Outbox!Mark
      <3>1. outbox' = [outbox EXCEPT ![job.at] = Outbox!Marked(@, job.role)]
        BY <2>4 DEF Outbox!Mark
      <3>2. /\ Outbox!Marked(outbox[job.at], job.role).bytes = outbox[job.at].bytes
            /\ outbox[job.at].acked \subseteq Outbox!Marked(outbox[job.at], job.role).acked
        BY <2>1, RowTypes DEF Outbox!Marked
      <3> QED BY <2>1, <3>1, <3>2
    <2> QED BY <1>1, <2>2, <2>3, <2>4 DEF Outbox!Next, Outbox!Page, Outbox!Start,
      Outbox!NextRow, Outbox!Load, Outbox!Sign,
          Outbox!StageRefused, Outbox!Send, Outbox!Answer, Outbox!RelayAcknowledges,
          Outbox!RelaySilent, Outbox!Interrupt,
          Outbox!StateMoves, Outbox!OrderAuthenticated, Outbox!LateArrival
  <1>2. OutboxInv /\ [Outbox!Next]_(Outbox!vars) => [Kept]_(Outbox!vars)
    BY <1>1
  <1> QED BY <1>2, OutboxInvariance, PTL DEF Outbox!Spec, Outbox!NothingTakenBack

-----------------------------------------------------------------------------
(* Whichever loop moves: the outbox.                                       *)

\* Whichever loop moves, no recipient is sent two encryptions of one
\* snapshot, acknowledgements are true, and the merchant pays from delivered states.
THEOREM PageSealsOnce == PageSpec => []OneCiphertext
  <1>1. PageInit => Outbox!Init
    BY DEF PageInit
  <1>2. [PageNext]_pageVars => [Outbox!Next]_(Outbox!vars)
    BY DEF PageNext, pageVars, SchedulerPart, OutboxPart, RunnerPart, FundingPart, outboxVars,
       Outbox!vars
  <1>3. PageSpec => Outbox!Spec
    BY <1>1, <1>2, PTL DEF PageSpec, Outbox!Spec
  <1>4. Outbox!Spec => []OutboxInv
    BY OutboxAssumption, OutboxInvariance
  <1>5. Outbox!Spec => []Outbox!OneCiphertext
    BY OutboxAssumption, SnapshotSealedOnce
  <1>6. OutboxInv /\ Outbox!OneCiphertext => OneCiphertext
    BY DEF OutboxInv, RowsOK, Acknowledged, OneCiphertext, Outbox!AckIsStored
  <1> QED BY <1>3, <1>4, <1>5, <1>6, PTL


-----------------------------------------------------------------------------
(* The runner: types.                                                      *)

\* The limit on a run's steps is a number.
LEMMA StepsType ==
  ASSUME Runner!BoundsAssumption, Runner!TypeOK, NEW r \in Runners
  PROVE  Runner!Steps(r) \in Nat \/ Runner!Steps(r) = Runner!Unset
  <1>1. run[r] \in Runner!Job
    BY DEF Runner!TypeOK
  <1> QED BY <1>1 DEF Runner!Steps, Runner!Job, Runner!BoundsAssumption

\* The idle run has the type of a run.
LEMMA IdleType == Runner!Idle \in Runner!Job
  BY DEF Runner!Idle, Runner!Job, Runner!Unset

\* A run that goes on keeps everything but its step.
LEMMA GotoStep ==
  ASSUME Runner!TypeOK, NEW r \in Runners, NEW step, Runner!Goto(r, step),
         step \in {"top", "read", "advance", "before", "answered", "ended"}
  PROVE  /\ run' \in [Runners -> Runner!Job]
         /\ \A s \in Runners : s # r => run'[s] = run[s]
         /\ run'[r].step = step
         /\ run'[r].generation = run[r].generation
         /\ run'[r].mode = run[r].mode
         /\ run'[r].observed = run[r].observed
         /\ run'[r].payer = run[r].payer
         /\ run'[r].entered = run[r].entered
  BY DEF Runner!Goto, Runner!TypeOK, Runner!Job

-----------------------------------------------------------------------------
(* The runner: its inductive invariant.                                    *)

\* A plan has one run, and it is in activePlans as long as that run is.
OneRun ==
  /\ \A r \in Runners : run[r].step # "idle" => activePlans
  /\ \A r, s \in Runners : run[r].step # "idle" /\ run[s].step # "idle" => r = s

\* A run is paused by taking its epoch away, and until it has ended.
RunPaused ==
  \A r \in Runners :
    /\ run[r].generation <= epoch[r]
    /\ pausing[r] => /\ run[r].step \notin {"idle", "waiting"}
                     /\ run[r].generation # epoch[r]

\* A payer is pending only before its first entry, which uses up the first look at
\* the funding.
PayerPending ==
  \A r \in Runners :
    /\ run[r].entered \in {0, 1}
    /\ run[r].entered = 1 => run[r].mode = "pay_once" /\ run[r].observed > 0
    /\ run[r].step \in {"advance", "before"} /\ run[r].payer =>
         run[r].mode = "pay_once" /\ run[r].observed > 0 /\ run[r].entered = 0

RunnerInv ==
  /\ Runner!TypeOK /\ OneRun /\ Runner!OverMeansSettled /\ Runner!OneOperation
  /\ RunPaused /\ PayerPending

\* A run that goes on, and admits or settles nothing, keeps the invariant.
LEMMA GoesOn ==
  ASSUME RunnerInv, NEW r \in Runners, NEW step, Runner!Goto(r, step),
         step \in {"top", "read", "before", "answered", "ended"},
         step = "before" => run[r].step = "advance",
         run[r].step \notin {"idle", "admitted"},
         UNCHANGED <<activePlans, epoch, pausing, flying, session>>
  PROVE  RunnerInv'
  <1>1. Runner!TypeOK'
    BY GotoStep DEF RunnerInv, Runner!TypeOK
  <1>2. OneRun'
    BY GotoStep DEF RunnerInv, OneRun
  <1>3. Runner!OverMeansSettled' /\ Runner!OneOperation'
    <2>1. \A o \in flying : o.runner \in Runners /\ o.runner # r
      BY DEF RunnerInv, Runner!TypeOK, Runner!Operation, Runner!OverMeansSettled
    <2> QED BY <2>1, GotoStep DEF RunnerInv, Runner!OverMeansSettled, Runner!OneOperation
  <1>4. RunPaused'
    BY GotoStep DEF RunnerInv, RunPaused
  <1>5. PayerPending'
    BY GotoStep DEF RunnerInv, PayerPending
  <1> QED BY <1>1, <1>2, <1>3, <1>4, <1>5 DEF RunnerInv

\* A runner that has not started keeps it.
LEMMA RunnerInit == ASSUME Runner!BoundsAssumption, Runner!Init PROVE RunnerInv
  <1>1. /\ run \in [Runners -> Runner!Job] /\ \A r \in Runners : run[r] = Runner!Idle
        /\ epoch \in [Runners -> 0 .. MaxRuns] /\ \A r \in Runners : epoch[r] = 0
        /\ pausing \in [Runners -> BOOLEAN] /\ \A r \in Runners : ~pausing[r]
    BY IdleType DEF Runner!Init, Runner!BoundsAssumption
  <1>2. Runner!Idle.step = "idle" /\ Runner!Idle.generation = 0 /\ Runner!Idle.entered = 0
    BY DEF Runner!Idle
  <1>3. flying = {} /\ activePlans \in BOOLEAN /\ session \in BOOLEAN
    BY DEF Runner!Init
  <1>4. Runner!TypeOK
    BY <1>1, <1>3 DEF Runner!TypeOK
  <1>5. OneRun /\ Runner!OverMeansSettled /\ Runner!OneOperation
    BY <1>1, <1>2, <1>3 DEF OneRun, Runner!OverMeansSettled, Runner!OneOperation
  <1>6. RunPaused /\ PayerPending
    BY <1>1, <1>2 DEF RunPaused, PayerPending
  <1> QED BY <1>4, <1>5, <1>6 DEF RunnerInv

\* Starting a pass keeps it.
LEMMA RunInv ==
  ASSUME Runner!BoundsAssumption, RunnerInv, NEW r \in Runners, Runner!Run(r)
  PROVE  RunnerInv'
  <1>1. PICK mode \in {"pay_once", "inspect"} :
          run' = [run EXCEPT ![r] = [Runner!Idle EXCEPT !.step = "top", !.mode = mode,
                    !.generation = epoch[r] + 1, !.left = Window]]
    BY DEF Runner!Run
  <1> DEFINE new == [Runner!Idle EXCEPT !.step = "top", !.mode = mode,
                       !.generation = epoch[r] + 1, !.left = Window]
  <1>2. /\ new \in Runner!Job
        /\ new.step = "top" /\ new.generation = epoch[r] + 1
        /\ new.entered = 0 /\ new.payer = FALSE
    <2>1. epoch[r] + 1 \in Nat /\ Window \in Nat
      BY DEF RunnerInv, Runner!TypeOK, Runner!BoundsAssumption
    <2> QED BY <2>1, IdleType DEF Runner!Idle, Runner!Job
  <1>3. /\ run' \in [Runners -> Runner!Job] /\ run'[r] = new
        /\ \A s \in Runners : s # r => run'[s] = run[s]
    BY <1>1, <1>2 DEF RunnerInv, Runner!TypeOK
  <1> HIDE DEF new
  <1>4. epoch' = [epoch EXCEPT ![r] = epoch[r] + 1] /\ epoch[r] < MaxRuns
    BY DEF Runner!Run
  <1>5. Runner!TypeOK'
    BY <1>3, <1>4 DEF RunnerInv, Runner!TypeOK, Runner!Run, Runner!BoundsAssumption
  <1>6. \A s \in Runners : run[s].step = "idle"
    BY DEF RunnerInv, OneRun, Runner!Run
  <1>7. OneRun'
    BY <1>3, <1>6 DEF OneRun, Runner!Run
  <1>8. Runner!OverMeansSettled' /\ Runner!OneOperation'
    BY <1>6
    DEF RunnerInv, Runner!TypeOK, Runner!Operation, Runner!OverMeansSettled, Runner!OneOperation,
        Runner!Run
  <1>9. RunPaused'
    <2>1. \A s \in Runners : run[s].generation \in Nat /\ epoch[s] \in Nat
      BY DEF RunnerInv, Runner!TypeOK, Runner!Job
    <2>2. pausing' = pausing /\ \A s \in Runners : ~pausing[s]
      BY <1>6 DEF RunnerInv, RunPaused, Runner!Run
    <2>3. \A s \in Runners : run'[s].generation <= epoch'[s]
      BY <1>2, <1>3, <1>4, <2>1 DEF RunnerInv, Runner!TypeOK, RunPaused
    <2> QED BY <2>2, <2>3 DEF RunPaused
  <1>10. PayerPending'
    BY <1>2, <1>3 DEF RunnerInv, PayerPending
  <1> QED BY <1>5, <1>7, <1>8, <1>9, <1>10 DEF RunnerInv

\* The steps that only move a run on: an early end, a read, a look.
LEMMA MovesInv ==
  ASSUME RunnerInv, NEW r \in Runners, Runner!Revoked(r) \/ Runner!Read(r) \/ Runner!Look(r)
  PROVE  RunnerInv'
  <1>1. CASE Runner!Revoked(r)
    BY <1>1, GoesOn DEF Runner!Revoked
  <1>2. CASE Runner!Read(r)
    BY <1>2, GoesOn DEF Runner!Read
  <1>3. CASE Runner!Look(r)
    BY <1>3, GoesOn DEF Runner!Look
  <1> QED BY <1>1, <1>2, <1>3

\* Deciding what the pass does keeps it.
LEMMA DecideInv ==
  ASSUME Runner!BoundsAssumption, RunnerInv, NEW r \in Runners, Runner!Decide(r)
  PROVE  RunnerInv'
  <1>1. PICK control \in Runner!Controls :
          IF control \in {"complete", "stopped"} \/ Runner!Steps(r) = 0
          THEN Runner!Goto(r, "ended")
          ELSE run' = [run EXCEPT
                 ![r].step = "advance",
                 ![r].remaining = Runner!Steps(r) - 1,
                 ![r].payer = Runner!CanEnterPayer(r, control),
                 ![r].observed = IF control \in {"pay_funding", "check_funding"}
                                 THEN @ + 1 ELSE @]
    BY DEF Runner!Decide
  <1>2. CASE Runner!Goto(r, "ended")
    BY <1>2, GoesOn DEF Runner!Decide
  <1>3. CASE ~(control \in {"complete", "stopped"} \/ Runner!Steps(r) = 0)
    <2> DEFINE o == IF control \in {"pay_funding", "check_funding"}
                    THEN run[r].observed + 1 ELSE run[r].observed
               new == [run[r] EXCEPT !.step = "advance", !.remaining = Runner!Steps(r) - 1,
                         !.payer = Runner!CanEnterPayer(r, control), !.observed = o]
    <2>1. run[r] \in Runner!Job
      BY DEF RunnerInv, Runner!TypeOK
    <2>2. o \in Nat /\ (run[r].observed > 0 => o > 0)
          /\ (Runner!CanEnterPayer(r, control) =>
                o > 0 /\ run[r].observed = 0 /\ run[r].mode = "pay_once")
      BY <2>1 DEF Runner!Job, Runner!CanEnterPayer
    <2>3. Runner!Steps(r) - 1 \in Nat \cup {Runner!Unset}
      <3>1. Runner!Steps(r) \in Nat
        BY <2>1 DEF Runner!Steps, Runner!Job, Runner!BoundsAssumption
      <3> QED BY <1>3, <3>1
    <2>4. Runner!CanEnterPayer(r, control) \in BOOLEAN
      BY DEF Runner!CanEnterPayer
    <2>5. run' = [run EXCEPT ![r] = new]
      BY <1>1, <1>3
    <2> HIDE DEF o
    <2>6. /\ new \in Runner!Job /\ new.step = "advance" /\ new.generation = run[r].generation
          /\ new.mode = run[r].mode /\ new.entered = run[r].entered
          /\ new.observed = o /\ (new.payer <=> Runner!CanEnterPayer(r, control))
      BY <2>1, <2>2, <2>3, <2>4 DEF Runner!Job
    <2> HIDE DEF new
    <2>7. /\ run' \in [Runners -> Runner!Job] /\ run'[r] = new
          /\ \A s \in Runners : s # r => run'[s] = run[s]
      BY <2>5, <2>6 DEF RunnerInv, Runner!TypeOK
    <2>8. run[r].step = "read"
      BY DEF Runner!Decide
    <2>9. UNCHANGED <<activePlans, epoch, pausing, flying, session>>
      BY DEF Runner!Decide
    <2>10. Runner!TypeOK'
      BY <2>7, <2>9 DEF RunnerInv, Runner!TypeOK
    <2>11. OneRun'
      BY <2>6, <2>7, <2>8, <2>9 DEF RunnerInv, OneRun
    <2>12. Runner!OverMeansSettled' /\ Runner!OneOperation'
      <3>1. \A p \in flying : p.runner \in Runners /\ p.runner # r
        BY <2>8 DEF RunnerInv, Runner!TypeOK, Runner!Operation, Runner!OverMeansSettled
      <3> QED BY <3>1, <2>7, <2>9 DEF RunnerInv, Runner!OverMeansSettled, Runner!OneOperation
    <2>13. RunPaused'
      BY <2>6, <2>7, <2>8, <2>9 DEF RunnerInv, RunPaused
    <2>14. PayerPending'
      BY <2>1, <2>2, <2>6, <2>7 DEF RunnerInv, PayerPending, Runner!Job
    <2> QED BY <2>10, <2>11, <2>12, <2>13, <2>14 DEF RunnerInv
  <1> QED BY <1>1, <1>2, <1>3

\* Admitting the work keeps it.
LEMMA AdmitInv ==
  ASSUME RunnerInv, NEW r \in Runners, Runner!Admit(r)
  PROVE  RunnerInv'
  <1> DEFINE e == IF run[r].payer THEN run[r].entered + 1 ELSE run[r].entered
             new == [run[r] EXCEPT !.step = "admitted", !.entered = e]
  <1>1. run[r] \in Runner!Job /\ run[r].step = "before"
    BY DEF RunnerInv, Runner!TypeOK, Runner!Admit
  <1>2. e \in Nat
    BY <1>1 DEF Runner!Job
  <1>3. run' = [run EXCEPT ![r] = new]
    BY DEF Runner!Admit
  <1>4. /\ new \in Runner!Job /\ new.step = "admitted" /\ new.generation = run[r].generation
        /\ new.mode = run[r].mode /\ new.observed = run[r].observed /\ new.entered = e
    BY <1>1, <1>2 DEF Runner!Job
  <1>5. e \in {0, 1} /\ (e = 1 => run[r].mode = "pay_once" /\ run[r].observed > 0)
    BY <1>1 DEF RunnerInv, PayerPending
  <1> HIDE DEF new, e
  <1>6. /\ run' \in [Runners -> Runner!Job] /\ run'[r] = new
        /\ \A s \in Runners : s # r => run'[s] = run[s]
    BY <1>3, <1>4 DEF RunnerInv, Runner!TypeOK
  <1>7. flying = {}
    BY <1>1 DEF RunnerInv, Runner!TypeOK, Runner!Operation, Runner!OverMeansSettled, OneRun
  <1>8. /\ flying' = {[runner |-> r, payer |-> run[r].payer]}
        /\ UNCHANGED <<activePlans, epoch, pausing, session>>
    BY <1>7 DEF Runner!Admit
  <1>9. [runner |-> r, payer |-> run[r].payer] \in Runner!Operation
    BY <1>1 DEF Runner!Operation, Runner!Job
  <1>10. Runner!TypeOK'
    BY <1>6, <1>8, <1>9 DEF RunnerInv, Runner!TypeOK
  <1>11. OneRun'
    BY <1>1, <1>4, <1>6, <1>8 DEF RunnerInv, OneRun
  <1>12. Runner!OverMeansSettled' /\ Runner!OneOperation'
    BY <1>4, <1>6, <1>8 DEF Runner!OverMeansSettled, Runner!OneOperation
  <1>13. RunPaused'
    BY <1>1, <1>4, <1>6, <1>8 DEF RunnerInv, RunPaused
  <1>14. PayerPending'
    BY <1>4, <1>5, <1>6 DEF RunnerInv, PayerPending
  <1> QED BY <1>10, <1>11, <1>12, <1>13, <1>14 DEF RunnerInv

\* A call that settles keeps it.
LEMMA SettlesInv ==
  ASSUME RunnerInv, NEW r \in Runners, Runner!Settles(r)
  PROVE  RunnerInv'
  <1>1. run[r].step = "admitted" /\ Runner!Goto(r, "answered")
    BY DEF Runner!Settles
  <1>2. Runner!TypeOK'
    BY <1>1, GotoStep DEF RunnerInv, Runner!TypeOK, Runner!Settles
  <1>3. OneRun'
    BY <1>1, GotoStep DEF RunnerInv, OneRun, Runner!Settles
  <1>4. Runner!OverMeansSettled' /\ Runner!OneOperation'
    BY <1>1, GotoStep
    DEF RunnerInv, Runner!TypeOK, Runner!Operation, Runner!OverMeansSettled, Runner!OneOperation,
        Runner!Settles
  <1>5. RunPaused'
    BY <1>1, GotoStep DEF RunnerInv, RunPaused, Runner!Settles
  <1>6. PayerPending'
    BY <1>1, GotoStep DEF RunnerInv, PayerPending
  <1> QED BY <1>2, <1>3, <1>4, <1>5, <1>6 DEF RunnerInv

\* An answer that arrives keeps it.
LEMMA AnsweredInv ==
  ASSUME RunnerInv, NEW r \in Runners, Runner!Answered(r)
  PROVE  RunnerInv'
  <1>1. run[r] \in Runner!Job /\ run[r].step = "answered" /\ run[r].generation = epoch[r]
    BY DEF RunnerInv, Runner!TypeOK, Runner!Answered, Runner!Current, Runner!SessionCurrent
  <1>2. UNCHANGED <<activePlans, epoch, pausing, flying, session>>
    BY DEF Runner!Answered
  <1>3. CASE Runner!Goto(r, "top") \/ Runner!Goto(r, "ended")
    BY <1>1, <1>2, <1>3, GoesOn
  <1>4. CASE run' = [run EXCEPT ![r].pending = @ + 1,
               ![r].step = IF run[r].pending + 1 >= Attempts THEN "ended" ELSE "waiting"]
    <2> DEFINE step == IF run[r].pending + 1 >= Attempts THEN "ended" ELSE "waiting"
               new == [run[r] EXCEPT !.pending = run[r].pending + 1, !.step = step]
    <2>1. run' = [run EXCEPT ![r] = new]
      BY <1>4
    <2>2. step \in {"ended", "waiting"}
      OBVIOUS
    <2> HIDE DEF step
    <2>3. /\ new.step = step
          /\ new.generation = run[r].generation /\ new.mode = run[r].mode
          /\ new.observed = run[r].observed /\ new.entered = run[r].entered
      BY <1>1 DEF Runner!Job
    <2>4. new \in Runner!Job
      <3>1. run[r].pending + 1 \in Nat
        BY <1>1 DEF Runner!Job
      <3>2. CASE step = "ended"
        BY <1>1, <3>1, <3>2 DEF Runner!Job
      <3>3. CASE step = "waiting"
        BY <1>1, <3>1, <3>3 DEF Runner!Job
      <3> QED BY <2>2, <3>2, <3>3
    <2> HIDE DEF new
    <2>5. /\ run' \in [Runners -> Runner!Job] /\ run'[r] = new
          /\ \A s \in Runners : s # r => run'[s] = run[s]
      BY <2>1, <2>4 DEF RunnerInv, Runner!TypeOK
    <2>6. Runner!TypeOK'
      BY <2>5, <1>2 DEF RunnerInv, Runner!TypeOK
    <2>7. OneRun'
      BY <1>1, <1>2, <2>2, <2>3, <2>5 DEF RunnerInv, OneRun
    <2>8. Runner!OverMeansSettled' /\ Runner!OneOperation'
      <3>1. \A p \in flying : p.runner \in Runners /\ p.runner # r
        BY <1>1 DEF RunnerInv, Runner!TypeOK, Runner!Operation, Runner!OverMeansSettled
      <3> QED BY <3>1, <2>5, <1>2 DEF RunnerInv, Runner!OverMeansSettled, Runner!OneOperation
    <2>9. RunPaused'
      BY <1>1, <1>2, <2>2, <2>3, <2>5 DEF RunnerInv, RunPaused
    <2>10. PayerPending'
      BY <2>2, <2>3, <2>5 DEF RunnerInv, PayerPending
    <2> QED BY <2>6, <2>7, <2>8, <2>9, <2>10 DEF RunnerInv
  <1> QED BY <1>3, <1>4 DEF Runner!Answered

\* The end of a wait keeps it.
LEMMA WaitEndsInv ==
  ASSUME RunnerInv, NEW r \in Runners, Runner!WaitEnds(r)
  PROVE  RunnerInv'
  BY GoesOn DEF Runner!WaitEnds

\* The end of a pass keeps it.
LEMMA RunnerFinally ==
  ASSUME RunnerInv, NEW r \in Runners, Runner!Finally(r)
  PROVE  RunnerInv'
  <1>1. /\ run[r].step = "ended"
        /\ run' = [run EXCEPT ![r] = Runner!Idle]
        /\ ~activePlans'
        /\ pausing' = [pausing EXCEPT ![r] = FALSE]
        /\ UNCHANGED <<epoch, flying, session>>
    BY DEF Runner!Finally
  <1>2. /\ run' \in [Runners -> Runner!Job] /\ run'[r] = Runner!Idle
        /\ \A s \in Runners : s # r => run'[s] = run[s]
    BY <1>1, IdleType DEF RunnerInv, Runner!TypeOK
  <1>3. Runner!Idle.step = "idle" /\ Runner!Idle.generation = 0 /\ Runner!Idle.entered = 0
    BY DEF Runner!Idle
  <1>4. Runner!TypeOK'
    BY <1>1, <1>2 DEF RunnerInv, Runner!TypeOK, Runner!Finally
  <1>5. OneRun'
    BY <1>1, <1>2, <1>3 DEF RunnerInv, OneRun
  <1>6. Runner!OverMeansSettled' /\ Runner!OneOperation'
    BY <1>1, <1>2
    DEF RunnerInv, Runner!TypeOK, Runner!Operation, Runner!OverMeansSettled, Runner!OneOperation
  <1>7. RunPaused'
    BY <1>1, <1>2, <1>3 DEF RunnerInv, Runner!TypeOK, RunPaused
  <1>8. PayerPending'
    BY <1>2, <1>3 DEF RunnerInv, PayerPending, Runner!Idle
  <1> QED BY <1>4, <1>5, <1>6, <1>7, <1>8 DEF RunnerInv

\* A pause keeps it.
LEMMA PauseInv ==
  ASSUME Runner!BoundsAssumption, RunnerInv, NEW r \in Runners, Runner!Pause(r)
  PROVE  RunnerInv'
  <1>1. /\ epoch[r] < MaxRuns
        /\ epoch' = [epoch EXCEPT ![r] = epoch[r] + 1]
        /\ pausing' = [pausing EXCEPT ![r] = (run[r].step # "idle")]
        /\ UNCHANGED <<activePlans, flying, session>>
    BY DEF Runner!Pause
  <1>2. /\ run' \in [Runners -> Runner!Job]
        /\ \A s \in Runners :
             /\ run'[s].step = IF s = r /\ run[r].step = "waiting" THEN "ended" ELSE run[s].step
             /\ run'[s].generation = run[s].generation
             /\ run'[s].mode = run[s].mode /\ run'[s].observed = run[s].observed
             /\ run'[s].payer = run[s].payer /\ run'[s].entered = run[s].entered
    <2>1. CASE run[r].step = "waiting"
      <3>1. Runner!Goto(r, "ended")
        BY <2>1 DEF Runner!Pause
      <3> QED BY <2>1, <3>1, GotoStep DEF RunnerInv, Runner!TypeOK
    <2>2. CASE run[r].step # "waiting"
      BY <2>2 DEF Runner!Pause, RunnerInv, Runner!TypeOK
    <2> QED BY <2>1, <2>2
  <1>3. Runner!TypeOK'
    <2>1. epoch' \in [Runners -> 0 .. MaxRuns]
      BY <1>1 DEF RunnerInv, Runner!TypeOK, Runner!BoundsAssumption
    <2>2. pausing' \in [Runners -> BOOLEAN]
      <3>1. (run[r].step # "idle") \in BOOLEAN
        OBVIOUS
      <3> QED BY <1>1, <3>1, Zenon DEF RunnerInv, Runner!TypeOK
    <2> QED BY <1>1, <1>2, <2>1, <2>2 DEF RunnerInv, Runner!TypeOK
  <1>4. OneRun'
    BY <1>1, <1>2 DEF RunnerInv, OneRun
  <1>5. Runner!OverMeansSettled' /\ Runner!OneOperation'
    BY <1>1, <1>2
    DEF RunnerInv, Runner!TypeOK, Runner!Operation, Runner!OverMeansSettled, Runner!OneOperation
  <1>6. RunPaused'
    <2>1. \A s \in Runners : run[s].generation \in Nat /\ epoch[s] \in Nat
      BY DEF RunnerInv, Runner!TypeOK, Runner!Job
    <2> QED BY <1>1, <1>2, <2>1 DEF RunnerInv, Runner!TypeOK, RunPaused
  <1>7. PayerPending'
    BY <1>2 DEF RunnerInv, PayerPending
  <1> QED BY <1>3, <1>4, <1>5, <1>6, <1>7 DEF RunnerInv

\* The clock, the session and stuttering touch nothing the invariant speaks of.
LEMMA AroundInv ==
  ASSUME RunnerInv, Runner!SessionChanges \/ Runner!Tick \/ UNCHANGED Runner!vars
  PROVE  RunnerInv'
  <1>1. CASE Runner!Tick
    <2>1. \A r \in Runners : run[r] \in Runner!Job
      BY DEF RunnerInv, Runner!TypeOK
    <2>2. /\ run' \in [Runners -> Runner!Job]
          /\ \A s \in Runners :
               /\ run'[s].step = run[s].step /\ run'[s].generation = run[s].generation
               /\ run'[s].mode = run[s].mode /\ run'[s].observed = run[s].observed
               /\ run'[s].payer = run[s].payer /\ run'[s].entered = run[s].entered
      BY <1>1, <2>1 DEF Runner!Tick, Runner!Job
    <2>3. UNCHANGED <<activePlans, epoch, pausing, flying, session>>
      BY <1>1 DEF Runner!Tick
    <2>4. Runner!TypeOK' /\ OneRun' /\ RunPaused' /\ PayerPending'
      BY <2>2, <2>3 DEF RunnerInv, Runner!TypeOK, OneRun, RunPaused, PayerPending
    <2>5. Runner!OverMeansSettled' /\ Runner!OneOperation'
      BY <2>2, <2>3
      DEF RunnerInv, Runner!TypeOK, Runner!Operation, Runner!OverMeansSettled, Runner!OneOperation
    <2> QED BY <2>4, <2>5 DEF RunnerInv
  <1>2. CASE Runner!SessionChanges \/ UNCHANGED Runner!vars
    <2>1. UNCHANGED <<run, activePlans, epoch, pausing, flying>>
      BY <1>2 DEF Runner!SessionChanges, Runner!vars
    <2>2. Runner!TypeOK'
      BY <1>2, <2>1 DEF Runner!SessionChanges, Runner!vars, RunnerInv, Runner!TypeOK
    <2>3. OneRun' /\ Runner!OverMeansSettled' /\ Runner!OneOperation'
      BY <2>1 DEF RunnerInv, OneRun, Runner!OverMeansSettled, Runner!OneOperation
    <2>4. RunPaused' /\ PayerPending'
      BY <2>1 DEF RunnerInv, RunPaused, PayerPending
    <2> QED BY <2>2, <2>3, <2>4 DEF RunnerInv
  <1> QED BY <1>1, <1>2

\* Every step keeps the invariant.
LEMMA RunnerNext ==
  ASSUME Runner!BoundsAssumption, RunnerInv, [Runner!Next]_(Runner!vars)
  PROVE  RunnerInv'
  BY RunInv, MovesInv, DecideInv, AdmitInv, SettlesInv, AnsweredInv, WaitEndsInv, RunnerFinally,
     PauseInv, AroundInv DEF Runner!Next, Runner!Execute

\* The invariant holds in every reachable state.
LEMMA RunnerInvariance == ASSUME Runner!BoundsAssumption PROVE Runner!Spec => []RunnerInv
  <1>1. Runner!Init => RunnerInv
    BY RunnerInit
  <1>2. RunnerInv /\ [Runner!Next]_(Runner!vars) => RunnerInv'
    BY RunnerNext
  <1> QED BY <1>1, <1>2, PTL DEF Runner!Spec

-----------------------------------------------------------------------------
(* The theorems of the runner.                                             *)

\* The runs, the epochs and what is in flight keep the types the code gives them.
THEOREM RunnerTypes ==
  ASSUME Runner!BoundsAssumption PROVE Runner!Spec => []Runner!TypeOK
  <1>1. RunnerInv => Runner!TypeOK
    BY DEF RunnerInv
  <1> QED BY <1>1, RunnerInvariance, PTL

\* Of all the runners a page mounts for a plan, one has an operation at the
\* provider at a time (createCheckoutSparkSettledShopperRunner, activePlans).
THEOREM AtMostOneInFlight ==
  ASSUME Runner!BoundsAssumption PROVE Runner!Spec => []Runner!OneOperation
  <1>1. RunnerInv => Runner!OneOperation
    BY DEF RunnerInv
  <1> QED BY <1>1, RunnerInvariance, PTL

\* A run that is over left nothing in flight, so that a pause that returned did not
\* (execute's finally, pause).
THEOREM NothingLeftInFlight ==
  ASSUME Runner!BoundsAssumption PROVE Runner!Spec => []Runner!OverMeansSettled
  <1>1. RunnerInv => Runner!OverMeansSettled
    BY DEF RunnerInv
  <1> QED BY <1>1, RunnerInvariance, PTL

\* A paused run does not sleep (pause, waitUnlessPaused).
THEOREM PauseNeverSleeps ==
  ASSUME Runner!BoundsAssumption PROVE Runner!Spec => []Runner!PauseWakes
  <1>1. RunnerInv => Runner!PauseWakes
    BY DEF RunnerInv, RunPaused, Runner!PauseWakes
  <1> QED BY <1>1, RunnerInvariance, PTL

-----------------------------------------------------------------------------
(* Whichever loop moves: the runner.                                       *)

LEMMA RunnerRuns == PageSpec => Runner!Spec
  <1>1. PageInit => Runner!Init
    BY DEF PageInit
  <1>2. [PageNext]_pageVars => [Runner!Next]_(Runner!vars)
    BY DEF PageNext, pageVars, SchedulerPart, OutboxPart, RunnerPart, FundingPart, runnerVars,
       Runner!vars
  <1> QED BY <1>1, <1>2, PTL DEF PageSpec, Runner!Spec

\* All that is said of what is in flight (createCheckoutSparkSettledShopperRunner).
THEOREM InFlightIsSafe == PageSpec => []InFlightSafe
  <1>1. /\ Runner!TypeOK /\ Runner!OneOperation
        /\ Runner!OverMeansSettled /\ Runner!PauseWakes
        => InFlightSafe
    BY DEF InFlightSafe, Runner!InFlightSafe
  <1>2. /\ Runner!Spec => []Runner!TypeOK
        /\ Runner!Spec => []Runner!OneOperation
        /\ Runner!Spec => []Runner!OverMeansSettled
        /\ Runner!Spec => []Runner!PauseWakes
    BY RunnerAssumption, RunnerTypes, AtMostOneInFlight, NothingLeftInFlight,
       PauseNeverSleeps
  <1> QED BY <1>1, <1>2, RunnerRuns, PTL

\* The funding payer is entered at most once per approval, and never by a run that
\* only inspects (execute, payFunding).
THEOREM PayerEnteredOnce == PageSpec => []PayerOnce
  <1>1. RunnerInv => PayerOnce
    BY DEF RunnerInv, Runner!TypeOK, PayerPending, Runner!PayerOnce, PayerOnce
  <1>2. Runner!Spec => []RunnerInv
    BY RunnerAssumption, RunnerInvariance
  <1> QED BY <1>1, <1>2, RunnerRuns, PTL

-----------------------------------------------------------------------------
(* The funding: its inductive invariant.                                   *)

\* One run holds the lock, between them all tabs.
OneBridge ==
  \A t, u \in Tabs : bridge[t].step # "idle" /\ bridge[u].step # "idle" => t = u

\* What the storage says of what was put up for payment.
Reservation ==
  /\ preparation.exposed => preparation.state = "provisional" /\ payments = 0
  /\ disclosed => preparation.exposed
  /\ payments > 0 => preparation.state = "provisional"

\* Where the storage stands while a run is at a step, which no other tab changes.
Unsent == ~preparation.exposed /\ payments = 0
AtStep(step) ==
  /\ step = "reserving" => preparation.state = "not_started" /\ Unsent
  /\ step \in {"reserved", "refused"} => preparation.state = "provisional" /\ Unsent
  /\ step = "sent" => preparation.state = "provisional" /\ payments = 1
  /\ step = "showing" => payments = 0
StepsFit == \A t \in Tabs : AtStep(bridge[t].step)

FundingInv ==
  /\ Funding!TypeOK /\ OneBridge /\ Reservation /\ StepsFit
  /\ Funding!PaidByOneWallet

\* What a run's step does to the others: nothing, they are idle.
LEMMA BridgeMoves ==
  ASSUME FundingInv, NEW t \in Tabs, bridge[t].step # "idle",
         Funding!Ends(t) \/ (\E step \in {"attesting", "showing", "disclosing", "reserving",
                                          "reserved", "refused", "sent"} : Funding!Goto(t, step))
  PROVE  /\ bridge' \in [Tabs -> Funding!Bridge] /\ OneBridge'
         /\ \A u \in Tabs : u # t => bridge'[u].step = "idle"
  <1>1. \A u \in Tabs : bridge[u] \in Funding!Bridge /\ (u # t => bridge[u].step = "idle")
    BY DEF FundingInv, OneBridge, Funding!TypeOK
  <1>2. bridge \in [Tabs -> Funding!Bridge] /\ Funding!AtRest \in Funding!Bridge
    BY DEF FundingInv, Funding!TypeOK, Funding!AtRest, Funding!Bridge
  <1>3. CASE Funding!Ends(t)
    BY <1>1, <1>2, <1>3 DEF Funding!Ends, OneBridge
  <1>4. CASE \E step \in {"attesting", "showing", "disclosing", "reserving",
                          "reserved", "refused", "sent"} : Funding!Goto(t, step)
    <2>1. PICK step \in {"attesting", "showing", "disclosing", "reserving",
                         "reserved", "refused", "sent"} : Funding!Goto(t, step)
      BY <1>4
    <2>2. [bridge[t] EXCEPT !.step = step] \in Funding!Bridge
      BY <1>1, <2>1 DEF Funding!Bridge
    <2>3. bridge' = [bridge EXCEPT ![t] = [bridge[t] EXCEPT !.step = step]]
      BY <2>1 DEF Funding!Goto
    <2>4. bridge' \in [Tabs -> Funding!Bridge] /\ \A u \in Tabs : u # t => bridge'[u] = bridge[u]
      BY <1>2, <2>2, <2>3
    <2> QED BY <1>1, <2>4 DEF OneBridge
  <1> QED BY <1>3, <1>4

\* The funding starts with nothing put up for payment.
LEMMA FundingInit == ASSUME Funding!FundingBoundsAssumption, Funding!Init PROVE FundingInv
  <1>1. Funding!AtRest \in Funding!Bridge /\ Funding!AtRest.step = "idle"
    BY DEF Funding!AtRest, Funding!Bridge
  <1>2. bridge \in [Tabs -> Funding!Bridge] /\ \A t \in Tabs : bridge[t].step = "idle"
    BY <1>1 DEF Funding!Init
  <1>3. Funding!TypeOK
    <2>1. preparation \in Funding!Preparation /\ payments \in 0 .. MaxPayments
      BY DEF Funding!Init, Funding!Preparation, Funding!FundingBoundsAssumption
    <2>2. /\ disclosed \in BOOLEAN /\ received \in BOOLEAN /\ credit \in BOOLEAN
          /\ expired \in BOOLEAN
      BY Zenon DEF Funding!Init
    <2> QED BY <1>2, <2>1, <2>2 DEF Funding!TypeOK
  <1>4. OneBridge /\ StepsFit
    BY <1>2 DEF OneBridge, StepsFit, AtStep
  <1>5. Reservation /\ Funding!PaidByOneWallet
    BY DEF Funding!Init, Reservation, Funding!PaidByOneWallet
  <1> QED BY <1>3, <1>4, <1>5 DEF FundingInv

\* A run starts only when none is there.
LEMMA FundKeeps == ASSUME FundingInv, NEW t \in Tabs, Funding!Fund(t) PROVE FundingInv'
  <1>1. PICK mode \in {"pay", "show", "look"} :
          bridge' = [bridge EXCEPT ![t] = [step |-> "loading", mode |-> mode, seen |-> FALSE]]
    BY DEF Funding!Fund
  <1>2. [step |-> "loading", mode |-> mode, seen |-> FALSE] \in Funding!Bridge
    BY DEF Funding!Bridge
  <1>3. /\ bridge' \in [Tabs -> Funding!Bridge] /\ bridge'[t].step = "loading"
        /\ \A u \in Tabs : u # t => bridge'[u].step = "idle"
    BY <1>1, <1>2 DEF FundingInv, Funding!TypeOK, Funding!Fund
  <1>4. UNCHANGED <<preparation, payments, disclosed, received, credit, expired>>
    BY DEF Funding!Fund
  <1>5. Funding!TypeOK' /\ Reservation' /\ Funding!PaidByOneWallet'
    BY <1>3, <1>4 DEF FundingInv, Funding!TypeOK, Reservation, Funding!PaidByOneWallet
  <1>6. OneBridge' /\ StepsFit'
    BY <1>3 DEF OneBridge, StepsFit, AtStep
  <1> QED BY <1>5, <1>6 DEF FundingInv

\* A step of a run that writes nothing, and comes to one where nothing more is known.
LEMMA WritesNothing ==
  ASSUME FundingInv, NEW t \in Tabs, bridge'[t].step \in {"idle", "attesting"},
         bridge' \in [Tabs -> Funding!Bridge], OneBridge',
         \A u \in Tabs : u # t => bridge'[u].step = "idle",
         credit' \in BOOLEAN,
         UNCHANGED <<preparation, payments, disclosed, received, expired>>
  PROVE  FundingInv'
  <1>1. Funding!TypeOK' /\ Reservation' /\ Funding!PaidByOneWallet'
    BY DEF FundingInv, Funding!TypeOK, Reservation, Funding!PaidByOneWallet
  <1>2. StepsFit'
    BY DEF StepsFit, AtStep
  <1> QED BY <1>1, <1>2 DEF FundingInv

\* The end of a run, whatever it came from, unless it takes its reservation back.
LEMMA EndKeeps ==
  ASSUME FundingInv, NEW t \in Tabs,
         Funding!Credited(t) \/ Funding!Answer(t) \/ Funding!Fails(t)
  PROVE  FundingInv'
  <1>1. Funding!Ends(t) /\ bridge[t].step # "idle"
    BY DEF Funding!Credited, Funding!Answer, Funding!Fails
  <1>2. UNCHANGED <<preparation, payments, disclosed, received, expired>>
    BY DEF Funding!Credited, Funding!Answer, Funding!Fails
  <1>3. credit' \in BOOLEAN
    BY DEF Funding!Credited, Funding!Answer, Funding!Fails, FundingInv, Funding!TypeOK
  <1>4. bridge'[t].step = "idle"
    BY <1>1 DEF Funding!Ends, Funding!AtRest, FundingInv, Funding!TypeOK
  <1> QED BY <1>1, <1>2, <1>3, <1>4, BridgeMoves, WritesNothing

\* The snapshot is read.
LEMMA LoadKeeps == ASSUME FundingInv, NEW t \in Tabs, Funding!Load(t) PROVE FundingInv'
  <1>1. bridge[t].step = "loading" /\ bridge[t] \in Funding!Bridge /\ credit \in BOOLEAN
    BY DEF Funding!Load, FundingInv, Funding!TypeOK
  <1>2. [bridge[t] EXCEPT !.step = "attesting", !.seen = credit] \in Funding!Bridge
    BY <1>1 DEF Funding!Bridge
  <1>3. bridge' = [bridge EXCEPT ![t] = [bridge[t] EXCEPT !.step = "attesting", !.seen = credit]]
    BY DEF Funding!Load
  <1>4. /\ bridge' \in [Tabs -> Funding!Bridge]
        /\ \A u \in Tabs : u # t => bridge'[u] = bridge[u]
        /\ bridge'[t] = [bridge[t] EXCEPT !.step = "attesting", !.seen = credit]
    BY <1>2, <1>3 DEF FundingInv, Funding!TypeOK
  <1>5. bridge'[t].step = "attesting"
    BY <1>1, <1>4 DEF Funding!Bridge
  <1>6. \A u \in Tabs : u # t => bridge'[u].step = "idle"
    BY <1>1, <1>4 DEF FundingInv, OneBridge
  <1>7. OneBridge'
    BY <1>6 DEF OneBridge
  <1>8. credit' \in BOOLEAN /\ UNCHANGED <<preparation, payments, disclosed, received, expired>>
    BY <1>1 DEF Funding!Load
  <1> QED BY <1>4, <1>5, <1>6, <1>7, <1>8, WritesNothing

\* What a step leaves at a tab that goes on.
LEMMA GoesTo ==
  ASSUME FundingInv, NEW t \in Tabs,
         NEW step \in {"attesting", "showing", "disclosing", "reserving", "reserved",
                       "refused", "sent"},
         Funding!Goto(t, step)
  PROVE  bridge'[t].step = step
  <1>1. bridge[t] \in Funding!Bridge /\ bridge \in [Tabs -> Funding!Bridge]
    BY DEF FundingInv, Funding!TypeOK
  <1>2. [bridge[t] EXCEPT !.step = step].step = step
    BY <1>1 DEF Funding!Bridge
  <1> QED BY <1>1, <1>2 DEF Funding!Goto

\* What is recorded, submitted, merely looked at or expired goes no further.
LEMMA NotCreditedKeeps ==
  ASSUME FundingInv, NEW t \in Tabs, Funding!NotCredited(t) PROVE FundingInv'
  <1>1. /\ bridge[t].step = "attesting"
        /\ UNCHANGED <<preparation, payments, disclosed, received, credit, expired>>
    BY DEF Funding!NotCredited
  <1>2. CASE Funding!Ends(t)
    <2>1. bridge'[t].step = "idle"
      BY <1>2 DEF Funding!Ends, Funding!AtRest, FundingInv, Funding!TypeOK
    <2>2. credit' \in BOOLEAN
      BY <1>1 DEF FundingInv, Funding!TypeOK
    <2> QED BY <1>1, <1>2, <2>1, <2>2, BridgeMoves, WritesNothing
  <1>3. CASE ~Funding!Ends(t)
    <2>1. /\ ~Funding!Submitted
          /\ \/ Funding!Goto(t, "showing")
             \/ Funding!Goto(t, "reserving") /\ preparation.state # "provisional"
      BY <1>3 DEF Funding!NotCredited
    <2>2. /\ bridge' \in [Tabs -> Funding!Bridge] /\ OneBridge'
          /\ \A u \in Tabs : u # t => bridge'[u].step = "idle"
      BY <1>1, <2>1, BridgeMoves
    <2>3. \/ bridge'[t].step = "showing"
          \/ bridge'[t].step = "reserving" /\ preparation.state # "provisional"
      BY <2>1, GoesTo
    <2>4. payments = 0 /\ (preparation.state # "provisional" => ~preparation.exposed)
      BY <2>1 DEF Funding!Submitted, FundingInv, Reservation, Funding!TypeOK
    <2>5. preparation.state # "provisional" => preparation.state = "not_started"
      BY DEF FundingInv, Funding!TypeOK, Funding!Preparation
    <2>6. StepsFit'
      BY <1>1, <2>2, <2>3, <2>4, <2>5 DEF StepsFit, AtStep, Unsent
    <2>7. Funding!TypeOK' /\ Reservation' /\ Funding!PaidByOneWallet'
      BY <1>1, <2>2 DEF FundingInv, Funding!TypeOK, Reservation, Funding!PaidByOneWallet
    <2> QED BY <2>2, <2>6, <2>7 DEF FundingInv
  <1> QED BY <1>2, <1>3

\* The reservation for an invoice that will be shown: no wallet was called.
LEMMA ExposeKeeps == ASSUME FundingInv, NEW t \in Tabs, Funding!Expose(t) PROVE FundingInv'
  <1>1. /\ bridge[t].step = "showing" /\ Funding!Goto(t, "disclosing")
        /\ preparation' = [state |-> "provisional", exposed |-> TRUE]
        /\ UNCHANGED <<payments, disclosed, received, credit, expired>>
    BY DEF Funding!Expose
  <1>2. /\ bridge' \in [Tabs -> Funding!Bridge] /\ OneBridge'
        /\ \A u \in Tabs : u # t => bridge'[u].step = "idle"
        /\ bridge'[t].step = "disclosing"
    BY <1>1, BridgeMoves, GoesTo
  <1>3. payments = 0
    BY <1>1 DEF FundingInv, StepsFit, AtStep
  <1>4. Funding!TypeOK'
    BY <1>1, <1>2 DEF FundingInv, Funding!TypeOK, Funding!Preparation
  <1>5. Reservation' /\ Funding!PaidByOneWallet'
    BY <1>1, <1>3 DEF Reservation, Funding!PaidByOneWallet
  <1>6. StepsFit'
    BY <1>2 DEF StepsFit, AtStep
  <1> QED BY <1>2, <1>4, <1>5, <1>6 DEF FundingInv

\* What is shown was reserved for it.
LEMMA DiscloseKeeps == ASSUME FundingInv, NEW t \in Tabs, Funding!Disclose(t) PROVE FundingInv'
  <1>1. /\ bridge[t].step = "disclosing" /\ Funding!Ends(t) /\ preparation.exposed
        /\ disclosed' \in BOOLEAN
        /\ UNCHANGED <<preparation, payments, received, credit, expired>>
    BY DEF Funding!Disclose
  <1>2. /\ bridge' \in [Tabs -> Funding!Bridge] /\ OneBridge'
        /\ \A u \in Tabs : u # t => bridge'[u].step = "idle"
    BY <1>1, BridgeMoves
  <1>3. bridge'[t].step = "idle"
    BY <1>1 DEF Funding!Ends, Funding!AtRest, FundingInv, Funding!TypeOK
  <1>4. Funding!TypeOK' /\ Reservation' /\ Funding!PaidByOneWallet'
    BY <1>1, <1>2 DEF FundingInv, Funding!TypeOK, Reservation, Funding!PaidByOneWallet
  <1>5. StepsFit'
    BY <1>2, <1>3 DEF StepsFit, AtStep
  <1> QED BY <1>2, <1>4, <1>5 DEF FundingInv

\* The reservation for a wallet: nothing was shown, no wallet was called.
LEMMA ReserveKeeps == ASSUME FundingInv, NEW t \in Tabs, Funding!Reserve(t) PROVE FundingInv'
  <1>1. /\ bridge[t].step = "reserving" /\ Funding!Goto(t, "reserved")
        /\ preparation' = [preparation EXCEPT !.state = "provisional"]
        /\ UNCHANGED <<payments, disclosed, received, credit, expired>>
    BY DEF Funding!Reserve
  <1>2. /\ bridge' \in [Tabs -> Funding!Bridge] /\ OneBridge'
        /\ \A u \in Tabs : u # t => bridge'[u].step = "idle"
        /\ bridge'[t].step = "reserved"
    BY <1>1, BridgeMoves, GoesTo
  <1>3. preparation \in Funding!Preparation
    BY DEF FundingInv, Funding!TypeOK
  <1>4. /\ preparation' \in Funding!Preparation /\ preparation'.state = "provisional"
        /\ preparation'.exposed = preparation.exposed
    BY <1>1, <1>3 DEF Funding!Preparation
  <1>5. Unsent
    BY <1>1 DEF FundingInv, StepsFit, AtStep
  <1>6. Unsent'
    BY <1>1, <1>4, <1>5 DEF Unsent
  <1>7. Funding!TypeOK'
    BY <1>1, <1>2, <1>4 DEF FundingInv, Funding!TypeOK
  <1>8. Reservation' /\ Funding!PaidByOneWallet'
    BY <1>1, <1>4, <1>5, <1>6 DEF FundingInv, Reservation, Unsent, Funding!PaidByOneWallet
  <1>9. StepsFit'
    BY <1>2, <1>4, <1>6 DEF StepsFit, AtStep
  <1> QED BY <1>2, <1>7, <1>8, <1>9 DEF FundingInv

\* The wallet refused before it published.
LEMMA RefusedKeeps == ASSUME FundingInv, NEW t \in Tabs, Funding!Refused(t) PROVE FundingInv'
  <1>1. /\ bridge[t].step = "reserved" /\ Funding!Goto(t, "refused")
        /\ UNCHANGED <<preparation, payments, disclosed, received, credit, expired>>
    BY DEF Funding!Refused
  <1>2. /\ bridge' \in [Tabs -> Funding!Bridge] /\ OneBridge'
        /\ \A u \in Tabs : u # t => bridge'[u].step = "idle"
        /\ bridge'[t].step = "refused"
    BY <1>1, BridgeMoves, GoesTo
  <1>3. preparation.state = "provisional" /\ Unsent
    BY <1>1 DEF FundingInv, StepsFit, AtStep
  <1>4. StepsFit'
    BY <1>1, <1>2, <1>3 DEF StepsFit, AtStep, Unsent
  <1>5. Funding!TypeOK' /\ Reservation' /\ Funding!PaidByOneWallet'
    BY <1>1, <1>2 DEF FundingInv, Funding!TypeOK, Reservation, Funding!PaidByOneWallet
  <1> QED BY <1>2, <1>4, <1>5 DEF FundingInv

\* The one call of a wallet that publishes.
LEMMA PublishKeeps ==
  ASSUME Funding!FundingBoundsAssumption, FundingInv, NEW t \in Tabs, Funding!Publish(t)
  PROVE  FundingInv'
  <1>1. /\ bridge[t].step = "reserved" /\ Funding!Goto(t, "sent")
        /\ payments < MaxPayments /\ payments' = payments + 1
        /\ UNCHANGED <<preparation, disclosed, received, credit, expired>>
    BY DEF Funding!Publish
  <1>2. /\ bridge' \in [Tabs -> Funding!Bridge] /\ OneBridge'
        /\ \A u \in Tabs : u # t => bridge'[u].step = "idle"
        /\ bridge'[t].step = "sent"
    BY <1>1, BridgeMoves, GoesTo
  <1>3. preparation.state = "provisional" /\ ~preparation.exposed /\ payments = 0
    BY <1>1 DEF FundingInv, StepsFit, AtStep, Unsent
  <1>4. payments' \in 0 .. MaxPayments /\ payments' = 1
    BY <1>1, <1>3 DEF Funding!FundingBoundsAssumption
  <1>5. Funding!TypeOK'
    BY <1>1, <1>2, <1>4 DEF FundingInv, Funding!TypeOK
  <1>6. Reservation' /\ Funding!PaidByOneWallet'
    BY <1>1, <1>3, <1>4 DEF FundingInv, Reservation, Funding!PaidByOneWallet
  <1>7. StepsFit'
    BY <1>1, <1>2, <1>3, <1>4 DEF StepsFit, AtStep
  <1> QED BY <1>2, <1>5, <1>6, <1>7 DEF FundingInv

\* A reservation is taken back when its wallet did not publish.
LEMMA ResetKeeps == ASSUME FundingInv, NEW t \in Tabs, Funding!Reset(t) PROVE FundingInv'
  <1>1. /\ bridge[t].step = "refused" /\ Funding!Ends(t)
        /\ preparation' = [preparation EXCEPT !.state = "not_started"]
        /\ UNCHANGED <<payments, disclosed, received, credit, expired>>
    BY DEF Funding!Reset
  <1>2. /\ bridge' \in [Tabs -> Funding!Bridge] /\ OneBridge'
        /\ \A u \in Tabs : u # t => bridge'[u].step = "idle"
    BY <1>1, BridgeMoves
  <1>3. bridge'[t].step = "idle"
    BY <1>1 DEF Funding!Ends, Funding!AtRest, FundingInv, Funding!TypeOK
  <1>4. preparation \in Funding!Preparation /\ ~preparation.exposed /\ payments = 0
    BY <1>1 DEF FundingInv, Funding!TypeOK, StepsFit, AtStep, Unsent
  <1>5. preparation' \in Funding!Preparation /\ ~preparation'.exposed
    BY <1>1, <1>4 DEF Funding!Preparation
  <1>6. ~disclosed
    BY <1>4 DEF FundingInv, Reservation
  <1>7. Funding!TypeOK'
    BY <1>1, <1>2, <1>5 DEF FundingInv, Funding!TypeOK
  <1>8. Reservation' /\ Funding!PaidByOneWallet'
    BY <1>1, <1>4, <1>5, <1>6 DEF Reservation, Funding!PaidByOneWallet
  <1>9. StepsFit'
    BY <1>2, <1>3 DEF StepsFit, AtStep
  <1> QED BY <1>2, <1>7, <1>8, <1>9 DEF FundingInv

\* Payments that arrive, imports, the clock and stuttering touch nothing of it.
LEMMA FundingAround ==
  ASSUME FundingInv, Funding!Receives \/ Funding!Imports \/ Funding!Expires \/ UNCHANGED Funding!vars
  PROVE  FundingInv'
  <1>1. UNCHANGED <<preparation, bridge, payments, disclosed>>
    BY DEF Funding!Receives, Funding!Imports, Funding!Expires, Funding!vars
  <1>2. received' \in BOOLEAN /\ credit' \in BOOLEAN /\ expired' \in BOOLEAN
    BY DEF Funding!Receives, Funding!Imports, Funding!Expires, Funding!vars, FundingInv,
       Funding!TypeOK
  <1>3. Funding!TypeOK'
    BY <1>1, <1>2 DEF FundingInv, Funding!TypeOK
  <1>4. OneBridge' /\ Reservation' /\ StepsFit' /\ Funding!PaidByOneWallet'
    BY <1>1 DEF FundingInv, OneBridge, Reservation, StepsFit, AtStep, Unsent,
       Funding!PaidByOneWallet
  <1> QED BY <1>3, <1>4 DEF FundingInv

\* Every step keeps the invariant.
LEMMA FundingNext ==
  ASSUME Funding!FundingBoundsAssumption, FundingInv, [Funding!Next]_(Funding!vars)
  PROVE  FundingInv'
  BY FundKeeps, LoadKeeps, EndKeeps, NotCreditedKeeps, ExposeKeeps, DiscloseKeeps, ReserveKeeps,
     RefusedKeeps, PublishKeeps, ResetKeeps, FundingAround DEF Funding!Next

-----------------------------------------------------------------------------
(* Whichever loop moves: the funding.                                      *)

\* The invoice of a checkout is put up for payment once: one wallet's call may have
\* published it or it was shown, never both, and then it stays reserved
\* (createCheckoutSparkSettledFundingBridge, saveCheckoutSparkSettledPreparation).
THEOREM InvoiceUpOnce == PageSpec => []FundedOnce
  <1>1. PageInit => FundingInv
    BY FundingInit, FundingAssumption DEF PageInit
  <1>2. [PageNext]_pageVars => [Funding!Next]_(Funding!vars)
    BY DEF PageNext, pageVars, SchedulerPart, OutboxPart, RunnerPart, FundingPart, fundingVars,
       Funding!vars
  <1>3. FundingInv /\ [Funding!Next]_(Funding!vars) => FundingInv'
    BY FundingNext, FundingAssumption
  <1>4. FundingInv => FundedOnce
    BY DEF FundingInv, Reservation, Funding!TypeOK, Funding!PaidByOneWallet, Funding!OneWay,
       Funding!Reserved, Funding!FundedOnce, FundedOnce
  <1> QED BY <1>1, <1>2, <1>3, <1>4, PTL DEF PageSpec
=============================================================================
