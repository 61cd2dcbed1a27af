------------------------- MODULE ReconciliationWorker -------------------------
(***************************************************************************)
(* The merchant's scheduler (checkout-spark-merchant-reconciliation-       *)
(* worker.ts): it keeps one timer, chooses the checkout that is due        *)
(* longest, runs one reconciliation at a time and comes back to it later.  *)
(* The page (CheckoutSparkRecoveryPanel.tsx) hands it the checkouts the    *)
(* discovery found, pauses it while hidden, and stops and drains it before *)
(* it starts the next one.                                                 *)
(*                                                                         *)
(* All times are relative to now, so that the clock never has to stop: how *)
(* long until an entry is due (negative: overdue), until the timer fires,  *)
(* until a checkout may be taken over.                                     *)
(***************************************************************************)
EXTENDS Integers, Sequences, FiniteSets

CONSTANTS
  Checkouts,        \* checkout ids; numbers, because ties go to the least id
  Versions,         \* signed candidates of one checkout (what identity() tells apart)
  Malformed,        \* versions whose takeoverAt is not a time
  Takeover,         \* how far ahead the takeover of a version is at the start
  ObserveBeforeTakeover,
  MaxCandidates,    \* MAX_CANDIDATES
  StepGap,          \* MIN_STEP_GAP_MS
  MinRetry,         \* MIN_RETRY_MS
  MaxRetry,         \* MAX_RETRY_MS
  MaxRetryCount,    \* retryCount stops here (5 in the code)
  MaxTimerDelay,    \* MAX_TIMER_DELAY_MS
  Late,             \* bound: how far overdue is told, past the order among entries
  MaxListed         \* bound: candidates of one discovery page

ASSUME CheckoutsAssumption == Checkouts \subseteq Nat
ASSUME VersionsAssumption == Malformed \subseteq Versions
ASSUME DelayAssumption ==
  /\ Takeover \in [Versions -> Nat] /\ ObserveBeforeTakeover \in BOOLEAN
  /\ StepGap \in Nat /\ MinRetry \in Nat /\ MaxRetry \in Nat
  /\ MaxRetryCount \in Nat \ {0} /\ MaxTimerDelay \in Nat
ASSUME ListAssumption == MaxCandidates \in Nat /\ MaxListed \in Nat
\* 750 ms, and the longest delay a timer can have.
ASSUME GapAssumption == StepGap <= MaxTimerDelay
\* The bound leaves alone what is not overdue.
ASSUME LateAssumption ==
  Late \in Nat /\ IsFiniteSet(Checkouts) /\ Cardinality(Checkouts) <= Late + 1

VARIABLES
  active,       \* the page is visible
  stop,         \* "no", "draining" (disposed, waits for the work), "drained"
  entries,      \* per checkout its entry, or NoEntry
  running,      \* reconciliations that were started and have not settled
  currentWork,  \* currentWork: "none", "running", or "settled" (its finally is due)
  timer,        \* until the timer fires, or NoTimer
  gap,          \* until lastStartedAt + MIN_STEP_GAP_MS
  until         \* per version, until its takeoverAt

vars == <<active, stop, entries, running, currentWork, timer, gap, until>>

Least(a, b) == IF a <= b THEN a ELSE b
Most(a, b) == IF a >= b THEN a ELSE b

\* The statuses as far as the scheduler tells them apart: verified also stands
\* for retired and recipient_unverified, pending for every other answer.
Terminal == {"verified"}
Statuses == Terminal \cup {"pending", "progress_pending", "unavailable"}

\* held: the running reconciliation was started for this very object.
Entry == [version : Versions, status : Statuses, retry : Nat, due : Int,
          held : BOOLEAN]
NoEntry == [status |-> "none"]
NoTimer == -1

\* moved: the epoch went on since the start.
Job == [checkout : Checkouts, version : Versions, moved : BOOLEAN]

-----------------------------------------------------------------------------
(* The timer.                                                              *)

\* Entries with a finite nextAt.
Waiting(es) ==
  {c \in Checkouts : /\ es[c] # NoEntry
                     /\ es[c].status \notin Terminal
                     /\ es[c].version \notin Malformed}

\* Mutant of Soonest: the least checkout first, however long others are due.
SoonestById(es) == {c \in Waiting(es) : \A d \in Waiting(es) : c <= d}

\* chooseNext.
Soonest(es) ==
  {c \in Waiting(es) : \A d \in Waiting(es) :
     es[c].due < es[d].due \/ (es[c].due = es[d].due /\ c <= d)}

\* queue: with work in flight, paused or disposed the timer stays off.
Queue(es, idle, g) ==
  \/ /\ ~idle \/ Waiting(es) = {}
     /\ timer' = NoTimer
  \/ /\ idle
     /\ \E c \in Soonest(es) : timer' = Least(MaxTimerDelay, Most(g, es[c].due))

Idle == stop = "no" /\ active /\ currentWork = "none"

\* assertCurrent, for the entry a reconciliation was started for.
IsCurrent(job) ==
  /\ stop = "no" /\ active /\ ~job.moved
  /\ entries[job.checkout] # NoEntry
  /\ entries[job.checkout].held

-----------------------------------------------------------------------------
(* One reconciliation.                                                     *)

\* The timer fires.  A clamped timer fires early and is set again.
Fire ==
  /\ timer = 0
  /\ UNCHANGED <<active, stop, until>>
  /\ \/ /\ \A c \in Soonest(entries) : entries[c].due > 0
        /\ Queue(entries, Idle, gap)
        /\ UNCHANGED <<entries, running, currentWork, gap>>
     \/ /\ Idle
        /\ \E c \in Soonest(entries) :
             /\ entries[c].due <= 0
             /\ entries' = [entries EXCEPT ![c].held = TRUE]
             /\ running' = running \cup
                  {[checkout |-> c, version |-> entries[c].version, moved |-> FALSE]}
        /\ currentWork' = "running"
        /\ gap' = StepGap
        /\ timer' = NoTimer

\* What the adapter may say, "other" standing for anything that is no status.
Answers == Statuses \cup {"other"}

\* Anything unknown is unavailable, and so is a throw.
Understood(answer) == IF answer \in Statuses THEN answer ELSE "unavailable"

\* The backoff after the retry-th answer in a row that brought nothing new.
Backoff(retry) == Least(MinRetry * 2 ^ (retry - 1), MaxRetry)

\* Mutant of Rescheduled: the takeover does not bound the retry.
RescheduledByBackoff(e, answer, progress) ==
  LET retry == Least(e.retry + 1, MaxRetryCount)
  IN [e EXCEPT !.status = answer, !.held = FALSE, !.retry = retry,
               !.due = Backoff(retry)]

\* The entry after an answer that is still current.
Rescheduled(e, answer, progress) ==
  LET retry == Least(e.retry + 1, MaxRetryCount)
      takeover == until[e.version]
      checked == [e EXCEPT !.status = answer, !.held = FALSE]
  IN CASE answer \in Terminal -> [checked EXCEPT !.retry = 0]
       [] progress /\ answer = "progress_pending" ->
            [checked EXCEPT !.retry = 0, !.due = Most(takeover, StepGap)]
       [] OTHER ->
            [checked EXCEPT !.retry = retry,
               !.due = IF ObserveBeforeTakeover /\ takeover > 0
                       THEN Least(Backoff(retry), takeover)
                       ELSE Most(takeover, Backoff(retry))]

\* Mutant of Settle: the answer is applied to whatever entry the checkout has now.
SettleAnyway(job) ==
  /\ job \in running
  /\ running' = running \ {job}
  /\ currentWork' = "settled"
  /\ \E answer \in Answers, progress \in BOOLEAN :
       IF stop = "no" /\ active /\ ~job.moved /\ entries[job.checkout] # NoEntry
       THEN entries' = [entries EXCEPT ![job.checkout] = Rescheduled(@, Understood(answer), progress)]
       ELSE UNCHANGED entries
  /\ UNCHANGED <<active, stop, timer, gap, until>>

\* The adapter answered or threw.  What it says of a candidate that is no longer
\* current is dropped.
Settle(job) ==
  /\ job \in running
  /\ running' = running \ {job}
  /\ currentWork' = "settled"
  /\ \E answer \in Answers, progress \in BOOLEAN :
       IF IsCurrent(job)
       THEN entries' = [entries EXCEPT ![job.checkout] = Rescheduled(@, Understood(answer), progress)]
       ELSE UNCHANGED entries
  /\ UNCHANGED <<active, stop, timer, gap, until>>

\* work.finally, a microtask later.
Finally ==
  /\ currentWork = "settled"
  /\ currentWork' = "none"
  /\ IF stop = "no"
     THEN Queue(entries, active, gap)
     ELSE UNCHANGED timer
  /\ UNCHANGED <<active, stop, entries, running, gap, until>>

-----------------------------------------------------------------------------
(* The page.                                                               *)

\* One signed candidate of a discovery page.
Candidate == [checkout : Checkouts, version : Versions]
Listings == UNION {[1 .. n -> Candidate] : n \in 0 .. MaxListed}

\* A checkout listed twice is not reconciled at all, not even if its second
\* candidate is past the cap.
Selected(list, c) ==
  {i \in 1 .. Least(Len(list), MaxCandidates) :
     list[i].checkout = c /\ \A j \in DOMAIN list \ {i} : list[j].checkout # c}

NewEntry(version) ==
  [version |-> version,
   status |-> IF version \in Malformed THEN "unavailable" ELSE "pending",
   retry |-> 0,
   due |-> IF ObserveBeforeTakeover \/ version \in Malformed THEN 0 ELSE until[version],
   held |-> FALSE]

\* The entries a listing leaves: a candidate that did not change keeps its entry.
Replaced(list) ==
  [c \in Checkouts |->
     IF Selected(list, c) = {} THEN NoEntry
     ELSE LET version == list[CHOOSE i \in Selected(list, c) : TRUE].version
          IN IF entries[c] # NoEntry /\ entries[c].version = version
             THEN entries[c] ELSE NewEntry(version)]

\* replaceCandidates, with a page the discovery has read.
ReplaceCandidates(list) ==
  /\ stop = "no"
  /\ entries' = Replaced(list)
  /\ Queue(entries', Idle, gap)
  /\ UNCHANGED <<active, stop, running, currentWork, gap, until>>

Moved == {[job EXCEPT !.moved = TRUE] : job \in running}

\* Mutant of SetActive: coming back forgets the work in flight.
SetActiveForgets ==
  /\ stop = "no"
  /\ active' = ~active
  /\ running' = Moved
  /\ currentWork' = "none"
  /\ Queue(entries, active', gap)
  /\ UNCHANGED <<stop, entries, gap, until>>

\* setActive, when the page is hidden or shown.
SetActive ==
  /\ stop = "no"
  /\ active' = ~active
  /\ running' = Moved
  /\ Queue(entries, active' /\ currentWork = "none", gap)
  /\ UNCHANGED <<stop, entries, currentWork, gap, until>>

\* stopAndDrain: dispose, then wait for the work in flight.
StopAndDrain ==
  /\ stop = "no"
  /\ stop' = "draining"
  /\ timer' = NoTimer
  /\ entries' = [c \in Checkouts |-> NoEntry]
  /\ running' = Moved
  /\ UNCHANGED <<active, currentWork, gap, until>>

Drained ==
  /\ stop = "draining"
  /\ currentWork # "running"
  /\ stop' = "drained"
  /\ UNCHANGED <<active, entries, running, currentWork, timer, gap, until>>

\* The page starts the next worker when the last one has drained.
Restart ==
  /\ stop = "drained"
  /\ stop' = "no"
  /\ active' \in BOOLEAN
  /\ currentWork' = "none"
  /\ gap' = 0
  /\ UNCHANGED <<entries, running, timer, until>>

\* The least due of an entry: past the bound, lateness only keeps its order.
Floor(c) ==
  Cardinality({d \in Waiting(entries) : entries[d].due < entries[c].due}) - Late

\* Time goes on; what is overdue, overdue for longer.
Tick ==
  /\ entries' = [c \in Checkouts |->
       IF entries[c] = NoEntry THEN NoEntry
       ELSE [entries[c] EXCEPT !.due = Most(Floor(c), @ - 1)]]
  /\ timer' = IF timer = NoTimer THEN NoTimer ELSE Most(0, timer - 1)
  /\ gap' = Most(0, gap - 1)
  /\ until' = [v \in Versions |-> Most(0, until[v] - 1)]
  /\ UNCHANGED <<active, stop, running, currentWork>>

-----------------------------------------------------------------------------
Init ==
  /\ active \in BOOLEAN
  /\ stop = "no"
  /\ entries = [c \in Checkouts |-> NoEntry]
  /\ running = {}
  /\ currentWork = "none"
  /\ timer = NoTimer
  /\ gap = 0
  /\ until = Takeover

Next ==
  \/ Fire
  \/ \E job \in running : Settle(job)
  \/ Finally
  \/ \E list \in Listings : ReplaceCandidates(list)
  \/ SetActive
  \/ StopAndDrain
  \/ Drained
  \/ Restart
  \/ Tick

Spec == Init /\ [][Next]_vars

\* A page that is open runs its timers and microtasks, and the adapter's calls
\* end in an answer or a time-out.  Nobody has to look at the page or list
\* anything.
Fairness ==
  /\ WF_vars(Fire)
  /\ WF_vars(\E job \in running : Settle(job))
  /\ WF_vars(Finally)
  /\ WF_vars(Tick)

FairSpec == Spec /\ Fairness

-----------------------------------------------------------------------------
(* Properties.                                                             *)

TypeOK ==
  /\ active \in BOOLEAN
  /\ stop \in {"no", "draining", "drained"}
  /\ entries \in [Checkouts -> Entry \cup {NoEntry}]
  /\ running \subseteq Job
  /\ currentWork \in {"none", "running", "settled"}
  /\ timer \in Nat \cup {NoTimer}
  /\ gap \in Nat
  /\ until \in [Versions -> Nat]

\* Two reconciliations, and so two payouts of this page, are never in flight at
\* once: not over a pause, a new listing, or the restart of the worker.
OneAtATime == Cardinality(running) <= 1

\* No wake-up is lost: a visible worker that has something to check and is not
\* checking has set its timer, whatever order pages, pauses and answers came in.
Armed == Idle /\ Waiting(entries) # {} => timer # NoTimer

\* The takeover is not slept through: before it, an entry is due no later than
\* the takeover, or the step gap after the answer that let it go on; and without
\* the early observation no earlier either.
DueByTakeover ==
  \A c \in Waiting(entries) :
    LET takeover == until[entries[c].version]
    IN takeover > 0 =>
         /\ entries[c].due <= Most(takeover, StepGap)
         /\ ~ObserveBeforeTakeover => entries[c].due = takeover

\* No wake-up is lost, and none comes later than the takeover.
WakesInTime == Armed /\ DueByTakeover

\* An answer is recorded only for the candidate that was asked about, and only
\* if the page was not hidden meanwhile: never for a newer candidate of the same
\* checkout that was listed while the reconciliation was running.
AnswersItsOwn ==
  [][\A c \in Checkouts :
       (/\ entries[c] # NoEntry /\ entries'[c] # NoEntry
        /\ entries[c].version = entries'[c].version
        /\ entries[c].status # entries'[c].status)
       => \E work \in running \ running' :
            work.checkout = c /\ work.version = entries[c].version /\ ~work.moved]_vars

\* Two starts of one worker are at least the step gap apart.
StartsSpaced == [][Cardinality(running') > Cardinality(running) => gap = 0]_vars

\* An answer is for the candidate it was asked about, and two starts are apart.
RightAnswers == AnswersItsOwn /\ StartsSpaced

\* A drained worker has nothing in flight, so that what comes after it - a
\* reviewed payout, the next worker - is alone.
DrainedIsQuiet == stop = "drained" => running = {}

\* At most one reconciliation is in flight, over every pause, listing and
\* restart, and a drained worker has none (with the types of the scheduler).
OneCheck == TypeOK /\ OneAtATime /\ DrainedIsQuiet

\* While the page is visible and the discovery finds nothing new, every checkout
\* is checked again and again until an answer is final, however much progress
\* the others make and however promptly that brings them back.
Listed == [c \in Checkouts |->
             IF entries[c] = NoEntry THEN {} ELSE {entries[c].version}]

KeepsChecking ==
  <>[](active /\ stop = "no") /\ <>[][Listed' = Listed]_vars
    => \A c \in Checkouts :
         []<>(c \notin Waiting(entries) \/ \E job \in running : job.checkout = c)

=============================================================================
