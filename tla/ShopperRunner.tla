------------------------------ MODULE ShopperRunner ------------------------------
(***************************************************************************)
(* The shopper's foreground loop (checkout-spark-settled-shopper-          *)
(* runner.ts).  A run reads the checkout, takes the one step it allows,    *)
(* and comes back, for five minutes at most and a bounded number of steps. *)
(* A page may mount two runners for one plan; a pause stops a run without  *)
(* abandoning an operation that was admitted.                              *)
(*                                                                         *)
(* What the checkout allows and what a step answers is left open: any      *)
(* sequence of them must be survived.  The clock is the wall clock, which  *)
(* may stand still; timers fire on their own.                              *)
(***************************************************************************)
EXTENDS Integers

CONSTANTS
  Runners,    \* createCheckoutSparkSettledShopperRunner, one per mount
  Legs,       \* state.legs.length
  Attempts,   \* fundingPoll.attempts
  Window,     \* the five minutes, in ticks
  MaxRuns     \* bound: runs and pauses of one runner (its epoch)

BoundsAssumption ==
  /\ Legs \in Nat /\ Attempts \in Nat \ {0} /\ Window \in Nat \ {0}
  /\ MaxRuns \in Nat

VARIABLES
  activePlans,  \* the plan is in activePlans, shared by the runners of a page
  epoch,        \* per runner
  job,          \* per runner: execute, or Idle
  pausing,      \* per runner: a pause waits for the work
  flying,       \* admitted operations that the provider has not settled
  session       \* the buyer's identity and shouldContinue()

vars == <<activePlans, epoch, job, pausing, flying, session>>

\* What the order allows; route also stands for a preparation, inspect for every
\* look that may not send, stopped for blocked, retired and changed.
Controls == {"pay_funding", "check_funding", "route", "inspect", "complete", "stopped"}

\* unset: remainingSteps is undefined until the plan was read.
Unset == -1
Job == [step : {"idle", "top", "read", "advance", "before", "admitted", "answered",
                "waiting", "ended"},
        generation : Nat, mode : {"pay_once", "inspect"}, left : Nat,
        remaining : Nat \cup {Unset}, observed : Nat, pending : Nat,
        payer : BOOLEAN, entered : Nat]
Idle == [step |-> "idle", generation |-> 0, mode |-> "inspect", left |-> 0,
         remaining |-> Unset, observed |-> 0, pending |-> 0, payer |-> FALSE,
         entered |-> 0]

Operation == [runner : Runners, payer : BOOLEAN]

SessionCurrent(r) == session /\ job[r].generation = epoch[r]

\* current() and assertCurrent.
Current(r) == SessionCurrent(r) /\ job[r].left > 0

Goto(r, step) == job' = [job EXCEPT ![r].step = step]

-----------------------------------------------------------------------------
\* run; a busy one is answered at once and changes nothing.
Run(r) ==
  /\ job[r].step = "idle"
  /\ ~activePlans
  /\ epoch[r] < MaxRuns
  /\ activePlans' = TRUE
  /\ epoch' = [epoch EXCEPT ![r] = @ + 1]
  /\ \E mode \in {"pay_once", "inspect"} :
       job' = [job EXCEPT ![r] = [Idle EXCEPT !.step = "top", !.mode = mode,
                 !.generation = epoch[r] + 1, !.left = Window]]
  /\ UNCHANGED <<pausing, flying, session>>

\* Every await of the loop is followed by assertCurrent, which ends the run.
\* While an operation is admitted nobody asks.
Revoked(r) ==
  /\ job[r].step \in {"top", "read", "advance", "before", "answered"}
  /\ ~Current(r)
  /\ Goto(r, "ended")
  /\ UNCHANGED <<activePlans, epoch, pausing, flying, session>>

\* The record, the order and the preparation are read.
Read(r) ==
  /\ job[r].step = "top"
  /\ Current(r)
  /\ \/ Goto(r, "read")
     \/ Goto(r, "ended")
  /\ UNCHANGED <<activePlans, epoch, pausing, flying, session>>

\* Mutant of Steps: the limit is set anew in every round.
StepsAnew(r) == Legs * 2 + Attempts + 1

\* remainingSteps, set when the plan is first seen.
Steps(r) ==
  IF job[r].remaining = Unset THEN Legs * 2 + Attempts + 1 ELSE job[r].remaining

\* Mutant of CanEnterPayer: the mode alone decides.
CanEnterAgain(r, control) == control = "pay_funding" /\ job[r].mode = "pay_once"

\* The payer opens for an explicit approval, at the first look at the funding.
CanEnterPayer(r, control) ==
  /\ control = "pay_funding"
  /\ job[r].mode = "pay_once"
  /\ job[r].observed = 0

\* The order allows something; the next step begins.
Decide(r) ==
  /\ job[r].step = "read"
  /\ Current(r)
  /\ \E control \in Controls :
       IF control \in {"complete", "stopped"} \/ Steps(r) = 0
       THEN Goto(r, "ended")
       ELSE job' = [job EXCEPT
              ![r].step = "advance",
              ![r].remaining = Steps(r) - 1,
              ![r].payer = CanEnterPayer(r, control),
              ![r].observed = IF control \in {"pay_funding", "check_funding"}
                              THEN @ + 1 ELSE @]
  /\ UNCHANGED <<activePlans, epoch, pausing, flying, session>>

\* The step looks, waits for an acknowledgement, and wants to send or to pay; or
\* answers without.
Look(r) ==
  /\ job[r].step = "advance"
  /\ Current(r)
  /\ \/ Goto(r, "before")
     \/ Goto(r, "answered")
  /\ UNCHANGED <<activePlans, epoch, pausing, flying, session>>

\* beforeSend has returned, the guard holds after it: the provider is called.
Admit(r) ==
  /\ job[r].step = "before"
  /\ Current(r)
  /\ job' = [job EXCEPT ![r].step = "admitted",
                        ![r].entered = IF job[r].payer THEN @ + 1 ELSE @]
  /\ flying' = flying \cup {[runner |-> r, payer |-> job[r].payer]}
  /\ UNCHANGED <<activePlans, epoch, pausing, session>>

\* Mutant of Settles: the end of the window gives an operation up.
SettlesOrTimesOut(r) ==
  /\ job[r].step = "admitted"
  /\ \/ flying' = {o \in flying : o.runner # r}
     \/ job[r].left = 0 /\ UNCHANGED flying
  /\ Goto(r, "answered")
  /\ UNCHANGED <<activePlans, epoch, pausing, session>>

\* The admitted operation ends, as late as it likes.
Settles(r) ==
  /\ job[r].step = "admitted"
  /\ flying' = {o \in flying : o.runner # r}
  /\ Goto(r, "answered")
  /\ UNCHANGED <<activePlans, epoch, pausing, session>>

\* A result: go on at once (funded, prepared, paid), look again later (pending,
\* transient, unavailable), or stop (final, unknown, thrown).
Answered(r) ==
  /\ job[r].step = "answered"
  /\ Current(r)
  /\ \/ Goto(r, "top")
     \/ job' = [job EXCEPT ![r].pending = @ + 1,
                  ![r].step = IF job[r].pending + 1 >= Attempts THEN "ended" ELSE "waiting"]
     \/ Goto(r, "ended")
  /\ UNCHANGED <<activePlans, epoch, pausing, flying, session>>

\* The idle wait is over.
WaitEnds(r) ==
  /\ job[r].step = "waiting"
  /\ Goto(r, IF Current(r) THEN "top" ELSE "ended")
  /\ UNCHANGED <<activePlans, epoch, pausing, flying, session>>

\* finally: the plan is free and a pause that waited returns.
Finally(r) ==
  /\ job[r].step = "ended"
  /\ job' = [job EXCEPT ![r] = Idle]
  /\ activePlans' = FALSE
  /\ pausing' = [pausing EXCEPT ![r] = FALSE]
  /\ UNCHANGED <<epoch, flying, session>>

\* pause: revoke, wake an idle wait, wait for the work.
Pause(r) ==
  /\ epoch[r] < MaxRuns
  /\ epoch' = [epoch EXCEPT ![r] = @ + 1]
  /\ pausing' = [pausing EXCEPT ![r] = job[r].step # "idle"]
  /\ IF job[r].step = "waiting" THEN Goto(r, "ended") ELSE UNCHANGED job
  /\ UNCHANGED <<activePlans, flying, session>>

\* The page is hidden or shown, the identity changes.
SessionChanges ==
  /\ session' = ~session
  /\ UNCHANGED <<activePlans, epoch, job, pausing, flying>>

Tick ==
  /\ \E r \in Runners : job[r].left > 0
  /\ job' = [r \in Runners |->
       [job[r] EXCEPT !.left = IF @ = 0 THEN 0 ELSE @ - 1]]
  /\ UNCHANGED <<activePlans, epoch, pausing, flying, session>>

-----------------------------------------------------------------------------
Init ==
  /\ activePlans = FALSE
  /\ epoch = [r \in Runners |-> 0]
  /\ job = [r \in Runners |-> Idle]
  /\ pausing = [r \in Runners |-> FALSE]
  /\ flying = {}
  /\ session = TRUE

\* What a run does on its own.
Execute(r) ==
  \/ Revoked(r) \/ Read(r) \/ Decide(r) \/ Look(r) \/ Admit(r) \/ Settles(r)
  \/ Answered(r) \/ WaitEnds(r) \/ Finally(r)

Next ==
  \/ \E r \in Runners : Run(r) \/ Execute(r) \/ Pause(r)
  \/ SessionChanges
  \/ Tick

Spec == Init /\ [][Next]_vars

\* The page's promises and timers are served, and what was admitted settles.
\* Nothing is assumed of the clock or the session.
FairSpec == Spec /\ \A r \in Runners : WF_vars(Execute(r))

-----------------------------------------------------------------------------
(* Properties.                                                             *)

TypeOK ==
  /\ activePlans \in BOOLEAN
  /\ epoch \in [Runners -> 0 .. MaxRuns]
  /\ job \in [Runners -> Job]
  /\ pausing \in [Runners -> BOOLEAN]
  /\ flying \subseteq Operation
  /\ session \in BOOLEAN

\* Of all the runners a page mounts for a plan, one has an operation at the
\* provider at a time, even when a window closes, a pause or a new run comes while
\* it is there.
OneOperation == \A o1, o2 \in flying : o1 = o2

\* The funding payer is entered at most once per approval, and never by a run that
\* only resumes, however often the order still asks for the funding.
PayerOnce ==
  \A r \in Runners :
    job[r].entered <= IF job[r].mode = "pay_once" THEN 1 ELSE 0

\* A run that is over, and so a pause that returned, left nothing in flight.
OverMeansSettled == \A o \in flying : job[o.runner].step = "admitted"

\* A pause does not sleep.
PauseWakes == \A r \in Runners : pausing[r] => job[r].step # "waiting"

\* What is at the provider: one operation of one run that is not over, awaited by
\* pauses that are awake (with the types of the loop).
InFlightSafe == TypeOK /\ OneOperation /\ OverMeansSettled /\ PauseWakes

\* Every run ends, and with it every pause, even if the clock stands still and the
\* order always allows one more step.
Ends == \A r \in Runners : job[r].step # "idle" ~> job[r].step = "idle"

=============================================================================
