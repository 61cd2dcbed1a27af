------------------------ MODULE SettledOutgoingProofs ------------------------
(***************************************************************************)
(* Theorems of SettledRouter and SettledOutgoing, for any number of legs,  *)
(* devices and tabs, any clock skew and any bound: first what the          *)
(* operators on a record preserve (its shape, the order between its        *)
(* copies, the checks of the loader), then what every step of the tabs     *)
(* keeps; last the calls to the provider: a device calls once for an       *)
(* attempt, the shopper only after a relay stores the marker, and the      *)
(* system of devices implements Payouts.                                   *)
(***************************************************************************)
EXTENDS SettledOutgoing, TLAPS

-----------------------------------------------------------------------------
(* Shapes.                                                                 *)

\* The plan has a first leg, so that a record and a job always have one.
LEMMA LegsNonEmpty == 1 \in Legs /\ Conduit \in Legs /\ Legs \subseteq Nat
  BY NumLegsAssumption DEF Legs, Conduit

\* A record's parts have their types.
LEMMA PartTypes ==
  ASSUME NEW s \in Reconciliation, NEW l \in Legs
  PROVE  /\ Generation(s, l) \in Generations
         /\ Generation(s, l) \in {0, 1}
         /\ Current(s, l) \in Attempt
         /\ Status(s, l) \in Statuses
         /\ s.updatedAt \in Nat
         /\ s.credit \in Credits
         /\ s.legs[l] \in Leg
         /\ \A g \in Generations : s.legs[l].attempts[g] \in Attempt
  <1>1. s.legs[l] \in Leg /\ s.updatedAt \in Nat /\ s.credit \in Credits
    BY DEF Reconciliation
  <1>2. \A g \in Generations : s.legs[l].attempts[g] \in Attempt
    BY <1>1 DEF Leg
  <1>3. Generation(s, l) \in Generations /\ Generation(s, l) \in {0, 1}
    BY <1>1 DEF Generation, Leg, Generations
  <1>4. Current(s, l) \in Attempt
    BY <1>2, <1>3 DEF Current
  <1>5. Status(s, l) \in Statuses
    BY <1>4 DEF Status, Attempt
  <1> QED BY <1>1, <1>2, <1>3, <1>4, <1>5

\* "No invoice" is an attempt.
LEMMA NoAttemptType == NoAttempt \in Attempt
  BY DEF NoAttempt, Attempt, Statuses

\* A new record has the record's shape.
LEMMA CreateType ==
  ASSUME NEW at \in Nat
  PROVE  CreateReconciliation(at) \in Reconciliation
  <1>1. NewLeg \in Leg
    BY NoAttemptType DEF NewLeg, Leg, Generations
  <1> QED
    BY <1>1 DEF CreateReconciliation, Reconciliation, Credits

\* The later of two times is one of them and no earlier than either.
LEMMA LaterFacts ==
  ASSUME NEW a \in Nat, NEW b \in Nat
  PROVE  Later(a, b) \in Nat /\ Later(a, b) >= a /\ Later(a, b) >= b
  BY DEF Later

\* What replacing the current attempt of a leg does, and what it leaves alone.
LEMMA SetCurrentFacts ==
  ASSUME NEW s \in Reconciliation, NEW l \in Legs,
         NEW attempt \in Attempt, NEW at \in Nat
  PROVE  LET next == SetCurrent(s, l, attempt, at)
         IN /\ next \in Reconciliation
            /\ Generation(next, l) = Generation(s, l)
            /\ Current(next, l) = attempt
            /\ next.updatedAt = Later(s.updatedAt, at)
            /\ next.credit = s.credit
            /\ next.legs[l].generation = s.legs[l].generation
            /\ \A g \in Generations \ {Generation(s, l)} :
                 next.legs[l].attempts[g] = s.legs[l].attempts[g]
            /\ \A m \in Legs \ {l} : next.legs[m] = s.legs[m]
  <1> DEFINE g == Generation(s, l)
             leg == [s.legs[l] EXCEPT !.attempts[g] = attempt]
             next == SetCurrent(s, l, attempt, at)
  <1>1. g \in Generations /\ s.legs[l] \in Leg /\ s.updatedAt \in Nat
    BY PartTypes
  <1>2. /\ leg \in Leg /\ leg.generation = s.legs[l].generation
        /\ leg.attempts[g] = attempt
        /\ \A h \in Generations \ {g} : leg.attempts[h] = s.legs[l].attempts[h]
    BY <1>1 DEF Leg
  <1>3. Later(s.updatedAt, at) \in Nat
    BY <1>1, LaterFacts
  <1>4. next = [s EXCEPT !.legs = [@ EXCEPT ![l] = leg],
                         !.updatedAt = Later(s.updatedAt, at)]
    BY DEF SetCurrent, Reconciliation
  <1> DEFINE legs == [s.legs EXCEPT ![l] = leg]
             when == Later(s.updatedAt, at)
  <1>a. next = [s EXCEPT !.legs = legs, !.updatedAt = when]
    BY <1>4
  <1>b. legs \in [Legs -> Leg] /\ when \in Nat
    BY <1>2, <1>3 DEF Reconciliation
  <1>5. /\ next.legs = [s.legs EXCEPT ![l] = leg]
        /\ next.updatedAt = Later(s.updatedAt, at)
        /\ next.credit = s.credit
        /\ next \in Reconciliation
    <2> HIDE DEF legs, when, leg, next
    <2>1. /\ next.legs = legs /\ next.updatedAt = when
          /\ next.credit = s.credit /\ next \in Reconciliation
      BY <1>a, <1>b DEF Reconciliation
    <2> QED BY <2>1 DEF legs, when
  <1>6. next.legs[l] = leg /\ \A m \in Legs \ {l} : next.legs[m] = s.legs[m]
    BY <1>5 DEF Reconciliation
  <1>7. Generation(next, l) = g /\ Current(next, l) = attempt
    BY <1>2, <1>6 DEF Generation, Current
  <1> QED BY <1>2, <1>5, <1>6, <1>7

\* The first invoice of a generation is an attempt.
LEMMA FreshAttemptType ==
  ASSUME NEW d \in Devices, NEW at \in Nat
  PROVE  FreshAttempt(d, at) \in Attempt
  BY DEF FreshAttempt, Attempt, Statuses

\* Recording the credit keeps the shape and the legs.
LEMMA RecordCreditFacts ==
  ASSUME NEW s \in Reconciliation, NEW at \in Nat
  PROVE  LET next == RecordCredit(s, at)
         IN /\ next \in Reconciliation
            /\ next.legs = s.legs
            /\ Credited(next)
            /\ Credited(s) => next = s
            /\ ~Credited(s) => /\ next.credit = at
                               /\ next.updatedAt = Later(s.updatedAt, at)
            /\ next.updatedAt >= s.updatedAt
  <1>1. /\ s.updatedAt \in Nat
        /\ Later(s.updatedAt, at) \in Nat
        /\ Later(s.updatedAt, at) >= s.updatedAt
    BY LaterFacts DEF Reconciliation
  <1>2. CASE Credited(s)
    BY <1>1, <1>2 DEF RecordCredit
  <1>3. CASE ~Credited(s)
    <2> DEFINE next == RecordCredit(s, at)
    <2>1. next = [s EXCEPT !.credit = at, !.updatedAt = Later(s.updatedAt, at)]
      BY <1>3 DEF RecordCredit
    <2>2. /\ next.credit = at /\ next.updatedAt = Later(s.updatedAt, at)
          /\ next.legs = s.legs /\ next \in Reconciliation
      BY <1>1, <2>1 DEF Reconciliation, Credits
    <2>3. Credited(next)
      BY <2>2 DEF Credited, NoCredit
    <2> QED BY <1>1, <1>3, <2>2, <2>3
  <1> QED BY <1>2, <1>3

\* Preparing a leg keeps the shape.
LEMMA PrepareLegType ==
  ASSUME NEW s \in Reconciliation, NEW l \in Legs,
         NEW d \in Devices, NEW at \in Nat
  PROVE  PrepareLeg(s, l, d, at) \in Reconciliation
  BY FreshAttemptType, SetCurrentFacts DEF PrepareLeg

\* Renewing a leg appends a generation and leaves the closed one as it was.
LEMMA RenewLegFacts ==
  ASSUME NEW s \in Reconciliation, NEW l \in Legs,
         NEW d \in Devices, NEW at \in Nat
  PROVE  LET next == RenewLeg(s, l, d, at)
         IN /\ next \in Reconciliation
            /\ next.updatedAt = at
            /\ next.credit = s.credit
            /\ next.legs[l].generation = 1
            /\ next.legs[l].attempts[1] = FreshAttempt(d, at)
            /\ next.legs[l].attempts[0] = s.legs[l].attempts[0]
            /\ \A m \in Legs \ {l} : next.legs[m] = s.legs[m]
  <1> DEFINE leg == [generation |-> 1,
                     attempts |-> [s.legs[l].attempts EXCEPT ![1] = FreshAttempt(d, at)]]
             next == RenewLeg(s, l, d, at)
  <1>1. s.legs[l] \in Leg /\ FreshAttempt(d, at) \in Attempt
    BY PartTypes, FreshAttemptType
  <1>2. /\ leg \in Leg /\ leg.generation = 1
        /\ leg.attempts[1] = FreshAttempt(d, at)
        /\ leg.attempts[0] = s.legs[l].attempts[0]
    BY <1>1 DEF Leg, Generations
  <1>3. /\ next.legs = [s.legs EXCEPT ![l] = leg]
        /\ next.updatedAt = at /\ next.credit = s.credit
        /\ next \in Reconciliation
    BY <1>2 DEF RenewLeg, Reconciliation
  <1>4. next.legs[l] = leg /\ \A m \in Legs \ {l} : next.legs[m] = s.legs[m]
    BY <1>3 DEF Reconciliation
  <1> QED BY <1>2, <1>3, <1>4

\* What recording another status changes, and what it leaves alone: the
\* invoice of the current attempt above all.
LEMMA RecordLegStatusChange ==
  ASSUME NEW s \in Reconciliation, NEW l \in Legs,
         NEW status \in Statuses, NEW at \in Nat,
         Status(s, l) # status
  PROVE  LET next == RecordLegStatus(s, l, status, at)
         IN /\ next \in Reconciliation
            /\ Generation(next, l) = Generation(s, l)
            /\ Current(next, l).issuer = Current(s, l).issuer
            /\ Current(next, l).preparedAt = Current(s, l).preparedAt
            /\ Current(next, l).status = status
            /\ Current(next, l).observedAt = at
            /\ next.updatedAt = Later(s.updatedAt, at)
            /\ next.credit = s.credit
            /\ next.legs[l].generation = s.legs[l].generation
            /\ \A g \in Generations \ {Generation(s, l)} :
                 next.legs[l].attempts[g] = s.legs[l].attempts[g]
            /\ \A m \in Legs \ {l} : next.legs[m] = s.legs[m]
  <1> DEFINE attempt == [Current(s, l) EXCEPT !.status = status, !.observedAt = at]
             next == RecordLegStatus(s, l, status, at)
  <1>1. Current(s, l) \in Attempt
    BY PartTypes
  <1>2. /\ attempt \in Attempt
        /\ attempt.issuer = Current(s, l).issuer
        /\ attempt.preparedAt = Current(s, l).preparedAt
        /\ attempt.status = status
        /\ attempt.observedAt = at
    BY <1>1 DEF Attempt
  <1>3. next = SetCurrent(s, l, attempt, at)
    BY DEF RecordLegStatus
  <1> HIDE DEF attempt, next
  <1>4. /\ next \in Reconciliation
        /\ Generation(next, l) = Generation(s, l)
        /\ Current(next, l) = attempt
        /\ next.updatedAt = Later(s.updatedAt, at)
        /\ next.credit = s.credit
        /\ next.legs[l].generation = s.legs[l].generation
        /\ \A g \in Generations \ {Generation(s, l)} :
             next.legs[l].attempts[g] = s.legs[l].attempts[g]
        /\ \A m \in Legs \ {l} : next.legs[m] = s.legs[m]
    BY <1>2, <1>3, SetCurrentFacts
  <1> QED BY <1>2, <1>4 DEF next

\* Recording a status, new or not.
LEMMA RecordLegStatusFacts ==
  ASSUME NEW s \in Reconciliation, NEW l \in Legs,
         NEW status \in Statuses, NEW at \in Nat
  PROVE  /\ RecordLegStatus(s, l, status, at) \in Reconciliation
         /\ Generation(RecordLegStatus(s, l, status, at), l) = Generation(s, l)
         /\ Status(RecordLegStatus(s, l, status, at), l) = status
  <1>1. CASE Status(s, l) = status
    BY <1>1 DEF RecordLegStatus
  <1>2. CASE Status(s, l) # status
    BY <1>2, RecordLegStatusChange DEF Status
  <1> QED BY <1>1, <1>2

\* Reopening a leg keeps the shape and changes its current status only.
LEMMA ReopenedFacts ==
  ASSUME NEW s \in Reconciliation, NEW l \in Legs, NEW status \in Statuses
  PROVE  LET next == Reopened(s, l, status)
         IN /\ next \in Reconciliation
            /\ Generation(next, l) = Generation(s, l)
            /\ Current(next, l) = [Current(s, l) EXCEPT !.status = status]
            /\ next.updatedAt = s.updatedAt
            /\ next.credit = s.credit
            /\ next.legs[l].generation = s.legs[l].generation
            /\ \A g \in Generations \ {Generation(s, l)} :
                 next.legs[l].attempts[g] = s.legs[l].attempts[g]
            /\ \A m \in Legs \ {l} : next.legs[m] = s.legs[m]
  <1> DEFINE g == Generation(s, l)
             attempt == [Current(s, l) EXCEPT !.status = status]
             leg == [s.legs[l] EXCEPT !.attempts[g] = attempt]
             next == Reopened(s, l, status)
  <1>1. g \in Generations /\ s.legs[l] \in Leg /\ Current(s, l) \in Attempt
    BY PartTypes
  <1>2. attempt \in Attempt
    BY <1>1 DEF Attempt
  <1>3. /\ leg \in Leg /\ leg.generation = s.legs[l].generation
        /\ leg.attempts[g] = attempt
        /\ \A h \in Generations \ {g} : leg.attempts[h] = s.legs[l].attempts[h]
    BY <1>1, <1>2 DEF Leg
  <1>4. next.legs = [s.legs EXCEPT ![l] = leg]
    BY <1>1 DEF Reopened, Reconciliation, Leg, Current
  <1>5. /\ next.updatedAt = s.updatedAt /\ next.credit = s.credit
        /\ next \in Reconciliation
    <2>1. next = [s EXCEPT !.legs = next.legs]
      BY DEF Reopened, Reconciliation
    <2> QED BY <1>3, <1>4, <2>1 DEF Reconciliation
  <1>6. next.legs[l] = leg /\ \A m \in Legs \ {l} : next.legs[m] = s.legs[m]
    BY <1>4 DEF Reconciliation
  <1>7. Generation(next, l) = g /\ Current(next, l) = attempt
    BY <1>3, <1>6 DEF Generation, Current
  <1> QED BY <1>3, <1>5, <1>6, <1>7

\* Time only moves on when an observation is stamped.
LEMMA ObservedAtFacts ==
  ASSUME NEW s \in Reconciliation, NEW at \in Nat
  PROVE  /\ ObservedAt(s, at) \in Nat
         /\ ObservedAt(s, at) > s.updatedAt
         /\ ObservedAt(s, at) >= at
  BY DEF ObservedAt, Later, Reconciliation

-----------------------------------------------------------------------------
(* The order between copies of the record.                                 *)

\* An attempt progresses from itself.
LEMMA AttemptReflexive ==
  ASSUME NEW a \in Attempt
  PROVE  AttemptProgression(a, a)
  BY DEF AttemptProgression, Attempt, PossibleSend

\* A leg progresses from itself.
LEMMA LegReflexive ==
  ASSUME NEW leg \in Leg
  PROVE  LegProgression(leg, leg)
  <1>1. leg.generation \in Generations /\ leg.attempts[leg.generation] \in Attempt
    BY DEF Leg
  <1>2. AttemptProgression(leg.attempts[leg.generation], leg.attempts[leg.generation])
    BY <1>1, AttemptReflexive
  <1> QED BY <1>1, <1>2 DEF LegProgression, Generations

\* A record progresses from a record that differs in a later time alone.
LEMMA TouchProgression ==
  ASSUME NEW s \in Reconciliation, NEW next \in Reconciliation,
         next.updatedAt >= s.updatedAt,
         Credited(s) => next.credit = s.credit,
         next.legs = s.legs
  PROVE  RecoveryProgression(s, next)
  <1>1. \A l \in Legs : LegProgression(s.legs[l], next.legs[l])
    BY PartTypes, LegReflexive
  <1> QED BY <1>1 DEF RecoveryProgression

\* Recording the credit is a progress, whoever observed it and when.
LEMMA RecordCreditProgression ==
  ASSUME NEW s \in Reconciliation, NEW at \in Nat
  PROVE  RecoveryProgression(s, RecordCredit(s, at))
  <1> DEFINE next == RecordCredit(s, at)
  <1>1. /\ next \in Reconciliation /\ next.legs = s.legs
        /\ next.updatedAt >= s.updatedAt
        /\ Credited(s) => next = s
    BY RecordCreditFacts
  <1> HIDE DEF next
  <1>2. RecoveryProgression(s, next)
    BY <1>1, TouchProgression
  <1> QED BY <1>2 DEF next

\* Evidence recorded strictly after everything the record already says is a
\* progress: no admissible status ever takes the record back.
LEMMA RecordLegStatusProgression ==
  ASSUME NEW s \in Reconciliation, NEW l \in Legs,
         NEW status \in EvidenceStatuses, NEW at \in Nat,
         Current(s, l).observedAt < at,
         CanRecordLegStatus(s, l, status, at)
  PROVE  RecoveryProgression(s, RecordLegStatus(s, l, status, at))
  <1> DEFINE next == RecordLegStatus(s, l, status, at)
  <1>1. status \in Statuses
    BY DEF Statuses
  <1>2. CASE Status(s, l) = status
    <2>1. next = s
      BY <1>2 DEF RecordLegStatus
    <2>2. RecoveryProgression(s, s)
      BY TouchProgression DEF Reconciliation
    <2> QED BY <2>1, <2>2
  <1>3. CASE Status(s, l) # status
    <2> DEFINE g == Generation(s, l)
               new == Current(next, l)
               old == Current(s, l)
    <2> HIDE DEF next
    <2>1. /\ next \in Reconciliation
          /\ new.issuer = old.issuer /\ new.preparedAt = old.preparedAt
          /\ new.status = status /\ new.observedAt = at
          /\ Generation(next, l) = Generation(s, l)
          /\ next.updatedAt = Later(s.updatedAt, at)
          /\ next.credit = s.credit
          /\ next.legs[l].generation = s.legs[l].generation
          /\ \A h \in Generations \ {g} :
               next.legs[l].attempts[h] = s.legs[l].attempts[h]
          /\ \A m \in Legs \ {l} : next.legs[m] = s.legs[m]
      BY <1>1, <1>3, RecordLegStatusChange DEF next
    <2>2. old \in Attempt /\ g \in {0, 1} /\ s.updatedAt \in Nat
      BY PartTypes
    <2>3. AttemptProgression(old, new)
      <3>1. MayFollow(old.status, status) /\ at > old.observedAt
        BY DEF CanRecordLegStatus, Status
      <3>2. old.observedAt \in Nat
        BY <2>2 DEF Attempt
      <3> HIDE DEF new, old
      <3>3. /\ new.observedAt >= old.observedAt
            /\ new.observedAt # old.observedAt
        BY <2>1, <3>1, <3>2
      <3> QED
        BY <2>1, <3>1, <3>3
        DEF AttemptProgression, MayFollow, EvidenceStatuses, PossibleSend
    <2>4. LegProgression(s.legs[l], next.legs[l])
      <3>1. /\ s.legs[l].generation = g /\ next.legs[l].generation = g
            /\ old = s.legs[l].attempts[g] /\ new = next.legs[l].attempts[g]
        BY <2>1 DEF Generation, Current
      <3>2. g = 1 => next.legs[l].attempts[0] = s.legs[l].attempts[0]
        BY <2>1 DEF Generations
      <3> QED BY <2>2, <2>3, <3>1, <3>2 DEF LegProgression
    <2>5. \A m \in Legs : LegProgression(s.legs[m], next.legs[m])
      BY <2>1, <2>4, PartTypes, LegReflexive
    <2>6. next.updatedAt >= s.updatedAt
      BY <2>1, <2>2, LaterFacts
    <2>7. RecoveryProgression(s, next)
      BY <2>1, <2>5, <2>6 DEF RecoveryProgression
    <2> QED BY <2>7 DEF next
  <1> QED BY <1>2, <1>3

-----------------------------------------------------------------------------
(* The checks of the loader.                                               *)

\* A new record loads.
LEMMA CreateRestorable ==
  ASSUME NEW at \in Nat
  PROVE  Restorable(CreateReconciliation(at))
  <1> DEFINE s == CreateReconciliation(at)
  <1>1. /\ ~Credited(s)
        /\ s.updatedAt = at
        /\ \A l \in Legs : s.legs[l] = NewLeg
    BY DEF CreateReconciliation, Credited
  <1>2. /\ NewLeg.generation = 0
        /\ \A g \in Generations : NewLeg.attempts[g] = NoAttempt
        /\ 0 \in Generations /\ 1 \in Generations
    BY DEF NewLeg, Generations
  <1>3. /\ NoAttempt.issuer = NoDevice /\ NoAttempt.observedAt = 0
        /\ NoAttempt.status = "unprepared"
    BY DEF NoAttempt
  <1> HIDE DEF s
  <1>4. \A l \in Legs : /\ Current(s, l) = NoAttempt
                        /\ ~Frozen(s, l)
                        /\ RestorableRenewal(s.legs[l])
                        /\ \A g \in Generations : RestorableAttempt(s.legs[l].attempts[g])
    BY <1>1, <1>2, <1>3
    DEF Generation, Current, Status, Frozen, RestorableRenewal, RestorableAttempt
  <1>5. Restorable(s)
    BY <1>1, <1>3, <1>4 DEF Restorable
  <1> QED BY <1>5 DEF s

\* In a record that loads, a frozen leg names a device, and nothing else does.
LEMMA FrozenIssuer ==
  ASSUME NEW s \in Reconciliation, NEW l \in Legs, Restorable(s)
  PROVE  /\ Frozen(s, l) => Current(s, l).issuer # NoDevice
         /\ ~Frozen(s, l) => Generation(s, l) = 0
  <1>1. RestorableAttempt(Current(s, l)) /\ Generation(s, l) \in {0, 1}
    BY PartTypes DEF Restorable, Current
  <1>2. Frozen(s, l) => Current(s, l).issuer # NoDevice
    BY <1>1 DEF Frozen, Status, RestorableAttempt, NoAttempt
  <1>3. Generation(s, l) = 1 => Frozen(s, l)
    <2> HAVE Generation(s, l) = 1
    <2>1. s.legs[l].attempts[1].issuer # NoDevice
      BY DEF Restorable, RestorableRenewal, Generation
    <2>2. Current(s, l).issuer # NoDevice
      BY <2>1 DEF Current
    <2> QED BY <1>1, <2>2 DEF RestorableAttempt, Frozen, Status
  <1> QED BY <1>1, <1>2, <1>3

\* A record that loads still does after one leg has changed into one that
\* loads, or none has, at no earlier time.
LEMMA RestorableOneLeg ==
  ASSUME NEW s \in Reconciliation, NEW next \in Reconciliation, NEW l \in Legs,
         Restorable(s),
         next.updatedAt >= s.updatedAt,
         next.credit = s.credit,
         \A m \in Legs \ {l} : next.legs[m] = s.legs[m],
         \A g \in Generations : RestorableAttempt(next.legs[l].attempts[g]),
         RestorableRenewal(next.legs[l]),
         Frozen(next, l) => Credited(next),
         next.updatedAt >= Current(next, l).observedAt
  PROVE  Restorable(next)
  <1>1. Credited(next) => next.updatedAt >= next.credit
    <2> HAVE Credited(next)
    <2>1. Credited(s) /\ s.updatedAt >= s.credit
      BY DEF Credited, Restorable
    <2>2. s.credit \in Nat /\ s.updatedAt \in Nat /\ next.updatedAt \in Nat
      BY <2>1 DEF Credited, Reconciliation, Credits
    <2> QED BY <2>1, <2>2
  <1>2. ASSUME NEW m \in Legs \ {l}
        PROVE  /\ \A g \in Generations : RestorableAttempt(next.legs[m].attempts[g])
               /\ RestorableRenewal(next.legs[m])
               /\ Frozen(next, m) => Credited(next)
               /\ next.updatedAt >= Current(next, m).observedAt
    <2>1. next.legs[m] = s.legs[m] /\ Current(next, m) = Current(s, m)
      BY DEF Current, Generation
    <2>2. Frozen(next, m) => Credited(next)
      BY <2>1 DEF Restorable, Frozen, Status, Credited
    <2>3. next.updatedAt >= Current(next, m).observedAt
      <3>1. Current(s, m).observedAt \in Nat
        BY PartTypes DEF Attempt
      <3>2. s.updatedAt >= Current(s, m).observedAt
        BY DEF Restorable
      <3> QED BY <2>1, <3>1, <3>2 DEF Reconciliation
    <2> QED BY <2>1, <2>2, <2>3 DEF Restorable
  <1> QED BY <1>1, <1>2 DEF Restorable

\* Recording the credit, or a later time, keeps a record loadable.
LEMMA RecordCreditRestorable ==
  ASSUME NEW s \in Reconciliation, NEW at \in Nat, Restorable(s)
  PROVE  Restorable(RecordCredit(s, at))
  <1> DEFINE next == RecordCredit(s, at)
  <1>1. /\ next \in Reconciliation /\ next.legs = s.legs /\ Credited(next)
        /\ next.updatedAt >= s.updatedAt
        /\ Credited(s) => next = s
        /\ ~Credited(s) => next.credit = at /\ next.updatedAt = Later(s.updatedAt, at)
    BY RecordCreditFacts
  <1>2. s.updatedAt \in Nat /\ Later(s.updatedAt, at) >= at
    BY LaterFacts DEF Reconciliation
  <1> HIDE DEF next
  <1>3. CASE Credited(s)
    BY <1>1, <1>3 DEF next
  <1>4. CASE ~Credited(s)
    <2>1. next.updatedAt >= next.credit
      BY <1>1, <1>2, <1>4
    <2>2. ASSUME NEW l \in Legs
          PROVE  /\ Current(next, l) = Current(s, l)
                 /\ next.updatedAt >= Current(next, l).observedAt
      <3>1. Current(next, l) = Current(s, l)
        BY <1>1 DEF Current, Generation
      <3>2. Current(s, l).observedAt \in Nat /\ s.updatedAt >= Current(s, l).observedAt
        BY PartTypes DEF Attempt, Restorable
      <3> QED BY <1>1, <1>2, <3>1, <3>2 DEF Reconciliation
    <2>3. Restorable(next)
      BY <1>1, <2>1, <2>2 DEF Restorable
    <2> QED BY <2>3 DEF next
  <1> QED BY <1>3, <1>4

\* A first invoice keeps a record loadable.
LEMMA PrepareLegRestorable ==
  ASSUME NEW s \in Reconciliation, NEW l \in Legs,
         NEW d \in Devices, NEW at \in Nat,
         Restorable(s), CanPrepareLeg(s, l, at)
  PROVE  Restorable(PrepareLeg(s, l, d, at))
  <1> DEFINE next == PrepareLeg(s, l, d, at)
             fresh == FreshAttempt(d, at)
  <1>1. /\ Generation(s, l) = 0 /\ Credited(s)
        /\ s.updatedAt \in Nat
        /\ Later(s.updatedAt, at) >= s.updatedAt /\ Later(s.updatedAt, at) >= at
    BY FrozenIssuer, LaterFacts, PartTypes DEF CanPrepareLeg
  <1>2. /\ fresh \in Attempt /\ fresh.issuer = d /\ d # NoDevice
        /\ fresh.status = "prepared" /\ fresh.observedAt = at /\ fresh.preparedAt = at
    BY FreshAttemptType, NoDeviceAssumption DEF FreshAttempt
  <1> HIDE DEF fresh
  <1>3. next = SetCurrent(s, l, fresh, at)
    BY DEF PrepareLeg, fresh
  <1> HIDE DEF next
  <1>4. /\ next \in Reconciliation
        /\ Generation(next, l) = 0 /\ Current(next, l) = fresh
        /\ next.updatedAt = Later(s.updatedAt, at)
        /\ next.credit = s.credit
        /\ next.legs[l].generation = s.legs[l].generation
        /\ \A g \in Generations \ {0} : next.legs[l].attempts[g] = s.legs[l].attempts[g]
        /\ \A m \in Legs \ {l} : next.legs[m] = s.legs[m]
    BY <1>1, <1>2, <1>3, SetCurrentFacts
  <1>5. next.legs[l].attempts[0] = fresh /\ next.legs[l].generation = 0
    BY <1>4 DEF Current, Generation
  <1>6. RestorableAttempt(fresh)
    BY <1>2 DEF RestorableAttempt
  <1>7. \A g \in Generations : RestorableAttempt(next.legs[l].attempts[g])
    BY <1>4, <1>5, <1>6 DEF Restorable
  <1>8. RestorableRenewal(next.legs[l])
    <2>1. s.legs[l].attempts[1] = NoAttempt
      BY <1>1 DEF Restorable, RestorableRenewal, Generation
    <2> QED BY <1>4, <1>5, <2>1 DEF RestorableRenewal, Generations
  <1>9. Credited(next) /\ next.updatedAt >= Current(next, l).observedAt
    BY <1>1, <1>2, <1>4 DEF Credited
  <1>10. next.updatedAt >= s.updatedAt
    BY <1>1, <1>4
  <1>11. Restorable(next)
    BY <1>4, <1>7, <1>8, <1>9, <1>10, RestorableOneLeg
  <1> QED BY <1>11 DEF next

\* A renewal that CanRenewLeg admits keeps a record loadable: its guards are
\* exactly what the loader demands of a closed generation.
LEMMA RenewLegRestorable ==
  ASSUME NEW s \in Reconciliation, NEW l \in Legs,
         NEW d \in Devices, NEW at \in Nat,
         Restorable(s), CanRenewLeg(s, l, at)
  PROVE  Restorable(RenewLeg(s, l, d, at))
  <1> DEFINE next == RenewLeg(s, l, d, at)
             fresh == FreshAttempt(d, at)
             old == s.legs[l].attempts[0]
  <1>1. /\ next \in Reconciliation /\ next.updatedAt = at /\ next.credit = s.credit
        /\ next.legs[l].generation = 1
        /\ next.legs[l].attempts[1] = fresh /\ next.legs[l].attempts[0] = old
        /\ \A m \in Legs \ {l} : next.legs[m] = s.legs[m]
    BY RenewLegFacts
  <1>2. /\ fresh.issuer = d /\ d # NoDevice
        /\ fresh.status = "prepared" /\ fresh.observedAt = at /\ fresh.preparedAt = at
    BY NoDeviceAssumption DEF FreshAttempt
  <1> HIDE DEF next, fresh
  <1>3. /\ Generation(s, l) = 0 /\ Current(s, l) = old /\ Frozen(s, l)
        /\ Credited(s) /\ at >= s.updatedAt /\ TakeoverAt <= at
        /\ SendWindowEndsAt(old) <= at /\ old.status # "paid"
    BY DEF CanRenewLeg, Generation, Current, Status
  <1>4. RestorableAttempt(old) /\ old.issuer # NoDevice /\ s.updatedAt >= old.observedAt
    BY <1>3, FrozenIssuer DEF Restorable, Generations
  <1>5. old.observedAt <= at
    <2>1. old.observedAt \in Nat /\ s.updatedAt \in Nat
      BY <1>3, PartTypes DEF Attempt
    <2> QED BY <1>3, <1>4, <2>1
  <1>6. RestorableRenewal(next.legs[l])
    BY <1>1, <1>2, <1>3, <1>4, <1>5 DEF RestorableRenewal
  <1>7. RestorableAttempt(fresh)
    BY <1>2 DEF RestorableAttempt
  <1>8. \A g \in Generations : RestorableAttempt(next.legs[l].attempts[g])
    BY <1>1, <1>4, <1>7 DEF Generations
  <1>9. Current(next, l) = fresh
    BY <1>1 DEF Current, Generation
  <1>10. /\ Credited(next) /\ next.updatedAt >= Current(next, l).observedAt
         /\ next.updatedAt >= s.updatedAt
    BY <1>1, <1>2, <1>3, <1>9 DEF Credited
  <1>11. Restorable(next)
    BY <1>1, <1>6, <1>8, <1>10, RestorableOneLeg
  <1> QED BY <1>11 DEF next

\* A leg whose current attempt keeps its invoice still loads.
LEMMA RestorableSameInvoice ==
  ASSUME NEW before \in Leg, NEW after \in Leg,
         \A g \in Generations : RestorableAttempt(before.attempts[g]),
         RestorableRenewal(before),
         after.generation = before.generation,
         \A g \in Generations \ {before.generation} :
           after.attempts[g] = before.attempts[g],
         before.attempts[before.generation].issuer # NoDevice,
         LET old == before.attempts[before.generation]
             new == after.attempts[before.generation]
         IN /\ new.issuer = old.issuer /\ new.preparedAt = old.preparedAt
            /\ new.status # "unprepared" /\ new.observedAt >= new.preparedAt
  PROVE  /\ \A g \in Generations : RestorableAttempt(after.attempts[g])
         /\ RestorableRenewal(after)
  <1>1. before.generation \in {0, 1}
    BY DEF Leg, Generations
  <1>2. RestorableAttempt(after.attempts[before.generation])
    BY DEF RestorableAttempt
  <1>3. CASE before.generation = 0
    <2>1. after.attempts[1] = NoAttempt
      BY <1>3 DEF RestorableRenewal, Generations
    <2> QED BY <1>2, <1>3, <2>1 DEF RestorableRenewal
  <1>4. CASE before.generation = 1
    <2>1. after.attempts[0] = before.attempts[0]
      BY <1>4 DEF Generations
    <2> QED BY <1>2, <1>4, <2>1 DEF RestorableRenewal
  <1> QED BY <1>1, <1>3, <1>4

\* The same, for the current attempt of one leg of a record.
LEMMA RestorableCurrent ==
  ASSUME NEW s \in Reconciliation, NEW next \in Reconciliation, NEW l \in Legs,
         Restorable(s), Current(s, l).issuer # NoDevice,
         next.legs[l].generation = s.legs[l].generation,
         Generation(next, l) = Generation(s, l),
         \A g \in Generations \ {Generation(s, l)} :
           next.legs[l].attempts[g] = s.legs[l].attempts[g],
         Current(next, l).issuer = Current(s, l).issuer,
         Current(next, l).preparedAt = Current(s, l).preparedAt,
         Current(next, l).status # "unprepared",
         Current(next, l).observedAt >= Current(s, l).preparedAt
  PROVE  /\ \A g \in Generations : RestorableAttempt(next.legs[l].attempts[g])
         /\ RestorableRenewal(next.legs[l])
  <1> DEFINE before == s.legs[l]
             after == next.legs[l]
  <1>1. before \in Leg /\ after \in Leg
    BY PartTypes
  <1>2. /\ Generation(s, l) = before.generation
        /\ Current(s, l) = before.attempts[before.generation]
        /\ Current(next, l) = after.attempts[before.generation]
    BY DEF Current, Generation
  <1>3. /\ \A g \in Generations : RestorableAttempt(before.attempts[g])
        /\ RestorableRenewal(before)
    BY DEF Restorable
  <1>4. after.generation = before.generation
    OBVIOUS
  <1>5. \A g \in Generations \ {before.generation} : after.attempts[g] = before.attempts[g]
    BY <1>2
  <1> HIDE DEF before, after
  <1>6. /\ \A g \in Generations : RestorableAttempt(after.attempts[g])
        /\ RestorableRenewal(after)
    BY <1>1, <1>2, <1>3, <1>4, <1>5, RestorableSameInvoice
  <1> QED BY <1>6 DEF after

\* Evidence keeps a record loadable.
LEMMA RecordLegStatusRestorable ==
  ASSUME NEW s \in Reconciliation, NEW l \in Legs,
         NEW status \in EvidenceStatuses, NEW at \in Nat,
         Restorable(s), CanRecordLegStatus(s, l, status, at)
  PROVE  Restorable(RecordLegStatus(s, l, status, at))
  <1> DEFINE next == RecordLegStatus(s, l, status, at)
  <1>1. CASE Status(s, l) = status
    BY <1>1 DEF RecordLegStatus
  <1>2. CASE Status(s, l) # status
    <2>1. status \in Statuses /\ status # "unprepared"
      BY DEF Statuses, EvidenceStatuses, PossibleSend
    <2> HIDE DEF next
    <2>2. /\ next \in Reconciliation
          /\ Generation(next, l) = Generation(s, l)
          /\ Current(next, l).issuer = Current(s, l).issuer
          /\ Current(next, l).preparedAt = Current(s, l).preparedAt
          /\ Current(next, l).status = status
          /\ Current(next, l).observedAt = at
          /\ next.updatedAt = Later(s.updatedAt, at)
          /\ next.credit = s.credit
          /\ next.legs[l].generation = s.legs[l].generation
          /\ \A g \in Generations \ {Generation(s, l)} :
               next.legs[l].attempts[g] = s.legs[l].attempts[g]
          /\ \A m \in Legs \ {l} : next.legs[m] = s.legs[m]
      BY <1>2, <2>1, RecordLegStatusChange DEF next
    <2>3. /\ s.legs[l] \in Leg /\ next.legs[l] \in Leg /\ s.updatedAt \in Nat
      BY <2>2, PartTypes
    <2>4. /\ Frozen(s, l) /\ at >= Current(s, l).preparedAt
          /\ Current(s, l).issuer # NoDevice /\ Credited(s)
      BY FrozenIssuer DEF CanRecordLegStatus, Restorable
    <2>5. /\ \A g \in Generations : RestorableAttempt(next.legs[l].attempts[g])
          /\ RestorableRenewal(next.legs[l])
      BY <2>1, <2>2, <2>4, RestorableCurrent
    <2>6. /\ next.updatedAt >= s.updatedAt
          /\ next.updatedAt >= Current(next, l).observedAt
          /\ Credited(next)
      BY <2>2, <2>3, <2>4, LaterFacts DEF Credited
    <2>7. Restorable(next)
      BY <2>2, <2>5, <2>6, RestorableOneLeg
    <2> QED BY <2>7 DEF next
  <1> QED BY <1>1, <1>2

\* Reopening a frozen leg keeps a record loadable.
LEMMA ReopenedRestorable ==
  ASSUME NEW s \in Reconciliation, NEW l \in Legs, NEW status \in Statuses,
         status # "unprepared", Restorable(s), Frozen(s, l)
  PROVE  Restorable(Reopened(s, l, status))
  <1> DEFINE next == Reopened(s, l, status)
  <1>1. /\ next \in Reconciliation
        /\ Generation(next, l) = Generation(s, l)
        /\ Current(next, l) = [Current(s, l) EXCEPT !.status = status]
        /\ next.updatedAt = s.updatedAt
        /\ next.credit = s.credit
        /\ next.legs[l].generation = s.legs[l].generation
        /\ \A g \in Generations \ {Generation(s, l)} :
             next.legs[l].attempts[g] = s.legs[l].attempts[g]
        /\ \A m \in Legs \ {l} : next.legs[m] = s.legs[m]
    BY ReopenedFacts
  <1> HIDE DEF next
  <1>2. /\ s.legs[l] \in Leg /\ next.legs[l] \in Leg
        /\ Current(s, l) \in Attempt /\ s.updatedAt \in Nat
    BY <1>1, PartTypes
  <1>3. /\ Current(next, l).issuer = Current(s, l).issuer
        /\ Current(next, l).preparedAt = Current(s, l).preparedAt
        /\ Current(next, l).observedAt = Current(s, l).observedAt
        /\ Current(next, l).status = status
    BY <1>1, <1>2 DEF Attempt
  <1>4. Current(s, l).issuer # NoDevice /\ Credited(s)
    BY FrozenIssuer DEF Restorable
  <1>5. Current(s, l).observedAt >= Current(s, l).preparedAt
    BY <1>4, PartTypes DEF Restorable, RestorableAttempt, Current
  <1>6. /\ \A g \in Generations : RestorableAttempt(next.legs[l].attempts[g])
        /\ RestorableRenewal(next.legs[l])
    BY <1>1, <1>3, <1>4, <1>5, RestorableCurrent
  <1>7. /\ next.updatedAt >= s.updatedAt
        /\ next.updatedAt >= Current(next, l).observedAt
        /\ Credited(next)
    BY <1>1, <1>2, <1>3, <1>4 DEF Restorable, Credited
  <1>8. Restorable(next)
    BY <1>1, <1>6, <1>7, RestorableOneLeg
  <1> QED BY <1>8 DEF next

\* A later time keeps a record loadable.
LEMMA TouchRestorable ==
  ASSUME NEW s \in Reconciliation, NEW at \in Nat, Restorable(s), at >= s.updatedAt
  PROVE  /\ [s EXCEPT !.updatedAt = at] \in Reconciliation
         /\ Restorable([s EXCEPT !.updatedAt = at])
  <1> DEFINE next == [s EXCEPT !.updatedAt = at]
  <1>1. /\ next \in Reconciliation /\ next.updatedAt = at
        /\ next.credit = s.credit /\ next.legs = s.legs
    BY DEF Reconciliation
  <1>2. 1 \in Legs /\ s.updatedAt \in Nat
    BY LegsNonEmpty DEF Reconciliation
  <1> HIDE DEF next
  <1>3. \A l \in Legs : Current(next, l) = Current(s, l) /\ Frozen(next, l) = Frozen(s, l)
    BY <1>1 DEF Current, Generation, Frozen, Status
  <1>4. Current(s, 1).observedAt \in Nat /\ s.updatedAt >= Current(s, 1).observedAt
    BY <1>2, PartTypes DEF Attempt, Restorable
  <1>5. Restorable(next)
    <2>1. /\ \A g \in Generations : RestorableAttempt(next.legs[1].attempts[g])
          /\ RestorableRenewal(next.legs[1])
          /\ Frozen(next, 1) => Credited(next)
      BY <1>1, <1>2, <1>3 DEF Restorable, Credited
    <2>2. next.updatedAt >= Current(next, 1).observedAt /\ next.updatedAt >= s.updatedAt
      BY <1>1, <1>2, <1>3, <1>4
    <2>3. \A m \in Legs \ {1} : next.legs[m] = s.legs[m]
      BY <1>1
    <2> QED BY <1>1, <1>2, <2>1, <2>2, <2>3, RestorableOneLeg
  <1> QED BY <1>1, <1>5 DEF next

-----------------------------------------------------------------------------
(* What the type invariant says of one tab.                                *)

\* A tab's device, row, job and clock have their types.
LEMMA TabTypes ==
  ASSUME TypeOK, NEW t \in Tabs
  PROVE  /\ DeviceOf[t] \in Devices
         /\ Row(t) \in Rows /\ Row(t).revision \in Nat /\ Row(t).state \in Reconciliation
         /\ job[t] \in Job /\ job[t].leg \in Legs /\ job[t].state \in Reconciliation
         /\ job[t].revision \in Nat /\ job[t].todo \subseteq Legs
         /\ Now(t) \in Nat
         /\ \A l \in Legs : caps[t][l] \in Nat
  <1>1. DeviceOf[t] \in Devices
    BY DeviceAssumption
  <1>2. Row(t) \in Rows
    BY <1>1 DEF TypeOK, Row
  <1>3. Row(t).revision \in Nat /\ Row(t).state \in Reconciliation
    BY <1>2 DEF Rows
  <1>4. job[t] \in Job
    BY DEF TypeOK
  <1>5. /\ job[t].leg \in Legs /\ job[t].state \in Reconciliation
        /\ job[t].revision \in Nat /\ job[t].todo \subseteq Legs
    BY <1>4 DEF Job
  <1>6. Now(t) \in Nat
    BY <1>1, SkewAssumption DEF TypeOK, Now, Clock
  <1>7. \A l \in Legs : caps[t][l] \in Nat
    BY DEF TypeOK
  <1> QED BY <1>1, <1>2, <1>3, <1>4, <1>5, <1>6, <1>7

\* Every attempt has a transfer id, the same on every device.
LEMMA TransferIdFacts ==
  /\ \A l \in Legs, g \in Generations : \A d : TransferId(l, g, d) \in TransferIds
  /\ \A l \in Legs : <<l, 0>> \in TransferIds /\ <<l, 1>> \in TransferIds
  /\ \A i \in TransferIds : \E l \in Legs, g \in Generations :
       i = <<l, g>> /\ i[1] = l /\ i[2] = g
  <1>1. \A l \in Legs, g \in Generations : \A d : TransferId(l, g, d) \in TransferIds
    BY DeviceAssumption DEF TransferIds, TransferId
  <1>2. 0 \in Generations /\ 1 \in Generations
    BY DEF Generations
  <1>3. \A l \in Legs : TransferId(l, 0, 0) \in TransferIds /\ TransferId(l, 1, 0) \in TransferIds
    BY <1>1, <1>2
  <1>4. \A l \in Legs : <<l, 0>> \in TransferIds /\ <<l, 1>> \in TransferIds
    BY <1>3 DEF TransferId
  <1>5. \A i \in TransferIds : \E l \in Legs, g \in Generations :
          i = <<l, g>> /\ i[1] = l /\ i[2] = g
    BY DEF TransferIds, TransferId
  <1> QED BY <1>1, <1>4, <1>5

\* The idle job is a job.
LEMMA IdleJobType == IdleJob \in Job
  <1>1. CreateReconciliation(0) \in Reconciliation
    BY CreateType
  <1> QED
    BY <1>1, LegsNonEmpty DEF IdleJob, Job, Steps, Modes, Observations

\* What the exact history can answer: a tab past its first look holds one of
\* these, so that it never records a reading of anything else as evidence.
Readings == {"not_found", "pending", "paid", "terminal_failure",
             "conflicting_evidence"}
ObservedSeen ==
  \A t \in Tabs : job[t].step = "observed" => job[t].seen \in Readings

\* What a tab reads in the provider's history is a reading.
LEMMA ExactHistoryType ==
  ASSUME TypeOK, NEW s \in Reconciliation, NEW l \in Legs
  PROVE  ExactHistory(s, l) \in Readings
  <1> DEFINE id == TransferId(l, Generation(s, l), Current(s, l).issuer)
  <1>1. id \in TransferIds
    BY PartTypes, TransferIdFacts
  <1> HIDE DEF id
  <1>2. history[id].status \in {"none", "pending", "paid", "failed", "returned"}
    BY <1>1 DEF TypeOK, Transfer
  <1>3. ExactHistory(s, l) =
          IF history[id].status = "none" THEN "not_found"
          ELSE IF history[id].issuer # Current(s, l).issuer THEN "conflicting_evidence"
          ELSE IF history[id].status \in {"pending", "paid"} THEN history[id].status
          ELSE "terminal_failure"
    BY DEF ExactHistory, id
  <1> QED BY <1>2, <1>3 DEF Readings

\* A job that holds a row is a job.
LEMMA HoldingType ==
  ASSUME TypeOK, NEW t \in Tabs, NEW row \in Rows, NEW step \in Steps
  PROVE  /\ Holding(t, row, step) \in Job
         /\ Holding(t, row, step).state = row.state
         /\ Holding(t, row, step).revision = row.revision
         /\ Holding(t, row, step).step = step
         /\ Holding(t, row, step).leg = job[t].leg
         /\ Holding(t, row, step).mode = job[t].mode
         /\ Holding(t, row, step).todo = job[t].todo
  BY TabTypes DEF Holding, Job, Rows

\* What a save stores is a row.
LEMMA WrittenType ==
  ASSUME TypeOK, NEW t \in Tabs, NEW s \in Reconciliation
  PROVE  /\ Written(t, s) \in Rows
         /\ Written(t, s).state = s
         /\ Written(t, s).revision = Row(t).revision + 1
  BY TabTypes DEF Written, Rows

\* Saving a record keeps the databases' type.
LEMMA SaveType ==
  ASSUME TypeOK, NEW t \in Tabs, NEW s \in Reconciliation, Save(t, s)
  PROVE  db' \in [Devices -> Rows]
  BY TabTypes, WrittenType DEF Save, TypeOK

\* Publishing a record, or not, keeps the relays' type.
LEMMA PublishType ==
  ASSUME TypeOK, NEW t \in Tabs, NEW s \in Reconciliation,
         Publish(t, s) \/ UNCHANGED relays
  PROVE  /\ relays' \subseteq Snapshots
         /\ \A snapshot \in relays' : snapshot \in relays \/ snapshot.state = s
  <1>1. [author |-> Author(t), state |-> s] \in Snapshots
    BY DEF Snapshots, Author
  <1> QED BY <1>1 DEF Publish, TypeOK

\* Moving a tab to another job keeps the jobs' type.
LEMMA JobType ==
  ASSUME TypeOK, ObservedSeen, NEW t \in Tabs, NEW j \in Job,
         j.step = "observed" => j.seen \in Readings,
         job' = [job EXCEPT ![t] = j]
  PROVE  /\ job' \in [Tabs -> Job]
         /\ ObservedSeen'
         /\ job'[t] = j
         /\ \A u \in Tabs \ {t} : job'[u] = job[u]
  BY DEF TypeOK, ObservedSeen

\* Moving a tab to the job that holds a row keeps the jobs' type.
LEMMA HoldStepType ==
  ASSUME TypeOK, ObservedSeen, NEW t \in Tabs, NEW row \in Rows,
         NEW step \in Steps \ {"observed"},
         job' = [job EXCEPT ![t] = Holding(t, row, step)]
  PROVE  job' \in [Tabs -> Job] /\ ObservedSeen'
  <1> DEFINE held == Holding(t, row, step)
  <1>1. held \in Job /\ held.step = step
    BY HoldingType
  <1>2. job' = [job EXCEPT ![t] = held]
    OBVIOUS
  <1> HIDE DEF held
  <1>3. held.step # "observed"
    BY <1>1
  <1> QED BY <1>1, <1>2, <1>3, JobType

\* Ending an invocation does.
LEMMA FinishType ==
  ASSUME TypeOK, ObservedSeen, NEW t \in Tabs, Finish(t)
  PROVE  /\ job' \in [Tabs -> Job]
         /\ ObservedSeen'
         /\ job'[t] = IdleJob
         /\ \A u \in Tabs \ {t} : job'[u] = job[u]
  <1>1. IdleJob \in Job /\ IdleJob.step # "observed"
    BY IdleJobType DEF IdleJob
  <1> QED BY <1>1, JobType DEF Finish

\* Going on to another step does.
LEMMA GotoType ==
  ASSUME TypeOK, ObservedSeen, NEW t \in Tabs,
         NEW step \in Steps \ {"observed"}, Goto(t, step)
  PROVE  /\ job' \in [Tabs -> Job]
         /\ ObservedSeen'
         /\ job'[t] = [job[t] EXCEPT !.step = step]
         /\ job'[t].step = step /\ job'[t].state = job[t].state
         /\ job'[t].leg = job[t].leg
         /\ \A u \in Tabs \ {t} : job'[u] = job[u]
  <1>1. job[t] \in Job
    BY TabTypes
  <1>2. /\ [job[t] EXCEPT !.step = step] \in Job
        /\ [job[t] EXCEPT !.step = step].step # "observed"
    BY <1>1 DEF Job
  <1>3. job' = [job EXCEPT ![t] = [job[t] EXCEPT !.step = step]]
    BY DEF Goto
  <1>4. /\ job' \in [Tabs -> Job]
        /\ ObservedSeen'
        /\ job'[t] = [job[t] EXCEPT !.step = step]
        /\ \A u \in Tabs \ {t} : job'[u] = job[u]
    BY <1>2, <1>3, JobType
  <1> QED BY <1>1, <1>4 DEF Job

\* Forgetting a cancellation keeps their type.
LEMMA ForgetType ==
  ASSUME TypeOK, NEW t \in Tabs, NEW l \in Legs, Forget(t, l) \/ UNCHANGED caps
  PROVE  caps' \in [Tabs -> [Legs -> Nat]]
  BY DEF Forget, TypeOK

\* An invocation that attests starts from the row.
LEMMA AttestType ==
  ASSUME TypeOK, NEW t \in Tabs, NEW mode \in Modes, NEW l \in Legs
  PROVE  /\ Attest(t, mode, l) \in Job
         /\ Attest(t, mode, l).state = Row(t).state
         /\ Attest(t, mode, l).step = "attest"
  BY TabTypes, IdleJobType DEF Attest, Job, Steps

\* An invocation that goes straight to a step starts from nothing.
LEMMA EnterType ==
  ASSUME TypeOK, NEW step \in Steps, NEW mode \in Modes, NEW l \in Legs
  PROVE  /\ Enter(step, mode, l) \in Job
         /\ Enter(step, mode, l).state = IdleJob.state
         /\ Enter(step, mode, l).step = step
  BY IdleJobType DEF Enter, Job

\* What the outgoing step records is a record.
LEMMA RecordedType ==
  ASSUME TypeOK, NEW t \in Tabs, NEW status \in Statuses
  PROVE  Recorded(t, status) \in Reconciliation
  BY TabTypes, ObservedAtFacts, RecordLegStatusFacts DEF Recorded

-----------------------------------------------------------------------------
(* Type correctness.                                                       *)

\* Every step of a tab keeps the types.
LEMMA TabStepType ==
  ASSUME TypeOK, ObservedSeen, NEW t \in Tabs, TabStep(t)
  PROVE  TypeOK' /\ ObservedSeen'
  <1> DEFINE l == job[t].leg
             s == job[t].state
  <1>t. /\ DeviceOf[t] \in Devices
        /\ Row(t) \in Rows /\ Row(t).revision \in Nat /\ Row(t).state \in Reconciliation
        /\ job[t] \in Job /\ l \in Legs /\ s \in Reconciliation
        /\ job[t].revision \in Nat /\ job[t].todo \subseteq Legs
        /\ Now(t) \in Nat
    BY TabTypes
  <1>s. \A at \in Nat : ObservedAt(s, at) \in Nat
    BY <1>t, ObservedAtFacts
  <1>1. CASE StartShopper(t)
    <2>1. PICK m \in Legs, mode \in {"advance", "inspect"} :
            job' = [job EXCEPT ![t] = Attest(t, mode, m)]
      BY <1>1 DEF StartShopper
    <2>2. job' \in [Tabs -> Job] /\ ObservedSeen'
      BY <2>1, AttestType, JobType DEF Modes
    <2> QED BY <1>1, <2>2 DEF StartShopper, TypeOK
  <1>2. CASE StartContinuation(t)
    <2>1. PICK signed \in relays, m \in Legs :
            job' = [job EXCEPT ![t] =
                      [Attest(t, "advance", m)
                         EXCEPT !.publishes = (signed.author = "merchant"),
                                !.closed = (Status(signed.state, m) = "terminal_failure")]]
      BY <1>2 DEF StartContinuation
    <2> DEFINE attest == Attest(t, "advance", m)
               begun == [attest EXCEPT
                           !.publishes = (signed.author = "merchant"),
                           !.closed = (Status(signed.state, m) = "terminal_failure")]
    <2>2. attest \in Job /\ attest.step = "attest"
      BY AttestType DEF Modes
    <2> HIDE DEF attest
    <2>3. begun \in Job /\ begun.step # "observed"
      BY <2>2 DEF Job
    <2> HIDE DEF begun
    <2>4. job' = [job EXCEPT ![t] = begun]
      BY <2>1 DEF begun, attest
    <2>5. job' \in [Tabs -> Job] /\ ObservedSeen'
      BY <2>3, <2>4, JobType
    <2> QED BY <1>2, <2>5 DEF StartContinuation, TypeOK
  <1>3. CASE StartPreparation(t)
    <2>1. PICK m \in Legs, mode \in {"prepare", "renew"} :
            job' = [job EXCEPT ![t] =
                      IF mode = "prepare" /\ Frozen(Row(t).state, m)
                      THEN Enter("retain", mode, m) ELSE Attest(t, mode, m)]
      BY <1>3 DEF StartPreparation
    <2>2. /\ Enter("retain", mode, m) \in Job /\ Attest(t, mode, m) \in Job
          /\ Enter("retain", mode, m).step # "observed"
          /\ Attest(t, mode, m).step # "observed"
      BY AttestType, EnterType DEF Modes, Steps
    <2>3. job' \in [Tabs -> Job] /\ ObservedSeen'
      BY <2>1, <2>2, JobType
    <2> QED BY <1>3, <2>3 DEF StartPreparation, TypeOK
  <1>4. CASE StartInspection(t)
    <2>1. PICK m \in Legs : job' = [job EXCEPT ![t] = Enter("begin", "inspect", m)]
      BY <1>4 DEF StartInspection, Unpaid
    <2>2. /\ Enter("begin", "inspect", m) \in Job
          /\ Enter("begin", "inspect", m).step # "observed"
      BY EnterType DEF Modes, Steps
    <2>3. job' \in [Tabs -> Job] /\ ObservedSeen'
      BY <2>1, <2>2, JobType
    <2> QED BY <1>4, <2>3 DEF StartInspection, TypeOK
  <1>5. CASE ObserveCredit(t)
    <2>1. RecordCredit(Row(t).state, Now(t)) \in Reconciliation
      BY <1>t, RecordCreditFacts
    <2>2. db' \in [Devices -> Rows]
      BY <1>5, <2>1, SaveType DEF ObserveCredit
    <2> QED BY <1>5, <2>2 DEF ObserveCredit, TypeOK, ObservedSeen
  <1>6. CASE AttestAgrees(t)
    <2>1. PICK m \in Legs : job' = [job EXCEPT ![t].todo = @ \ {m}]
      BY <1>6 DEF AttestAgrees, Attested
    <2> DEFINE next == [job[t] EXCEPT !.todo = @ \ {m}]
    <2>2. next \in Job /\ next.step = job[t].step
      BY <1>t DEF Job
    <2>3. job' = [job EXCEPT ![t] = next] /\ job[t].step = "attest"
      BY <1>6, <2>1 DEF AttestAgrees, Attesting, At
    <2> HIDE DEF next
    <2>4. job' \in [Tabs -> Job] /\ ObservedSeen'
      BY <2>2, <2>3, JobType
    <2> QED BY <1>6, <2>4 DEF AttestAgrees, TypeOK
  <1>7. CASE AttestPaid(t)
    <2> DEFINE at == ObservedAt(Row(t).state, Now(t))
    <2>1. PICK m \in Legs :
            /\ Save(t, RecordLegStatus(Row(t).state, m, "paid", at))
            /\ job' = [job EXCEPT ![t] =
                 [Holding(t, Written(t, RecordLegStatus(Row(t).state, m, "paid", at)),
                          "attest_ack") EXCEPT !.todo = @ \ {m}]]
      BY <1>7 DEF AttestPaid
    <2> DEFINE paid == RecordLegStatus(Row(t).state, m, "paid", at)
    <2>2. at \in Nat
      BY <1>t, ObservedAtFacts
    <2> HIDE DEF at
    <2>3. paid \in Reconciliation
      BY <1>t, <2>2, RecordLegStatusFacts DEF Statuses, EvidenceStatuses
    <2> HIDE DEF paid
    <2>4. db' \in [Devices -> Rows]
      BY <2>1, <2>3, SaveType DEF paid
    <2> DEFINE held == Holding(t, Written(t, paid), "attest_ack")
    <2>5. held \in Job /\ held.step = "attest_ack"
      BY <2>3, WrittenType, HoldingType DEF Steps
    <2> HIDE DEF held
    <2>6. /\ [held EXCEPT !.todo = @ \ {m}] \in Job
          /\ [held EXCEPT !.todo = @ \ {m}].step # "observed"
      BY <2>5 DEF Job
    <2>7. job' \in [Tabs -> Job] /\ ObservedSeen'
      BY <2>1, <2>6, JobType DEF paid, held
    <2> QED BY <1>7, <2>4, <2>7 DEF AttestPaid, TypeOK
  <1>8. CASE AttestAck(t)
    <2>1. relays' \subseteq Snapshots
      BY <1>8, <1>t, PublishType DEF AttestAck, TypeOK
    <2>2. job' \in [Tabs -> Job] /\ ObservedSeen'
      BY <1>8, GotoType, FinishType DEF AttestAck, Steps
    <2> QED BY <1>8, <2>1, <2>2 DEF AttestAck, TypeOK
  <1>9. CASE Select(t)
    <2>1. PICK step \in {"begin", "prepare"} :
            job' = [job EXCEPT ![t] = Holding(t, Row(t), step)]
      BY <1>9 DEF Select
    <2>2. step \in Steps \ {"observed"}
      BY DEF Steps
    <2>3. job' \in [Tabs -> Job] /\ ObservedSeen'
      BY <1>t, <2>1, <2>2, HoldStepType
    <2> QED BY <1>9, <2>3 DEF Select, TypeOK
  <1>10. CASE SelectPreparation(t)
    <2>1. PICK step \in {"retain", "prepare"} :
            job' = [job EXCEPT ![t] = Holding(t, Row(t), step)]
      BY <1>10 DEF SelectPreparation
    <2>2. step \in Steps \ {"observed"}
      BY DEF Steps
    <2>3. job' \in [Tabs -> Job] /\ ObservedSeen'
      BY <1>t, <2>1, <2>2, HoldStepType
    <2> QED BY <1>10, <2>3 DEF SelectPreparation, TypeOK
  <1>11. CASE Prepare(t)
    <2> DEFINE row == Row(t).state
               next == IF Frozen(row, l) THEN RenewLeg(row, l, DeviceOf[t], Now(t))
                                         ELSE PrepareLeg(row, l, DeviceOf[t], Now(t))
    <2>1. next \in Reconciliation
      BY <1>t, PrepareLegType, RenewLegFacts
    <2>2. /\ Save(t, next)
          /\ job' = [job EXCEPT ![t] = Holding(t, Written(t, next), "prepare_ack")]
      BY <1>11 DEF Prepare
    <2> HIDE DEF next
    <2>3. db' \in [Devices -> Rows]
      BY <2>1, <2>2, SaveType
    <2>w. Written(t, next) \in Rows /\ "prepare_ack" \in Steps \ {"observed"}
      BY <2>1, WrittenType DEF Steps
    <2>4. job' \in [Tabs -> Job] /\ ObservedSeen'
      BY <2>2, <2>w, HoldStepType
    <2> QED BY <1>11, <2>3, <2>4 DEF Prepare, TypeOK
  <1>12. CASE PrepareExisting(t)
    <2>1. job' = [job EXCEPT ![t] = Holding(t, Row(t), "prepare_ack")]
      BY <1>12 DEF PrepareExisting
    <2>s. "prepare_ack" \in Steps \ {"observed"}
      BY DEF Steps
    <2>2. job' \in [Tabs -> Job] /\ ObservedSeen'
      BY <1>t, <2>1, <2>s, HoldStepType
    <2> QED BY <1>12, <2>2 DEF PrepareExisting, TypeOK
  <1>13. CASE RetainExisting(t)
    <2> DEFINE late == [Row(t).state EXCEPT !.updatedAt = Later(Now(t), TakeoverAt)]
               kept == IF Row(t).state.updatedAt < TakeoverAt THEN Written(t, late)
                                                              ELSE Row(t)
    <2>1. late \in Reconciliation
      BY <1>t, TimeAssumption, LaterFacts DEF Reconciliation
    <2> HIDE DEF late
    <2>2. kept \in Rows
      BY <1>t, <2>1, WrittenType
    <2>3. /\ db' = [db EXCEPT ![DeviceOf[t]] = kept]
          /\ job' = [job EXCEPT ![t] = Holding(t, kept, "prepare_ack")]
      BY <1>13 DEF RetainExisting, late
    <2> HIDE DEF kept
    <2>4. db' \in [Devices -> Rows]
      BY <1>t, <2>2, <2>3 DEF TypeOK
    <2>s. "prepare_ack" \in Steps \ {"observed"}
      BY DEF Steps
    <2>5. job' \in [Tabs -> Job] /\ ObservedSeen'
      BY <2>2, <2>3, <2>s, HoldStepType
    <2> QED BY <1>13, <2>4, <2>5 DEF RetainExisting, TypeOK
  <1>14. CASE PrepareAck(t)
    <2>1. relays' \subseteq Snapshots
      BY <1>14, <1>t, PublishType DEF PrepareAck
    <2>2. job' \in [Tabs -> Job] /\ ObservedSeen'
      BY <1>14, FinishType DEF PrepareAck
    <2> QED BY <1>14, <2>1, <2>2 DEF PrepareAck, TypeOK
  <1>15. CASE Begin(t)
    <2>1. CASE Finish(t) /\ Forget(t, l)
      <3>1. job' \in [Tabs -> Job] /\ ObservedSeen' /\ caps' \in [Tabs -> [Legs -> Nat]]
        BY <1>t, <2>1, FinishType, ForgetType
      <3> QED BY <1>15, <3>1 DEF Begin, TypeOK
    <2>2. CASE ~(Finish(t) /\ Forget(t, l))
      <3>1. PICK step \in {"observe", "handoff"}, cancelled \in BOOLEAN :
              /\ job' = [job EXCEPT ![t] =
                           [Holding(t, Row(t), step) EXCEPT !.cancelled = cancelled]]
              /\ UNCHANGED caps
        BY <1>15, <2>2 DEF Begin, LiveCancellation
      <3> DEFINE held == Holding(t, Row(t), step)
      <3>2. held \in Job /\ held.step = step
        BY <1>t, HoldingType DEF Steps
      <3> HIDE DEF held
      <3>3. /\ [held EXCEPT !.cancelled = cancelled] \in Job
            /\ [held EXCEPT !.cancelled = cancelled].step # "observed"
        BY <3>2 DEF Job
      <3>4. job' \in [Tabs -> Job] /\ ObservedSeen'
        BY <3>1, <3>3, JobType DEF held
      <3> QED BY <1>15, <3>1, <3>4 DEF Begin, TypeOK
    <2> QED BY <2>1, <2>2
  <1>16. CASE Handoff(t)
    <2>1. relays' \subseteq Snapshots
      BY <1>16, <1>t, PublishType DEF Handoff
    <2>2. job' \in [Tabs -> Job] /\ ObservedSeen'
      BY <1>16, GotoType, FinishType DEF Handoff, Steps
    <2> QED BY <1>16, <2>1, <2>2 DEF Handoff, TypeOK
  <1>17. CASE Observe(t)
    <2>1. PICK seen \in Readings :
            /\ job' = [job EXCEPT ![t].step = "observed", ![t].seen = seen]
            /\ Forget(t, l) \/ UNCHANGED caps
      BY <1>17, <1>t, ExactHistoryType DEF Observe, Readings
    <2>2. job' = [job EXCEPT ![t] = [job[t] EXCEPT !.step = "observed", !.seen = seen]]
      BY <2>1 DEF TypeOK
    <2>3. /\ [job[t] EXCEPT !.step = "observed", !.seen = seen] \in Job
          /\ [job[t] EXCEPT !.step = "observed", !.seen = seen].seen = seen
      BY <1>t DEF Job, Steps, Readings, Observations
    <2>4. job' \in [Tabs -> Job] /\ ObservedSeen' /\ caps' \in [Tabs -> [Legs -> Nat]]
      BY <1>t, <2>1, <2>2, <2>3, JobType, ForgetType
    <2> QED BY <1>17, <2>4 DEF Observe, TypeOK
  <1>18. CASE RecordObserved(t)
    <2>1. RecordedAs(job[t].seen) \in Statuses
      <3>1. job[t].seen \in Readings \ {"not_found"}
        BY <1>18 DEF RecordObserved, At, ObservedSeen
      <3> QED BY <3>1 DEF RecordedAs, Readings, Statuses, EvidenceStatuses, PossibleSend
    <2>2. Recorded(t, RecordedAs(job[t].seen)) \in Reconciliation
      BY <2>1, RecordedType
    <2>3. db' \in [Devices -> Rows]
      BY <1>18, <2>2, SaveType DEF RecordObserved
    <2>4. job' \in [Tabs -> Job] /\ ObservedSeen'
      BY <1>18, FinishType DEF RecordObserved
    <2> QED BY <1>18, <2>3, <2>4 DEF RecordObserved, TypeOK
  <1>19. CASE WriteAhead(t)
    <2>1. PICK cancelled \in BOOLEAN, at \in Nat :
            LET from == IF cancelled THEN Reopened(s, l, "prepared") ELSE s
                next == RecordLegStatus(from, l, "submitted", at)
            IN /\ Save(t, next)
               /\ job' = [job EXCEPT ![t] =
                            [Holding(t, Written(t, next), "submitted_ack")
                               EXCEPT !.cancelled = FALSE]]
               /\ Forget(t, l) \/ UNCHANGED caps
      BY <1>19, <1>t, <1>s DEF WriteAhead, Job
    <2> DEFINE from == IF cancelled THEN Reopened(s, l, "prepared") ELSE s
               next == RecordLegStatus(from, l, "submitted", at)
    <2>2. "prepared" \in Statuses /\ "submitted" \in Statuses
      BY DEF Statuses, EvidenceStatuses, PossibleSend
    <2>3. from \in Reconciliation
      BY <1>t, <2>2, ReopenedFacts
    <2> HIDE DEF from
    <2>4. next \in Reconciliation
      BY <1>t, <2>2, <2>3, RecordLegStatusFacts
    <2>5. /\ Save(t, next)
          /\ job' = [job EXCEPT ![t] =
                       [Holding(t, Written(t, next), "submitted_ack")
                          EXCEPT !.cancelled = FALSE]]
          /\ Forget(t, l) \/ UNCHANGED caps
      BY <2>1 DEF from
    <2> HIDE DEF next
    <2>6. db' \in [Devices -> Rows] /\ caps' \in [Tabs -> [Legs -> Nat]]
      BY <1>t, <2>4, <2>5, SaveType, ForgetType
    <2> DEFINE held == Holding(t, Written(t, next), "submitted_ack")
    <2>7. held \in Job /\ held.step = "submitted_ack"
      BY <2>4, WrittenType, HoldingType DEF Steps
    <2> HIDE DEF held
    <2>8. /\ [held EXCEPT !.cancelled = FALSE] \in Job
          /\ [held EXCEPT !.cancelled = FALSE].step # "observed"
      BY <2>7 DEF Job
    <2>9. job' \in [Tabs -> Job] /\ ObservedSeen'
      BY <2>5, <2>8, JobType DEF held
    <2> QED BY <1>19, <2>6, <2>9 DEF WriteAhead, TypeOK
  <1>20. CASE HandoffSubmitted(t)
    <2>1. relays' \subseteq Snapshots
      BY <1>20, <1>t, PublishType DEF HandoffSubmitted
    <2>2. job' \in [Tabs -> Job] /\ ObservedSeen'
      BY <1>20, GotoType DEF HandoffSubmitted, Steps
    <2> QED BY <1>20, <2>1, <2>2 DEF HandoffSubmitted, TypeOK
  <1>21. CASE Cancel(t)
    <2> DEFINE next == Recorded(t, "terminal_failure")
    <2>1. next \in Reconciliation
      BY RecordedType DEF Statuses, EvidenceStatuses
    <2>2. /\ Save(t, next)
          /\ job' = [job EXCEPT ![t] = Holding(t, Written(t, next), "readback")]
      BY <1>21 DEF Cancel
    <2> HIDE DEF next
    <2>3. db' \in [Devices -> Rows]
      BY <2>1, <2>2, SaveType
    <2>w. Written(t, next) \in Rows /\ "readback" \in Steps \ {"observed"}
      BY <2>1, WrittenType DEF Steps
    <2>4. job' \in [Tabs -> Job] /\ ObservedSeen'
      BY <2>2, <2>w, HoldStepType
    <2> QED BY <1>21, <2>3, <2>4 DEF Cancel, TypeOK
  <1>22. CASE RememberCancellation(t)
    <2>1. job' \in [Tabs -> Job] /\ ObservedSeen'
      BY <1>22, FinishType DEF RememberCancellation
    <2>2. caps' \in [Tabs -> [Legs -> Nat]]
      BY <1>22, <1>t DEF RememberCancellation, TypeOK
    <2> QED BY <1>22, <2>1, <2>2 DEF RememberCancellation, TypeOK
  <1>23. CASE Recheck(t)
    <2>1. job' \in [Tabs -> Job] /\ ObservedSeen'
      BY <1>23, GotoType DEF Recheck, Steps
    <2> QED BY <1>23, <2>1 DEF Recheck, TypeOK
  <1>24. ASSUME NEW seen \in Observations,
                job' = [job EXCEPT ![t].step = "sent", ![t].seen = seen]
         PROVE  job' \in [Tabs -> Job] /\ ObservedSeen'
    <2>1. job' = [job EXCEPT ![t] = [job[t] EXCEPT !.step = "sent", !.seen = seen]]
      BY <1>24 DEF TypeOK
    <2>2. /\ [job[t] EXCEPT !.step = "sent", !.seen = seen] \in Job
          /\ [job[t] EXCEPT !.step = "sent", !.seen = seen].step # "observed"
      BY <1>t DEF Job, Steps
    <2> QED BY <2>1, <2>2, JobType
  <1>25. ExactHistory(s, l) \in Observations
    BY <1>t, ExactHistoryType DEF Readings, Observations
  <1>26. CASE SendFindsHistory(t)
    <2>1. job' \in [Tabs -> Job] /\ ObservedSeen'
      BY <1>24, <1>25, <1>26 DEF SendFindsHistory
    <2> QED BY <1>26, <2>1 DEF SendFindsHistory, TypeOK
  <1>27. CASE SendRefused(t)
    <2>1. job' \in [Tabs -> Job] /\ ObservedSeen'
      BY <1>24, <1>27 DEF SendRefused, Observations
    <2> QED BY <1>27, <2>1 DEF SendRefused, TypeOK
  <1>28. CASE CallProvider(t)
    <2>1. job' \in [Tabs -> Job] /\ ObservedSeen'
      BY <1>28, GotoType DEF CallProvider, Steps
    <2> DEFINE g == Generation(s, l)
               p == [leg |-> l, generation |-> g, issuer |-> Current(s, l).issuer]
    <2>2. /\ wire' = wire \cup {p}
          /\ calls' = [calls EXCEPT ![DeviceOf[t]][<<l, g>>] = @ + 1]
      BY <1>28 DEF CallProvider
    <2>3. g \in Generations
      BY <1>t, PartTypes
    <2>4. p \in Payments
      <3>1. Current(s, l).issuer \in Devices \cup {NoDevice}
        BY <1>t, PartTypes DEF Attempt
      <3> QED BY <1>t, <2>3, <3>1 DEF Payments
    <2> HIDE DEF g, p
    <2>5. wire' \subseteq Payments
      BY <2>2, <2>4 DEF TypeOK
    <2>6. calls' \in [Devices -> [Legs \X Generations -> Nat]]
      <3> DEFINE mine == calls[DeviceOf[t]]
      <3>1. calls' = [calls EXCEPT ![DeviceOf[t]] = [mine EXCEPT ![<<l, g>>] = @ + 1]]
        BY <2>2
      <3>2. mine \in [Legs \X Generations -> Nat] /\ <<l, g>> \in Legs \X Generations
        BY <1>t, <2>3 DEF TypeOK
      <3> HIDE DEF mine
      <3>3. [mine EXCEPT ![<<l, g>>] = @ + 1] \in [Legs \X Generations -> Nat]
        BY <3>2
      <3> QED BY <1>t, <3>1, <3>3 DEF TypeOK
    <2> QED BY <1>28, <2>1, <2>5, <2>6 DEF CallProvider, TypeOK
  <1>29. CASE SendReturns(t)
    <2>1. job' \in [Tabs -> Job] /\ ObservedSeen'
      BY <1>24, <1>25, <1>29 DEF SendReturns, Observations
    <2> QED BY <1>29, <2>1 DEF SendReturns, TypeOK
  <1>30. CASE SendAmbiguous(t)
    <2>1. job' \in [Tabs -> Job] /\ ObservedSeen'
      BY <1>30, FinishType DEF SendAmbiguous
    <2> QED BY <1>30, <2>1 DEF SendAmbiguous, TypeOK
  <1>31. CASE RecordSent(t)
    <2>1. PICK status \in {"paid", "terminal_failure"} :
            /\ Save(t, Recorded(t, status))
            /\ \/ job' = [job EXCEPT ![t] =
                            Holding(t, Written(t, Recorded(t, status)), "paid_ack")]
               \/ Finish(t)
      BY <1>31 DEF RecordSent
    <2> DEFINE next == Recorded(t, status)
    <2>2. next \in Reconciliation
      BY RecordedType DEF Statuses, EvidenceStatuses
    <2>3. /\ Save(t, next)
          /\ \/ job' = [job EXCEPT ![t] = Holding(t, Written(t, next), "paid_ack")]
             \/ Finish(t)
      BY <2>1
    <2> HIDE DEF next
    <2>4. db' \in [Devices -> Rows]
      BY <2>2, <2>3, SaveType
    <2>w. Written(t, next) \in Rows /\ "paid_ack" \in Steps \ {"observed"}
      BY <2>2, WrittenType DEF Steps
    <2>5. job' \in [Tabs -> Job] /\ ObservedSeen'
      BY <2>3, <2>w, HoldStepType, FinishType
    <2> QED BY <1>31, <2>4, <2>5 DEF RecordSent, TypeOK
  <1>32. CASE PaidAck(t)
    <2>1. relays' \subseteq Snapshots
      BY <1>32, <1>t, PublishType DEF PaidAck
    <2>2. job' \in [Tabs -> Job] /\ ObservedSeen'
      BY <1>32, FinishType DEF PaidAck
    <2> QED BY <1>32, <2>1, <2>2 DEF PaidAck, TypeOK
  <1> QED
    BY <1>1, <1>2, <1>3, <1>4, <1>5, <1>6, <1>7, <1>8, <1>9, <1>10, <1>11, <1>12,
       <1>13, <1>14, <1>15, <1>16, <1>17, <1>18, <1>19, <1>20, <1>21, <1>22, <1>23,
       <1>26, <1>27, <1>28, <1>29, <1>30, <1>31, <1>32 DEF TabStep

\* So does a step of anything else.
LEMMA OtherStepType ==
  ASSUME TypeOK, ObservedSeen, [Next]_vars,
         \A t \in Tabs : ~TabStep(t)
  PROVE  TypeOK' /\ ObservedSeen'
  <1>1. ASSUME NEW t \in Tabs, Abort(t)
        PROVE  TypeOK' /\ ObservedSeen'
    <2>1. job' \in [Tabs -> Job] /\ ObservedSeen'
      BY <1>1, FinishType DEF Abort
    <2> QED BY <1>1, <2>1 DEF Abort, TypeOK
  <1>2. ASSUME NEW t \in Tabs, Crash(t)
        PROVE  TypeOK' /\ ObservedSeen'
    <2>1. job' \in [Tabs -> Job] /\ ObservedSeen'
      BY <1>2, FinishType DEF Crash
    <2>2. caps' \in [Tabs -> [Legs -> Nat]]
      BY <1>2 DEF Crash, TypeOK
    <2> QED BY <1>2, <2>1, <2>2 DEF Crash, TypeOK
  <1>3. ASSUME NEW d \in Devices, NEW snapshot \in relays, Import(d, snapshot)
        PROVE  TypeOK' /\ ObservedSeen'
    <2>1. [revision |-> db[d].revision + 1, state |-> snapshot.state] \in Rows
      BY DEF TypeOK, Rows, Snapshots
    <2>2. db' \in [Devices -> Rows]
      BY <1>3, <2>1 DEF Import, TypeOK
    <2> QED BY <1>3, <2>2 DEF Import, TypeOK, ObservedSeen
  <1>4. ASSUME NEW p \in wire, ProviderReceives(p)
        PROVE  TypeOK' /\ ObservedSeen'
    <2> DEFINE id == TransferId(p.leg, p.generation, p.issuer)
    <2>1. p.leg \in Legs /\ p.generation \in Generations
          /\ p.issuer \in Devices \cup {NoDevice}
      BY DEF TypeOK, Payments
    <2>2. [status |-> "pending", issuer |-> p.issuer] \in Transfer
      BY <2>1 DEF Transfer
    <2>3. /\ history' = IF history[id] = NoTransfer
                        THEN [history EXCEPT ![id] = [status |-> "pending",
                                                      issuer |-> p.issuer]]
                        ELSE history
          /\ wire' \subseteq wire
      BY <1>4 DEF ProviderReceives
    <2> HIDE DEF id
    <2>4. history' \in [TransferIds -> Transfer]
      BY <2>2, <2>3 DEF TypeOK
    <2> QED BY <1>4, <2>3, <2>4 DEF ProviderReceives, TypeOK, ObservedSeen
  <1>5. ASSUME NEW p \in wire, RequestLost(p)
        PROVE  TypeOK' /\ ObservedSeen'
    BY <1>5 DEF RequestLost, TypeOK, ObservedSeen
  <1>6. ASSUME NEW id \in TransferIds, ProviderMoves(id)
        PROVE  TypeOK' /\ ObservedSeen'
    <2>1. PICK step \in {<<"pending", "paid">>, <<"pending", "failed">>,
                         <<"failed", "returned">>} :
            /\ history' = [history EXCEPT ![id].status = step[2]]
            /\ UNCHANGED <<now, db, relays, job, caps, wire, calls>>
      BY <1>6, Zenon DEF ProviderMoves
    <2> DEFINE status == step[2]
    <2>2. status \in {"paid", "failed", "returned"}
      OBVIOUS
    <2>3. history' = [history EXCEPT ![id].status = status]
      BY <2>1
    <2> HIDE DEF status
    <2>4. [history[id] EXCEPT !.status = status] \in Transfer
      BY <2>2 DEF TypeOK, Transfer
    <2>5. history' \in [TransferIds -> Transfer]
      BY <2>3, <2>4 DEF TypeOK
    <2> QED BY <2>1, <2>5 DEF TypeOK, ObservedSeen
  <1>7. CASE Tick
    <2>1. now' = now + 1 /\ UNCHANGED <<db, relays, job, caps, history, wire, calls>>
      BY <1>7 DEF Tick
    <2>2. now' \in Nat
      BY <2>1 DEF TypeOK
    <2> QED BY <2>1, <2>2 DEF TypeOK, ObservedSeen
  <1>8. CASE UNCHANGED vars
    BY <1>8 DEF vars, TypeOK, ObservedSeen
  <1> QED
    BY <1>1, <1>2, <1>3, <1>4, <1>5, <1>6, <1>7, <1>8 DEF Next, ProviderStep

\* The initial state has the types.
LEMMA InitType == Init => TypeOK /\ ObservedSeen
  <1> SUFFICES ASSUME Init PROVE TypeOK /\ ObservedSeen
    OBVIOUS
  <1>1. /\ CreateReconciliation(0) \in Reconciliation
        /\ IdleJob \in Job /\ IdleJob.step # "observed"
        /\ NoTransfer \in Transfer
    BY CreateType, IdleJobType DEF IdleJob, NoTransfer, Transfer
  <1> HIDE DEF IdleJob
  <1>2. db \in [Devices -> Rows]
    BY <1>1 DEF Init, Rows
  <1>3. relays \subseteq Snapshots
    BY <1>1 DEF Init, Snapshots
  <1>4. job \in [Tabs -> Job] /\ ObservedSeen
    BY <1>1 DEF Init, ObservedSeen
  <1>5. /\ now \in Nat
        /\ caps \in [Tabs -> [Legs -> Nat]]
        /\ history \in [TransferIds -> Transfer]
        /\ wire \subseteq Payments
        /\ calls \in [Devices -> [Legs \X Generations -> Nat]]
    BY <1>1 DEF Init
  <1> QED BY <1>2, <1>3, <1>4, <1>5 DEF TypeOK

\* Every reachable state has its shape, and a tab that has looked holds a reading.
LEMMA ShapeInvariant == Spec => [](TypeOK /\ ObservedSeen)
  <1>1. TypeOK /\ ObservedSeen /\ [Next]_vars => (TypeOK /\ ObservedSeen)'
    BY TabStepType, OtherStepType
  <1> QED BY InitType, <1>1, PTL DEF Spec

\* Type correctness: every variable keeps the shape the code gives it, for any
\* number of legs, devices and tabs.
THEOREM TypeCorrect == Spec => []TypeOK
  BY ShapeInvariant, PTL

-----------------------------------------------------------------------------
(* A leg is paid once.                                                     *)

\* A tab moves the provider only by calling it.
LEMMA OnlyCallsReachProvider ==
  ASSUME NEW t \in Tabs, TabStep(t)
  PROVE  UNCHANGED history /\ (UNCHANGED <<wire, calls>> \/ CallProvider(t))
  BY DEF TabStep, StartShopper, StartContinuation, StartPreparation,
         StartInspection, ObserveCredit, AttestAgrees, AttestPaid, AttestAck,
         Select, SelectPreparation, Prepare, PrepareExisting, RetainExisting,
         PrepareAck, Begin, Handoff, Observe, RecordObserved, WriteAhead,
         HandoffSubmitted, Cancel, RememberCancellation, Recheck,
         SendFindsHistory, SendRefused, CallProvider, SendReturns,
         SendAmbiguous, RecordSent, PaidAck

\* The inductive invariant: a request or a transfer of a renewed generation
\* exists only after the first generation of its leg came back.  The half about
\* the wire is what carries the proof the sender saw (ParentReturned) to the
\* moment the provider takes the request.
IsReturned(l) == history[<<l, 0>>].status = "returned"
RenewedAfterReturn ==
  /\ \A p \in wire : p.generation = 1 => IsReturned(p.leg)
  /\ \A l \in Legs : history[<<l, 1>>] # NoTransfer => IsReturned(l)

\* What came back has come back for good, and a transfer is never forgotten.
LEMMA ReturnIsFinal ==
  ASSUME TypeOK, [Next]_vars, NEW l \in Legs, IsReturned(l)
  PROVE  IsReturned(l)'
  <1>1. <<l, 0>> \in TransferIds
    BY TransferIdFacts
  <1>2. CASE UNCHANGED history
    BY <1>2 DEF IsReturned
  <1>3. ASSUME NEW p \in wire, ProviderReceives(p)
        PROVE  IsReturned(l)'
    <2>1. history[<<l, 0>>] # NoTransfer
      BY DEF IsReturned, NoTransfer
    <2>2. history'[<<l, 0>>] = history[<<l, 0>>]
      BY <1>1, <1>3, <2>1 DEF ProviderReceives, TypeOK
    <2> QED BY <2>2 DEF IsReturned
  <1>4. ASSUME NEW id \in TransferIds, ProviderMoves(id)
        PROVE  IsReturned(l)'
    <2>1. PICK step \in {<<"pending", "paid">>, <<"pending", "failed">>,
                         <<"failed", "returned">>} :
            /\ history[id].status = step[1]
            /\ history' = [history EXCEPT ![id].status = step[2]]
      BY <1>4, Zenon DEF ProviderMoves
    <2>2. step[1] # "returned"
      OBVIOUS
    <2>3. id # <<l, 0>>
      BY <2>1, <2>2 DEF IsReturned
    <2>4. history'[<<l, 0>>] = history[<<l, 0>>]
      BY <1>1, <2>1, <2>3 DEF TypeOK
    <2> QED BY <2>4 DEF IsReturned
  <1>5. ASSUME NEW t \in Tabs, TabStep(t)
        PROVE  UNCHANGED history
    BY <1>5, OnlyCallsReachProvider
  <1> QED
    BY <1>2, <1>3, <1>4, <1>5
    DEF Next, ProviderStep, vars, Abort, Crash, Import, RequestLost, Tick

\* Every step keeps the renewals behind their returns.
LEMMA RenewedAfterReturnStep ==
  ASSUME TypeOK, RenewedAfterReturn, [Next]_vars
  PROVE  RenewedAfterReturn'
  <1>1. \A l \in Legs : IsReturned(l) => IsReturned(l)'
    BY ReturnIsFinal
  <1>2. \A p \in wire : p.leg \in Legs /\ p.generation \in {0, 1}
    BY DEF TypeOK, Payments, Generations
  <1>3. ASSUME wire' \subseteq wire, UNCHANGED history
        PROVE  RenewedAfterReturn'
    BY <1>3 DEF RenewedAfterReturn, IsReturned
  <1>4. ASSUME NEW p \in wire, ProviderReceives(p)
        PROVE  RenewedAfterReturn'
    <2>1. wire' \subseteq wire
      BY <1>4 DEF ProviderReceives
    <2>2. ASSUME NEW l \in Legs, history'[<<l, 1>>] # NoTransfer
          PROVE  IsReturned(l)
      <3>1. CASE history[<<l, 1>>] # NoTransfer
        BY <3>1 DEF RenewedAfterReturn
      <3>2. CASE history[<<l, 1>>] = NoTransfer
        <4>1. <<l, 1>> = <<p.leg, p.generation>>
          BY <1>4, <2>2, <3>2 DEF ProviderReceives, TransferId, TypeOK
        <4> QED BY <4>1 DEF RenewedAfterReturn
      <3> QED BY <3>1, <3>2
    <2>3. ASSUME NEW q \in wire', q.generation = 1
          PROVE  IsReturned(q.leg)'
      BY <1>1, <1>2, <2>1, <2>3 DEF RenewedAfterReturn
    <2>4. ASSUME NEW l \in Legs, history'[<<l, 1>>] # NoTransfer
          PROVE  IsReturned(l)'
      BY <1>1, <2>2, <2>4
    <2> QED BY <2>3, <2>4 DEF RenewedAfterReturn
  <1>5. ASSUME NEW id \in TransferIds, ProviderMoves(id)
        PROVE  RenewedAfterReturn'
    <2>1. UNCHANGED wire
      BY <1>5 DEF ProviderMoves
    <2>2. PICK step \in {<<"pending", "paid">>, <<"pending", "failed">>,
                         <<"failed", "returned">>} :
            /\ history[id].status = step[1]
            /\ history' = [history EXCEPT ![id].status = step[2]]
      BY <1>5, Zenon DEF ProviderMoves
    <2>3. step[1] # "none"
      OBVIOUS
    <2>4. history[id] # NoTransfer
      BY <2>2, <2>3 DEF NoTransfer
    <2>5. ASSUME NEW l \in Legs, history'[<<l, 1>>] # NoTransfer
          PROVE  history[<<l, 1>>] # NoTransfer
      <3>1. CASE id = <<l, 1>>
        BY <2>4, <3>1
      <3>2. CASE id # <<l, 1>>
        <4>1. <<l, 1>> \in TransferIds
          BY TransferIdFacts
        <4>2. history'[<<l, 1>>] = history[<<l, 1>>]
          BY <2>2, <3>2, <4>1 DEF TypeOK
        <4> QED BY <2>5, <4>2
      <3> QED BY <3>1, <3>2
    <2>6. ASSUME NEW l \in Legs, history'[<<l, 1>>] # NoTransfer
          PROVE  IsReturned(l)'
      BY <1>1, <2>5, <2>6 DEF RenewedAfterReturn
    <2>7. ASSUME NEW q \in wire', q.generation = 1
          PROVE  IsReturned(q.leg)'
      BY <1>1, <1>2, <2>1, <2>7 DEF RenewedAfterReturn
    <2> QED BY <2>6, <2>7 DEF RenewedAfterReturn
  <1>6. ASSUME NEW t \in Tabs, CallProvider(t)
        PROVE  RenewedAfterReturn'
    <2> DEFINE s == job[t].state
               l == job[t].leg
               p == [leg |-> l, generation |-> Generation(s, l),
                     issuer |-> Current(s, l).issuer]
    <2>1. /\ ParentReturned(t, s, l)
          /\ wire' = wire \cup {p}
          /\ UNCHANGED history
      BY <1>6 DEF CallProvider
    <2>2. p.generation = 1 => IsReturned(p.leg)
      BY <2>1 DEF ParentReturned, FullyReturned, TransferId, IsReturned
    <2> HIDE DEF p
    <2> QED BY <2>1, <2>2 DEF RenewedAfterReturn, IsReturned
  <1>7. ASSUME NEW t \in Tabs, TabStep(t)
        PROVE  RenewedAfterReturn'
    BY <1>3, <1>6, <1>7, OnlyCallsReachProvider
  <1>8. ASSUME NEW p \in wire, RequestLost(p)
        PROVE  RenewedAfterReturn'
    BY <1>3, <1>8 DEF RequestLost
  <1> QED
    BY <1>3, <1>4, <1>5, <1>7, <1>8
    DEF Next, ProviderStep, vars, Abort, Crash, Import, Tick

\* The invariant is enough: two transfers of one leg differ in the generation,
\* and the renewed one waited for the first to come back.
LEMMA RenewedAfterReturnPaysOnce ==
  ASSUME RenewedAfterReturn
  PROVE  LegPaidOnce
  <1> SUFFICES ASSUME NEW i \in TransferIds, NEW j \in TransferIds,
                      i # j, i[1] = j[1],
                      history[i] # NoTransfer, history[j] # NoTransfer
               PROVE  "returned" \in {history[i].status, history[j].status}
    BY DEF LegPaidOnce
  <1>1. PICK l \in Legs, g \in Generations, m \in Legs, h \in Generations :
          i = <<l, g>> /\ j = <<m, h>>
    BY TransferIdFacts
  <1>2. l = m /\ {g, h} = {0, 1}
    BY <1>1 DEF Generations
  <1>3. IsReturned(l)
    BY <1>1, <1>2 DEF RenewedAfterReturn
  <1> QED BY <1>1, <1>2, <1>3 DEF IsReturned

\* The renewal invariant holds in every reachable state.
LEMMA RenewalInvariant == Spec => []RenewedAfterReturn
  <1>1. Init => RenewedAfterReturn
    BY TransferIdFacts DEF Init, RenewedAfterReturn
  <1>2. TypeOK /\ RenewedAfterReturn /\ [Next]_vars => RenewedAfterReturn'
    BY RenewedAfterReturnStep
  <1> QED BY TypeCorrect, <1>1, <1>2, PTL DEF Spec

\* No leg ever has two transfers that both keep its money, however many devices
\* freeze invoices for it, send, crash, cancel, renew and send again
\* (createCheckoutSparkSettledTransferId, appendCheckoutSparkSettledRenewal).
THEOREM PaidOnce == Spec => []LegPaidOnce
  <1>1. RenewedAfterReturn => LegPaidOnce
    BY RenewedAfterReturnPaysOnce
  <1> QED BY RenewalInvariant, <1>1, PTL

-----------------------------------------------------------------------------
(* Every stored record can be loaded again.                                *)

\* The inductive invariant: the records of the rows, of the snapshots and of
\* the invocations - which publish what they hold - are all restorable.
RecordsRestorable ==
  /\ RowsRestorable
  /\ \A t \in Tabs : Restorable(job[t].state)

\* A step of one tab that saves a restorable record, or none, publishes only
\* what the tab holds, and goes on with a restorable record, keeps them all so.
LEMMA RestorableStep ==
  ASSUME TypeOK, RecordsRestorable, NEW t \in Tabs, NEW j,
         job' = [job EXCEPT ![t] = j],
         Restorable(j.state),
         \A d \in Devices : db'[d] = db[d] \/ Restorable(db'[d].state),
         \A snapshot \in relays' : snapshot \in relays \/ snapshot.state = job[t].state
  PROVE  RecordsRestorable'
  <1>1. RowsRestorable'
    BY DEF RecordsRestorable, RowsRestorable
  <1>2. \A u \in Tabs : Restorable(job'[u].state)
    BY DEF RecordsRestorable, TypeOK
  <1> QED BY <1>1, <1>2 DEF RecordsRestorable

\* Saving writes one row.
LEMMA SaveRestorable ==
  ASSUME TypeOK, NEW t \in Tabs, NEW s, Save(t, s), Restorable(s)
  PROVE  \A d \in Devices : db'[d] = db[d] \/ Restorable(db'[d].state)
  BY TabTypes DEF Save, Written, TypeOK

\* What the outgoing step records is restorable.
LEMMA RecordedRestorable ==
  ASSUME TypeOK, NEW t \in Tabs, NEW status \in EvidenceStatuses,
         Restorable(job[t].state), CanRecord(t, status)
  PROVE  Restorable(Recorded(t, status))
  <1> DEFINE at == ObservedAt(job[t].state, Now(t))
  <1>1. at \in Nat
    BY TabTypes, ObservedAtFacts
  <1>2. CanRecordLegStatus(job[t].state, job[t].leg, status, at)
    BY DEF CanRecord
  <1> HIDE DEF at
  <1>3. Restorable(RecordLegStatus(job[t].state, job[t].leg, status, at))
    BY <1>1, <1>2, TabTypes, RecordLegStatusRestorable
  <1> QED BY <1>3 DEF Recorded, at

\* What an invocation begins with is restorable.
LEMMA BeginningRestorable ==
  ASSUME TypeOK, RecordsRestorable, NEW t \in Tabs
  PROVE  /\ Restorable(Row(t).state) /\ Restorable(job[t].state)
         /\ Restorable(IdleJob.state)
         /\ \A mode, l : Restorable(Attest(t, mode, l).state)
         /\ \A step, mode, l : Restorable(Enter(step, mode, l).state)
         /\ \A row, step : Holding(t, row, step).state = row.state
  <1>1. Restorable(Row(t).state) /\ Restorable(job[t].state)
    BY TabTypes DEF RecordsRestorable, RowsRestorable, Row
  <1>2. Restorable(IdleJob.state)
    BY CreateRestorable DEF IdleJob
  <1>3. IdleJob \in Job /\ job[t] \in Job
    BY IdleJobType, TabTypes
  <1> HIDE DEF IdleJob
  <1>4. \A mode, l : Attest(t, mode, l).state = Row(t).state
    BY <1>3 DEF Attest, Job
  <1>5. \A step, mode, l : Enter(step, mode, l).state = IdleJob.state
    BY <1>3 DEF Enter, Job
  <1>6. \A row, step : Holding(t, row, step).state = row.state
    BY <1>3 DEF Holding, Job
  <1> QED BY <1>1, <1>2, <1>4, <1>5, <1>6

\* Every step of a tab keeps the records restorable.
LEMMA TabStepRestorable ==
  ASSUME TypeOK, ObservedSeen, RecordsRestorable, NEW t \in Tabs, TabStep(t)
  PROVE  RecordsRestorable'
  <1> DEFINE l == job[t].leg
             s == job[t].state
             row == Row(t).state
             Kept == \A d \in Devices : db'[d] = db[d] \/ Restorable(db'[d].state)
             Told == \A snapshot \in relays' :
                       snapshot \in relays \/ snapshot.state = s
  <1>t. /\ DeviceOf[t] \in Devices
        /\ row \in Reconciliation /\ l \in Legs /\ s \in Reconciliation
        /\ job[t] \in Job /\ Now(t) \in Nat
    BY TabTypes
  <1>r. /\ Restorable(row) /\ Restorable(s) /\ Restorable(IdleJob.state)
        /\ \A mode, m : Restorable(Attest(t, mode, m).state)
        /\ \A step, mode, m : Restorable(Enter(step, mode, m).state)
        /\ \A r, step : Holding(t, r, step).state = r.state
    BY BeginningRestorable
  <1>h. \A r, step : Restorable(r.state) => Restorable(Holding(t, r, step).state)
    BY <1>r
  <1>w. \A r : Written(t, r).state = r
    BY DEF Written
  <1>b. ASSUME NEW j, job' = [job EXCEPT ![t] = j], Restorable(j.state), Kept, Told
        PROVE  RecordsRestorable'
    BY <1>b, RestorableStep
  <1> HIDE DEF s, row, Kept, Told
  <1>q. UNCHANGED db => Kept
    BY DEF Kept
  <1>p. UNCHANGED relays => Told
    BY DEF Told
  <1>v. \A r : Save(t, r) /\ Restorable(r) => Kept
    BY SaveRestorable DEF Kept
  <1>f. Finish(t) /\ Kept /\ Told => RecordsRestorable'
    BY <1>b, <1>r DEF Finish
  <1>g. ASSUME NEW step, Goto(t, step), Kept, Told
        PROVE  RecordsRestorable'
    <2>1. /\ job' = [job EXCEPT ![t] = [job[t] EXCEPT !.step = step]]
          /\ [job[t] EXCEPT !.step = step].state = s
      BY <1>g, <1>t DEF Goto, Job, s
    <2> QED BY <1>b, <1>g, <1>r, <2>1
  <1>o. Publish(t, s) => Told
    BY DEF Publish, Told
  <1>1. CASE StartShopper(t)
    <2>1. PICK m \in Legs, mode \in {"advance", "inspect"} :
            job' = [job EXCEPT ![t] = Attest(t, mode, m)]
      BY <1>1 DEF StartShopper
    <2> QED BY <1>1, <1>b, <1>p, <1>q, <1>r, <2>1 DEF StartShopper
  <1>2. CASE StartContinuation(t)
    <2>1. PICK signed \in relays, m \in Legs :
            job' = [job EXCEPT ![t] =
                      [Attest(t, "advance", m)
                         EXCEPT !.publishes = (signed.author = "merchant"),
                                !.closed = (Status(signed.state, m) = "terminal_failure")]]
      BY <1>2 DEF StartContinuation
    <2> DEFINE attest == Attest(t, "advance", m)
               begun == [attest EXCEPT
                           !.publishes = (signed.author = "merchant"),
                           !.closed = (Status(signed.state, m) = "terminal_failure")]
    <2>2. attest \in Job /\ Restorable(attest.state)
      BY <1>r, AttestType DEF Modes
    <2> HIDE DEF attest
    <2>3. begun.state = attest.state
      BY <2>2 DEF Job
    <2> HIDE DEF begun
    <2>4. job' = [job EXCEPT ![t] = begun]
      BY <2>1 DEF begun, attest
    <2> QED BY <1>2, <1>b, <1>p, <1>q, <2>2, <2>3, <2>4 DEF StartContinuation
  <1>3. CASE StartPreparation(t)
    <2>1. PICK m \in Legs, mode \in {"prepare", "renew"} :
            job' = [job EXCEPT ![t] =
                      IF mode = "prepare" /\ Frozen(Row(t).state, m)
                      THEN Enter("retain", mode, m) ELSE Attest(t, mode, m)]
      BY <1>3 DEF StartPreparation
    <2> QED BY <1>3, <1>b, <1>p, <1>q, <1>r, <2>1 DEF StartPreparation
  <1>4. CASE StartInspection(t)
    <2>1. PICK m \in Legs : job' = [job EXCEPT ![t] = Enter("begin", "inspect", m)]
      BY <1>4 DEF StartInspection, Unpaid
    <2> QED BY <1>4, <1>b, <1>p, <1>q, <1>r, <2>1 DEF StartInspection
  <1>5. CASE ObserveCredit(t)
    <2>1. Restorable(RecordCredit(row, Now(t)))
      BY <1>t, <1>r, RecordCreditRestorable
    <2>2. Kept
      BY <1>5, <1>v, <2>1 DEF ObserveCredit, row
    <2>3. job' = [job EXCEPT ![t] = job[t]]
      BY <1>5 DEF ObserveCredit, TypeOK
    <2> QED BY <1>5, <1>b, <1>p, <1>r, <2>2, <2>3 DEF ObserveCredit, s
  <1>6. CASE AttestAgrees(t)
    <2>1. PICK m \in Legs : job' = [job EXCEPT ![t].todo = @ \ {m}]
      BY <1>6 DEF AttestAgrees, Attested
    <2> DEFINE next == [job[t] EXCEPT !.todo = @ \ {m}]
    <2>2. next.state = s
      BY <1>t DEF Job, s
    <2>3. job' = [job EXCEPT ![t] = next]
      BY <2>1
    <2> HIDE DEF next
    <2> QED BY <1>6, <1>b, <1>p, <1>q, <1>r, <2>2, <2>3 DEF AttestAgrees
  <1>7. CASE AttestPaid(t)
    <2> DEFINE at == ObservedAt(row, Now(t))
    <2>1. PICK m \in Legs :
            /\ CanRecordLegStatus(row, m, "paid", at)
            /\ Save(t, RecordLegStatus(row, m, "paid", at))
            /\ job' = [job EXCEPT ![t] =
                 [Holding(t, Written(t, RecordLegStatus(row, m, "paid", at)),
                          "attest_ack") EXCEPT !.todo = @ \ {m}]]
            /\ UNCHANGED relays
      BY <1>7 DEF AttestPaid, row
    <2> DEFINE paid == RecordLegStatus(row, m, "paid", at)
    <2>2. at \in Nat
      BY <1>t, ObservedAtFacts
    <2> HIDE DEF at
    <2>3. Restorable(paid) /\ paid \in Reconciliation
      BY <1>t, <1>r, <2>1, <2>2, RecordLegStatusRestorable, RecordLegStatusFacts
      DEF Statuses, EvidenceStatuses
    <2> HIDE DEF paid
    <2>4. Kept
      BY <1>v, <2>1, <2>3 DEF paid
    <2> DEFINE held == Holding(t, Written(t, paid), "attest_ack")
               next == [held EXCEPT !.todo = @ \ {m}]
    <2>5. held \in Job /\ held.state = paid
      BY <2>3, WrittenType, HoldingType DEF Steps
    <2> HIDE DEF held
    <2>6. next.state = paid
      BY <2>5 DEF Job
    <2> HIDE DEF next
    <2>7. job' = [job EXCEPT ![t] = next]
      BY <2>1 DEF next, held, paid
    <2> QED BY <1>b, <1>p, <2>1, <2>3, <2>4, <2>6, <2>7
  <1>8. CASE AttestAck(t)
    BY <1>8, <1>f, <1>g, <1>o, <1>p, <1>q DEF AttestAck, s
  <1>9. CASE Select(t)
    BY <1>9, <1>b, <1>h, <1>p, <1>q, <1>r DEF Select, row
  <1>10. CASE SelectPreparation(t)
    BY <1>10, <1>b, <1>h, <1>p, <1>q, <1>r DEF SelectPreparation, row
  <1>11. CASE Prepare(t)
    <2> DEFINE next == IF Frozen(row, l) THEN RenewLeg(row, l, DeviceOf[t], Now(t))
                                         ELSE PrepareLeg(row, l, DeviceOf[t], Now(t))
    <2>1. /\ Frozen(row, l) => CanRenewLeg(row, l, Now(t))
          /\ ~Frozen(row, l) => CanPrepareLeg(row, l, Now(t))
          /\ Save(t, next)
          /\ job' = [job EXCEPT ![t] = Holding(t, Written(t, next), "prepare_ack")]
          /\ UNCHANGED relays
      BY <1>11 DEF Prepare, row
    <2>2. Restorable(next)
      BY <1>t, <1>r, <2>1, PrepareLegRestorable, RenewLegRestorable
    <2> HIDE DEF next
    <2> QED BY <1>b, <1>h, <1>p, <1>v, <1>w, <2>1, <2>2
  <1>12. CASE PrepareExisting(t)
    BY <1>12, <1>b, <1>h, <1>p, <1>q, <1>r DEF PrepareExisting, row
  <1>13. CASE RetainExisting(t)
    <2> DEFINE late == [row EXCEPT !.updatedAt = Later(Now(t), TakeoverAt)]
               kept == IF row.updatedAt < TakeoverAt THEN Written(t, late) ELSE Row(t)
    <2>1. /\ db' = [db EXCEPT ![DeviceOf[t]] = kept]
          /\ job' = [job EXCEPT ![t] = Holding(t, kept, "prepare_ack")]
          /\ UNCHANGED relays
      BY <1>13 DEF RetainExisting, row
    <2>2. row.updatedAt < TakeoverAt => Restorable(late)
      <3>1. /\ Later(Now(t), TakeoverAt) \in Nat /\ Later(Now(t), TakeoverAt) >= TakeoverAt
            /\ row.updatedAt \in Nat /\ TakeoverAt \in Nat
        BY <1>t, TimeAssumption, LaterFacts DEF Reconciliation
      <3> QED BY <1>t, <1>r, <3>1, TouchRestorable
    <2> HIDE DEF late
    <2>3. Restorable(kept.state)
      BY <1>r, <1>w, <2>2 DEF row
    <2> HIDE DEF kept
    <2>4. Kept
      BY <1>t, <2>1, <2>3 DEF Kept, TypeOK
    <2> QED BY <1>b, <1>h, <1>p, <2>1, <2>3, <2>4
  <1>14. CASE PrepareAck(t)
    BY <1>14, <1>f, <1>o, <1>p, <1>q DEF PrepareAck, s
  <1>15. CASE Begin(t)
    <2>1. CASE Finish(t)
      BY <1>15, <1>f, <1>p, <1>q, <2>1 DEF Begin
    <2>2. CASE ~Finish(t)
      <3>1. PICK step \in {"observe", "handoff"}, cancelled \in BOOLEAN :
              job' = [job EXCEPT ![t] =
                        [Holding(t, Row(t), step) EXCEPT !.cancelled = cancelled]]
        BY <1>15, <2>2 DEF Begin, LiveCancellation
      <3> DEFINE held == Holding(t, Row(t), step)
                 next == [held EXCEPT !.cancelled = cancelled]
      <3>2. held \in Job /\ held.state = row
        BY TabTypes, HoldingType DEF Steps, row
      <3> HIDE DEF held
      <3>3. next.state = row
        BY <3>2 DEF Job
      <3> HIDE DEF next
      <3>4. job' = [job EXCEPT ![t] = next]
        BY <3>1 DEF next, held
      <3> QED BY <1>15, <1>b, <1>p, <1>q, <1>r, <3>3, <3>4 DEF Begin
    <2> QED BY <2>1, <2>2
  <1>16. CASE Handoff(t)
    BY <1>16, <1>f, <1>g, <1>o, <1>p, <1>q DEF Handoff, s
  <1>17. CASE Observe(t)
    <2>1. PICK seen : job' = [job EXCEPT ![t].step = "observed", ![t].seen = seen]
      BY <1>17 DEF Observe
    <2> DEFINE next == [job[t] EXCEPT !.step = "observed", !.seen = seen]
    <2>2. next.state = s /\ job' = [job EXCEPT ![t] = next]
      BY <1>t, <2>1 DEF Job, TypeOK, s
    <2> HIDE DEF next
    <2> QED BY <1>17, <1>b, <1>p, <1>q, <1>r, <2>2 DEF Observe
  <1>18. CASE RecordObserved(t)
    <2>1. RecordedAs(job[t].seen) \in EvidenceStatuses
      <3>1. job[t].seen \in Readings \ {"not_found"}
        BY <1>18 DEF RecordObserved, At, ObservedSeen
      <3> QED BY <3>1 DEF RecordedAs, Readings, EvidenceStatuses, PossibleSend
    <2>2. Restorable(Recorded(t, RecordedAs(job[t].seen)))
      BY <1>18, <1>r, <2>1, RecordedRestorable DEF RecordObserved, s
    <2> QED BY <1>18, <1>f, <1>p, <1>v, <2>2 DEF RecordObserved
  <1>19. CASE WriteAhead(t)
    <2>1. PICK cancelled \in BOOLEAN, at \in Nat :
            LET from == IF cancelled THEN Reopened(s, l, "prepared") ELSE s
                next == RecordLegStatus(from, l, "submitted", at)
            IN /\ cancelled => LiveCancellation(t, l, Row(t)) /\ Unchanged(t)
               /\ CanRecordLegStatus(from, l, "submitted", at)
               /\ Save(t, next)
               /\ job' = [job EXCEPT ![t] =
                            [Holding(t, Written(t, next), "submitted_ack")
                               EXCEPT !.cancelled = FALSE]]
      <3>1. \A at \in Nat : ObservedAt(s, at) \in Nat
        BY <1>t, ObservedAtFacts
      <3> QED BY <1>19, <1>t, <3>1 DEF WriteAhead, Job, CanResubmit, s
    <2> DEFINE from == IF cancelled THEN Reopened(s, l, "prepared") ELSE s
               next == RecordLegStatus(from, l, "submitted", at)
    <2>2. cancelled => Frozen(s, l)
      BY <2>1 DEF LiveCancellation, Unchanged, Frozen, s
    <2>3. /\ "prepared" \in Statuses /\ "submitted" \in EvidenceStatuses
          /\ "submitted" \in Statuses
      BY DEF Statuses, EvidenceStatuses, PossibleSend
    <2>4. from \in Reconciliation /\ Restorable(from)
      BY <1>t, <1>r, <2>2, <2>3, ReopenedFacts, ReopenedRestorable
    <2>5. /\ CanRecordLegStatus(from, l, "submitted", at)
          /\ Save(t, next)
          /\ job' = [job EXCEPT ![t] =
                       [Holding(t, Written(t, next), "submitted_ack")
                          EXCEPT !.cancelled = FALSE]]
      BY <2>1
    <2> HIDE DEF from
    <2>6. next \in Reconciliation /\ Restorable(next)
      BY <1>t, <2>3, <2>4, <2>5, RecordLegStatusFacts, RecordLegStatusRestorable
    <2> HIDE DEF next
    <2> DEFINE held == Holding(t, Written(t, next), "submitted_ack")
               final == [held EXCEPT !.cancelled = FALSE]
    <2>7. held \in Job /\ held.state = next
      BY <2>6, WrittenType, HoldingType DEF Steps
    <2> HIDE DEF held
    <2>8. final.state = next
      BY <2>7 DEF Job
    <2> HIDE DEF final
    <2>9. job' = [job EXCEPT ![t] = final]
      BY <2>5 DEF final, held
    <2> QED BY <1>19, <1>b, <1>p, <1>v, <2>5, <2>6, <2>8, <2>9 DEF WriteAhead
  <1>20. CASE HandoffSubmitted(t)
    BY <1>20, <1>g, <1>o, <1>p, <1>q DEF HandoffSubmitted, s
  <1>21. CASE Cancel(t)
    <2> DEFINE next == Recorded(t, "terminal_failure")
    <2>1. Restorable(next)
      BY <1>21, <1>r, RecordedRestorable DEF Cancel, EvidenceStatuses, s
    <2>2. /\ Save(t, next)
          /\ job' = [job EXCEPT ![t] = Holding(t, Written(t, next), "readback")]
          /\ UNCHANGED relays
      BY <1>21 DEF Cancel
    <2> HIDE DEF next
    <2> QED BY <1>b, <1>h, <1>p, <1>v, <1>w, <2>1, <2>2
  <1>22. CASE RememberCancellation(t)
    BY <1>22, <1>f, <1>p, <1>q DEF RememberCancellation
  <1>23. CASE Recheck(t)
    BY <1>23, <1>g, <1>p, <1>q DEF Recheck
  <1>24. ASSUME NEW seen, job' = [job EXCEPT ![t].step = "sent", ![t].seen = seen],
                UNCHANGED <<db, relays>>
         PROVE  RecordsRestorable'
    <2> DEFINE next == [job[t] EXCEPT !.step = "sent", !.seen = seen]
    <2>1. next.state = s /\ job' = [job EXCEPT ![t] = next]
      BY <1>24, <1>t DEF Job, TypeOK, s
    <2> HIDE DEF next
    <2> QED BY <1>24, <1>b, <1>p, <1>q, <1>r, <2>1
  <1>25. CASE SendFindsHistory(t)
    BY <1>24, <1>25 DEF SendFindsHistory
  <1>26. CASE SendRefused(t)
    BY <1>24, <1>26 DEF SendRefused
  <1>27. CASE CallProvider(t)
    BY <1>27, <1>g, <1>p, <1>q DEF CallProvider
  <1>28. CASE SendReturns(t)
    BY <1>24, <1>28 DEF SendReturns
  <1>29. CASE SendAmbiguous(t)
    BY <1>29, <1>f, <1>p, <1>q DEF SendAmbiguous
  <1>30. CASE RecordSent(t)
    <2>1. PICK status \in {"paid", "terminal_failure"} :
            /\ CanRecord(t, status)
            /\ Save(t, Recorded(t, status))
            /\ \/ job' = [job EXCEPT ![t] =
                            Holding(t, Written(t, Recorded(t, status)), "paid_ack")]
               \/ Finish(t)
            /\ UNCHANGED relays
      BY <1>30 DEF RecordSent
    <2> DEFINE next == Recorded(t, status)
    <2>2. Restorable(next)
      BY <1>r, <2>1, RecordedRestorable DEF EvidenceStatuses, s
    <2>3. /\ Save(t, next)
          /\ \/ job' = [job EXCEPT ![t] = Holding(t, Written(t, next), "paid_ack")]
             \/ Finish(t)
      BY <2>1
    <2> HIDE DEF next
    <2> QED BY <1>b, <1>f, <1>h, <1>p, <1>v, <1>w, <2>1, <2>2, <2>3
  <1>31. CASE PaidAck(t)
    BY <1>31, <1>f, <1>o, <1>p, <1>q DEF PaidAck, s
  <1> QED
    BY <1>1, <1>2, <1>3, <1>4, <1>5, <1>6, <1>7, <1>8, <1>9, <1>10, <1>11, <1>12,
       <1>13, <1>14, <1>15, <1>16, <1>17, <1>18, <1>19, <1>20, <1>21, <1>22, <1>23,
       <1>25, <1>26, <1>27, <1>28, <1>29, <1>30, <1>31 DEF TabStep

\* So does every other step: an import stores a snapshot, which is restorable.
LEMMA OtherStepRestorable ==
  ASSUME TypeOK, RecordsRestorable, [Next]_vars,
         \A t \in Tabs : ~TabStep(t)
  PROVE  RecordsRestorable'
  <1>1. ASSUME NEW t \in Tabs, Finish(t), UNCHANGED <<db, relays>>
        PROVE  RecordsRestorable'
    <2>1. Restorable(IdleJob.state)
      BY CreateRestorable DEF IdleJob
    <2> QED BY <1>1, <2>1, RestorableStep DEF Finish
  <1>2. ASSUME NEW d \in Devices, NEW snapshot \in relays, Import(d, snapshot)
        PROVE  RecordsRestorable'
    <2>1. Restorable(snapshot.state)
      BY DEF RecordsRestorable, RowsRestorable
    <2>2. /\ db' = [db EXCEPT ![d] = [revision |-> db[d].revision + 1,
                                      state |-> snapshot.state]]
          /\ UNCHANGED <<relays, job>>
      BY <1>2 DEF Import
    <2>3. \A e \in Devices : Restorable(db'[e].state)
      BY <2>1, <2>2 DEF RecordsRestorable, RowsRestorable, TypeOK
    <2> QED BY <2>2, <2>3 DEF RecordsRestorable, RowsRestorable
  <1>3. CASE UNCHANGED <<db, relays, job>>
    BY <1>3 DEF RecordsRestorable, RowsRestorable
  <1> QED
    BY <1>1, <1>2, <1>3
    DEF Next, ProviderStep, vars, Abort, Crash, ProviderReceives, RequestLost,
        ProviderMoves, Tick

\* The inductive invariants together, for the theorems that need more than one.
Sound == TypeOK /\ ObservedSeen /\ RecordsRestorable

\* Sound holds in every reachable state.
LEMMA SoundInvariant == Spec => []Sound
  <1>1. Init => RecordsRestorable
    <2> SUFFICES ASSUME Init PROVE RecordsRestorable
      OBVIOUS
    <2>1. Restorable(CreateReconciliation(0)) /\ IdleJob.state = CreateReconciliation(0)
      BY CreateRestorable DEF IdleJob
    <2> QED BY <2>1 DEF Init, RecordsRestorable, RowsRestorable
  <1>2. TypeOK /\ ObservedSeen /\ RecordsRestorable /\ [Next]_vars
          => RecordsRestorable'
    BY TabStepRestorable, OtherStepRestorable
  <1> QED BY ShapeInvariant, <1>1, <1>2, PTL DEF Spec, Sound

\* No sequence of operations stores or publishes a record that loading rejects,
\* so no checkout is ever stuck behind its own record
\* (restoreCheckoutSparkSettledReconciliation).
THEOREM NeverStuck == Spec => []RowsRestorable
  <1>1. Sound => RowsRestorable
    BY DEF Sound, RecordsRestorable
  <1> QED BY SoundInvariant, <1>1, PTL

-----------------------------------------------------------------------------
(* Rows only move forward.                                                 *)

\* What a step may do to a row: leave it, take it forward, or submit a leg
\* again whose cancellation is live.
Advances(d) ==
  \/ RecoveryProgression(db[d].state, db'[d].state)
  \/ \E t \in Tabs, l \in Legs :
       /\ DeviceOf[t] = d
       /\ LiveCancellation(t, l, db[d])
       /\ RecoveryProgression(Reopened(db[d].state, l, "submitted"), db'[d].state)

\* An unchanged row is no regression.
LEMMA IdleAdvances ==
  ASSUME TypeOK, NEW d \in Devices, db'[d] = db[d]
  PROVE  Advances(d)
  <1>1. db[d].state \in Reconciliation
    BY DEF TypeOK, Rows
  <1>2. RecoveryProgression(db[d].state, db[d].state)
    BY <1>1, TouchProgression DEF Reconciliation
  <1> QED BY <1>2 DEF Advances

\* A save that goes forward takes the tab's own row forward, and no other.
LEMMA SaveAdvances ==
  ASSUME TypeOK, NEW t \in Tabs, NEW s, Save(t, s),
         RecoveryProgression(Row(t).state, s)
  PROVE  \A d \in Devices : Advances(d)
  <1> TAKE d \in Devices
  <1>1. CASE d = DeviceOf[t]
    <2>1. db'[d].state = s
      BY <1>1, WrittenType DEF Save, Written, TypeOK
    <2> QED BY <1>1, <2>1 DEF Advances, Row
  <1>2. CASE d # DeviceOf[t]
    <2>1. db'[d] = db[d]
      BY <1>2 DEF Save, TypeOK
    <2> QED BY <2>1, IdleAdvances
  <1> QED BY <1>1, <1>2

\* Every step of a tab takes every row forward.
LEMMA TabStepAdvances ==
  ASSUME TypeOK, RecordsRestorable, NEW t \in Tabs, TabStep(t)
  PROVE  \A d \in Devices : Advances(d)
  <1> DEFINE row == Row(t).state
             l == job[t].leg
  <1>t. row \in Reconciliation /\ Now(t) \in Nat /\ l \in Legs /\ DeviceOf[t] \in Devices
    BY TabTypes
  <1>q. UNCHANGED db => \A d \in Devices : Advances(d)
    BY IdleAdvances
  <1>1. CASE ObserveCredit(t)
    <2>1. RecoveryProgression(row, RecordCredit(row, Now(t)))
      BY <1>t, RecordCreditProgression
    <2> QED BY <1>1, <2>1, SaveAdvances DEF ObserveCredit
  <1>2. CASE AttestPaid(t)
    <2> DEFINE at == ObservedAt(row, Now(t))
    <2>1. PICK m \in Legs :
            /\ CanRecordLegStatus(row, m, "paid", at)
            /\ Save(t, RecordLegStatus(row, m, "paid", at))
      BY <1>2 DEF AttestPaid
    <2>2. at \in Nat /\ at > row.updatedAt
      BY <1>t, ObservedAtFacts
    <2>3. row.updatedAt >= Current(row, m).observedAt
      BY TabTypes DEF RecordsRestorable, RowsRestorable, Restorable, Row
    <2>4. row.updatedAt \in Nat /\ Current(row, m).observedAt \in Nat
      BY <1>t, PartTypes DEF Attempt
    <2>5. Current(row, m).observedAt < at
      BY <2>2, <2>3, <2>4
    <2> HIDE DEF at, row
    <2>6. RecoveryProgression(row, RecordLegStatus(row, m, "paid", at))
      BY <1>t, <2>1, <2>2, <2>5, RecordLegStatusProgression DEF EvidenceStatuses
    <2> QED BY <2>1, <2>6, SaveAdvances DEF row
  <1>3. CASE Prepare(t)
    <2>1. PICK next : RecoveryProgression(row, next) /\ Save(t, next)
      BY <1>3 DEF Prepare
    <2> QED BY <2>1, SaveAdvances
  <1>4. CASE RetainExisting(t)
    <2> DEFINE late == [row EXCEPT !.updatedAt = Later(Now(t), TakeoverAt)]
    <2>1. CASE row.updatedAt < TakeoverAt
      <3>1. Save(t, late)
        BY <1>4, <2>1 DEF RetainExisting, Save
      <3>2. /\ Later(Now(t), TakeoverAt) \in Nat /\ Later(Now(t), TakeoverAt) >= TakeoverAt
            /\ row.updatedAt \in Nat /\ TakeoverAt \in Nat
        BY <1>t, TimeAssumption, LaterFacts DEF Reconciliation
      <3>3. /\ late \in Reconciliation /\ late.updatedAt >= row.updatedAt
            /\ late.credit = row.credit /\ late.legs = row.legs
        BY <1>t, <2>1, <3>2 DEF Reconciliation
      <3> HIDE DEF late, row
      <3>4. RecoveryProgression(row, late)
        BY <1>t, <3>3, TouchProgression
      <3> QED BY <3>1, <3>4, SaveAdvances DEF row
    <2>2. CASE ~(row.updatedAt < TakeoverAt)
      <3>1. db' = db
        BY <1>4, <1>t, <2>2 DEF RetainExisting, TypeOK, Row
      <3> QED BY <1>q, <3>1
    <2> QED BY <2>1, <2>2
  <1>5. CASE RecordObserved(t) \/ Cancel(t) \/ RecordSent(t)
    <2>1. PICK next : RecoveryProgression(row, next) /\ Save(t, next)
      BY <1>5 DEF RecordObserved, Cancel, RecordSent, CanRecord, CanSave
    <2> QED BY <2>1, SaveAdvances
  <1>6. CASE WriteAhead(t)
    <2>1. PICK next :
            /\ Save(t, next)
            /\ \/ RecoveryProgression(row, next)
               \/ /\ LiveCancellation(t, l, Row(t))
                  /\ RecoveryProgression(Reopened(row, l, "submitted"), next)
      BY <1>6 DEF WriteAhead, CanSave, CanResubmit
    <2>2. CASE RecoveryProgression(row, next)
      BY <2>1, <2>2, SaveAdvances
    <2>3. CASE /\ LiveCancellation(t, l, Row(t))
               /\ RecoveryProgression(Reopened(row, l, "submitted"), next)
      <3> TAKE d \in Devices
      <3>1. CASE d = DeviceOf[t]
        <4>1. db'[d].state = next
          BY <2>1, <3>1, WrittenType DEF Save, Written, TypeOK
        <4> QED BY <1>t, <2>3, <3>1, <4>1 DEF Advances, Row
      <3>2. CASE d # DeviceOf[t]
        <4>1. db'[d] = db[d]
          BY <2>1, <3>2 DEF Save, TypeOK
        <4> QED BY <4>1, IdleAdvances
      <3> QED BY <3>1, <3>2
    <2> QED BY <2>1, <2>2, <2>3
  <1>7. CASE UNCHANGED db
    BY <1>7, <1>q
  <1> QED
    BY <1>1, <1>2, <1>3, <1>4, <1>5, <1>6, <1>7
    DEF TabStep, StartShopper, StartContinuation, StartPreparation,
        StartInspection, AttestAgrees, AttestAck, Select, SelectPreparation,
        PrepareExisting, PrepareAck, Begin, Handoff, Observe, HandoffSubmitted,
        RememberCancellation, Recheck, SendFindsHistory, SendRefused,
        CallProvider, SendReturns, SendAmbiguous, PaidAck

\* So does every other step, once the row exists: an import checks the order.
LEMMA OtherStepAdvances ==
  ASSUME TypeOK, [Next]_vars, \A t \in Tabs : ~TabStep(t),
         NEW d \in Devices, db[d].revision > 0
  PROVE  Advances(d)
  <1>1. CASE UNCHANGED db
    BY <1>1, IdleAdvances
  <1>2. ASSUME NEW e \in Devices, NEW snapshot \in relays, Import(e, snapshot)
        PROVE  Advances(d)
    <2>1. CASE d = e
      <3>1. /\ RecoveryProgression(db[d].state, snapshot.state)
            /\ db'[d].state = snapshot.state
        BY <1>2, <2>1 DEF Import, TypeOK
      <3> QED BY <3>1 DEF Advances
    <2>2. CASE d # e
      <3>1. db'[d] = db[d]
        BY <1>2, <2>2 DEF Import, TypeOK
      <3> QED BY <3>1, IdleAdvances
    <2> QED BY <2>1, <2>2
  <1> QED
    BY <1>1, <1>2
    DEF Next, ProviderStep, vars, Abort, Crash, ProviderReceives, RequestLost,
        ProviderMoves, Tick

\* No tab, import or crash ever takes a stored record back, on any device: what
\* it says of a payout only gets more certain, unless a cancelled leg is tried
\* again (assertCheckoutSparkSettledRecoveryProgression).
THEOREM OnlyForward == Spec => RowsProgress
  <1>1. Sound /\ [Next]_vars => [RowsGoForward]_vars
    <2> SUFFICES ASSUME Sound, [Next]_vars, NEW d \in Devices, db[d].revision > 0
                 PROVE  Advances(d)
      BY DEF Advances, RowsGoForward
    <2> QED BY TabStepAdvances, OtherStepAdvances DEF Sound
  <1> QED BY SoundInvariant, <1>1, PTL DEF Spec, RowsProgress

-----------------------------------------------------------------------------
(* The marker is durable before the provider is called, and stays.         *)

\* Progress never takes a marker away, and neither does a retried cancellation.
LEMMA MarkStays ==
  ASSUME NEW s \in Reconciliation, NEW next \in Reconciliation,
         NEW l \in Legs, NEW g \in Generations,
         MarkedSent(s, l, g),
         \/ RecoveryProgression(s, next)
         \/ \E m \in Legs : RecoveryProgression(Reopened(s, m, "submitted"), next)
  PROVE  MarkedSent(next, l, g)
  <1>1. ASSUME NEW from \in Reconciliation, MarkedSent(from, l, g),
               RecoveryProgression(from, next)
        PROVE  MarkedSent(next, l, g)
    <2>1. /\ Generation(from, l) <= Generation(next, l)
          /\ Generation(from, l) \in {0, 1} /\ Generation(next, l) \in {0, 1}
          /\ g \in {0, 1}
      <3>1. Generation(from, l) \in {0, 1} /\ Generation(next, l) \in {0, 1}
        BY PartTypes
      <3>2. Generation(from, l) <= Generation(next, l)
        BY <1>1 DEF RecoveryProgression, LegProgression, Generation
      <3> QED BY <3>1, <3>2 DEF Generations
    <2>2. CASE Generation(next, l) > g
      BY <2>2 DEF MarkedSent
    <2>3. CASE ~(Generation(next, l) > g)
      <3>1. /\ Generation(from, l) = g /\ Generation(next, l) = g
            /\ Status(from, l) \notin {"unprepared", "prepared"}
        BY <1>1, <2>1, <2>3 DEF MarkedSent
      <3>2. AttemptProgression(Current(from, l), Current(next, l))
        BY <1>1, <3>1 DEF RecoveryProgression, LegProgression, Current, Generation
      <3>3. Status(next, l) \notin {"unprepared", "prepared"}
        BY <3>1, <3>2 DEF AttemptProgression, Status
      <3> QED BY <3>1, <3>3 DEF MarkedSent
    <2> QED BY <2>2, <2>3
  <1>2. ASSUME NEW m \in Legs, RecoveryProgression(Reopened(s, m, "submitted"), next)
        PROVE  MarkedSent(next, l, g)
    <2> DEFINE from == Reopened(s, m, "submitted")
    <2>1. "submitted" \in Statuses
      BY DEF Statuses, EvidenceStatuses, PossibleSend
    <2>2. /\ from \in Reconciliation
          /\ from.legs[m].generation = s.legs[m].generation
          /\ Current(from, m) = [Current(s, m) EXCEPT !.status = "submitted"]
          /\ \A k \in Legs \ {m} : from.legs[k] = s.legs[k]
      BY <2>1, ReopenedFacts
    <2> HIDE DEF from
    <2>3. MarkedSent(from, l, g)
      <3>1. CASE l = m
        <4>1. Current(s, l) \in Attempt
          BY PartTypes
        <4>2. Status(from, l) = "submitted" /\ Generation(from, l) = Generation(s, l)
          BY <2>2, <3>1, <4>1 DEF Status, Generation, Attempt
        <4> QED BY <4>2 DEF MarkedSent
      <3>2. CASE l # m
        BY <2>2, <3>2 DEF MarkedSent, Generation, Status, Current
      <3> QED BY <3>1, <3>2
    <2> QED BY <1>1, <1>2, <2>2, <2>3 DEF from
  <1> QED BY <1>1, <1>2

\* The inductive invariant.  A row that was never saved has no marker, which is
\* why the first import cannot remove one; and a tab between its write-ahead and
\* its call of the provider can rely on the marker in its row, whatever other
\* tabs of the device did in the meantime.
BeforeCall == {"submitted_ack", "recheck", "send"}
Trying == BeforeCall \cup {"cancel", "readback"}
Attempting(t) == Generation(job[t].state, job[t].leg)
SendersMarked ==
  \A t \in Tabs : job[t].step \in BeforeCall =>
    MarkedSent(db[DeviceOf[t]].state, job[t].leg, Attempting(t))
EmptyRows ==
  \A d \in Devices : db[d].revision = 0 => db[d].state = CreateReconciliation(0)
WriteAheadInv == EmptyRows /\ SendersMarked /\ SentIsMarked

\* A row that was never saved marks nothing.
LEMMA EmptyMarksNothing ==
  ASSUME NEW l \in Legs, NEW g \in Generations
  PROVE  ~MarkedSent(CreateReconciliation(0), l, g)
  <1>1. CreateReconciliation(0).legs[l] = NewLeg
    BY DEF CreateReconciliation
  <1>2. NewLeg.generation = 0 /\ NewLeg.attempts[0].status = "unprepared"
    BY DEF NewLeg, NoAttempt, Generations
  <1> QED BY <1>1, <1>2 DEF MarkedSent, Generation, Status, Current, Generations

\* No step removes a marker from a row.
LEMMA RowKeepsMark ==
  ASSUME Sound, Sound', EmptyRows, [Next]_vars,
         NEW d \in Devices, NEW l \in Legs, NEW g \in Generations,
         MarkedSent(db[d].state, l, g)
  PROVE  MarkedSent(db'[d].state, l, g)
  <1>1. db[d].state \in Reconciliation /\ db'[d].state \in Reconciliation
        /\ db[d].revision \in Nat
    BY DEF Sound, TypeOK, Rows
  <1>2. db[d].revision > 0
    BY <1>1, EmptyMarksNothing DEF EmptyRows
  <1>3. Advances(d)
    BY <1>2, TabStepAdvances, OtherStepAdvances DEF Sound
  <1> QED BY <1>1, <1>3, MarkStays DEF Advances

\* Only the write-ahead puts a tab on the way to the provider, or to the
\* cancellation of an attempt that never got there.
LEMMA WayToTheProvider ==
  ASSUME TypeOK, NEW t \in Tabs, TabStep(t), job'[t].step \in Trying,
         ~WriteAhead(t)
  PROVE  \/ HandoffSubmitted(t) \/ Recheck(t)
         \/ Cancel(t)
  <1>t. job[t] \in Job /\ job[t].step \in Steps /\ t \in DOMAIN job
    BY DEF TypeOK, Job
  <1>i. IdleJob \in Job /\ IdleJob.step \notin Trying
    BY IdleJobType DEF IdleJob, Trying, BeforeCall
  <1>f. ~Finish(t)
    BY <1>t, <1>i DEF Finish
  <1>g. ASSUME NEW step, Goto(t, step)
        PROVE  /\ job'[t].step = step
               /\ job'[t].leg = job[t].leg /\ job'[t].state = job[t].state
    <2>1. job'[t] = [job[t] EXCEPT !.step = step]
      BY <1>g, <1>t DEF Goto
    <2> QED BY <1>t, <2>1 DEF Job
  <1>h. ASSUME NEW row, NEW step, job' = [job EXCEPT ![t] = Holding(t, row, step)]
        PROVE  step \in Trying
    <2>1. job'[t] = Holding(t, row, step)
      BY <1>h, <1>t
    <2> QED BY <1>t, <2>1 DEF Holding, Job
  <1>a. ASSUME NEW mode, NEW l, job' = [job EXCEPT ![t] = Attest(t, mode, l)]
        PROVE  FALSE
    <2>1. job'[t] = Attest(t, mode, l)
      BY <1>a, <1>t
    <2>2. job'[t].step = "attest"
      BY <1>i, <2>1 DEF Attest, Job
    <2> QED BY <2>2 DEF Trying, BeforeCall
  <1>e. ASSUME NEW step, NEW mode, NEW l,
               job' = [job EXCEPT ![t] = Enter(step, mode, l)]
        PROVE  step \in Trying
    <2>1. job'[t] = Enter(step, mode, l)
      BY <1>e, <1>t
    <2> QED BY <1>i, <2>1 DEF Enter, Job
  <1>s. ASSUME NEW step, NEW seen,
               job' = [job EXCEPT ![t].step = step, ![t].seen = seen]
        PROVE  step \in Trying
    <2>1. job'[t] = [job[t] EXCEPT !.step = step, !.seen = seen]
      BY <1>s, <1>t
    <2> QED BY <1>t, <2>1 DEF Job
  <1>1. ~StartShopper(t)
    BY <1>a DEF StartShopper
  <1>2. ~StartContinuation(t)
    <2> SUFFICES ASSUME StartContinuation(t) PROVE FALSE
      OBVIOUS
    <2>1. PICK signed \in relays, m \in Legs :
            job' = [job EXCEPT ![t] =
                      [Attest(t, "advance", m)
                         EXCEPT !.publishes = (signed.author = "merchant"),
                                !.closed = (Status(signed.state, m) = "terminal_failure")]]
      BY DEF StartContinuation
    <2> DEFINE attest == Attest(t, "advance", m)
    <2>2. attest \in Job /\ attest.step = "attest"
      BY AttestType DEF Modes
    <2> HIDE DEF attest
    <2>3. job'[t] = [attest EXCEPT
                       !.publishes = (signed.author = "merchant"),
                       !.closed = (Status(signed.state, m) = "terminal_failure")]
      BY <1>t, <2>1 DEF attest
    <2>4. job'[t].step = "attest"
      BY <2>2, <2>3 DEF Job
    <2> QED BY <2>4 DEF Trying, BeforeCall
  <1>3. ~StartPreparation(t)
    <2> SUFFICES ASSUME StartPreparation(t) PROVE FALSE
      OBVIOUS
    <2>1. PICK m \in Legs, mode \in {"prepare", "renew"} :
            \/ job' = [job EXCEPT ![t] = Enter("retain", mode, m)]
            \/ job' = [job EXCEPT ![t] = Attest(t, mode, m)]
      BY DEF StartPreparation
    <2> QED BY <1>a, <1>e, <2>1 DEF Trying, BeforeCall
  <1>4. ~StartInspection(t)
    BY <1>e DEF StartInspection, Trying, BeforeCall
  <1>5. ~ObserveCredit(t) /\ ~AttestAgrees(t)
    <2>1. ~ObserveCredit(t)
      BY DEF ObserveCredit, At, Trying, BeforeCall
    <2>2. ASSUME AttestAgrees(t) PROVE FALSE
      <3>1. PICK m : job'[t] = [job[t] EXCEPT !.todo = @ \ {m}]
        BY <1>t, <2>2 DEF AttestAgrees, Attested
      <3>2. job'[t].step = job[t].step
        BY <1>t, <3>1 DEF Job
      <3> QED BY <2>2, <3>2 DEF AttestAgrees, Attesting, At, Trying, BeforeCall
    <2> QED BY <2>1, <2>2
  <1>6. ~AttestPaid(t)
    <2> SUFFICES ASSUME AttestPaid(t) PROVE FALSE
      OBVIOUS
    <2>1. PICK row, m :
            job'[t] = [Holding(t, row, "attest_ack") EXCEPT !.todo = @ \ {m}]
      BY <1>t DEF AttestPaid
    <2>2. job'[t].step = "attest_ack"
      BY <1>t, <2>1 DEF Holding, Job
    <2> QED BY <2>2 DEF Trying, BeforeCall
  <1>7. ~AttestAck(t) /\ ~Handoff(t)
    BY <1>f, <1>g DEF AttestAck, Handoff, Trying, BeforeCall
  <1>8. ~Select(t) /\ ~SelectPreparation(t)
    BY <1>h DEF Select, SelectPreparation, Trying, BeforeCall
  <1>9. ~Prepare(t) /\ ~PrepareExisting(t) /\ ~RetainExisting(t)
    BY <1>h DEF Prepare, PrepareExisting, RetainExisting, Trying, BeforeCall
  <1>10. ~PrepareAck(t) /\ ~RecordObserved(t) /\ ~RememberCancellation(t)
         /\ ~SendAmbiguous(t) /\ ~PaidAck(t)
    BY <1>f DEF PrepareAck, RecordObserved, RememberCancellation, SendAmbiguous, PaidAck
  <1>11. ~Begin(t)
    <2> SUFFICES ASSUME Begin(t) PROVE FALSE
      OBVIOUS
    <2>1. PICK step \in {"observe", "handoff"}, cancelled \in BOOLEAN :
            job' = [job EXCEPT ![t] =
                      [Holding(t, Row(t), step) EXCEPT !.cancelled = cancelled]]
      BY <1>f DEF Begin, LiveCancellation
    <2> DEFINE held == Holding(t, Row(t), step)
    <2>2. held \in Job /\ held.step = step
      BY TabTypes, HoldingType DEF Steps
    <2> HIDE DEF held
    <2>3. job'[t] = [held EXCEPT !.cancelled = cancelled]
      BY <1>t, <2>1 DEF held
    <2>4. job'[t].step = step
      BY <2>2, <2>3 DEF Job
    <2> QED BY <2>4 DEF Trying, BeforeCall
  <1>12. ~Observe(t) /\ ~SendFindsHistory(t) /\ ~SendRefused(t) /\ ~SendReturns(t)
    BY <1>s DEF Observe, SendFindsHistory, SendRefused, SendReturns, Trying, BeforeCall
  <1>13. ~RecordSent(t)
    BY <1>f, <1>h DEF RecordSent, Trying, BeforeCall
  <1>14. ~CallProvider(t)
    BY <1>g DEF CallProvider, Trying, BeforeCall
  <1> QED
    BY <1>1, <1>2, <1>3, <1>4, <1>5, <1>6, <1>7, <1>8, <1>9, <1>10, <1>11, <1>12,
       <1>13, <1>14 DEF TabStep

\* On the way a tab keeps its leg and the attempt it holds.
LEMMA OnTheWay ==
  ASSUME TypeOK, NEW t \in Tabs, TabStep(t), job'[t].step \in Trying,
         ~WriteAhead(t)
  PROVE  /\ job[t].step \in Trying
         /\ job'[t].step \in BeforeCall => job[t].step \in BeforeCall
         /\ job'[t].leg = job[t].leg
         /\ Generation(job'[t].state, job'[t].leg) = Attempting(t)
         /\ job'[t].step \in BeforeCall => job'[t].state = job[t].state
  <1>t. job[t] \in Job /\ job[t].leg \in Legs /\ job[t].state \in Reconciliation
    BY TabTypes
  <1>1. CASE HandoffSubmitted(t) \/ Recheck(t)
    <2>1. PICK step : Goto(t, step)
      BY <1>1 DEF HandoffSubmitted, Recheck
    <2>2. job'[t] = [job[t] EXCEPT !.step = step]
      BY <2>1 DEF Goto, TypeOK
    <2>3. job'[t].leg = job[t].leg /\ job'[t].state = job[t].state
      BY <1>t, <2>2 DEF Job
    <2> QED
      BY <1>1, <2>3 DEF HandoffSubmitted, Recheck, At, Trying, BeforeCall, Attempting
  <1>2. CASE Cancel(t)
    <2> DEFINE next == Recorded(t, "terminal_failure")
    <2>1. "terminal_failure" \in Statuses
      BY DEF Statuses, EvidenceStatuses
    <2>2. /\ next \in Reconciliation
          /\ Generation(next, job[t].leg) = Generation(job[t].state, job[t].leg)
      <3>1. ObservedAt(job[t].state, Now(t)) \in Nat
        BY TabTypes, ObservedAtFacts
      <3> QED BY <1>t, <2>1, <3>1, RecordLegStatusFacts DEF Recorded
    <2> DEFINE held == Holding(t, Written(t, next), "readback")
    <2>3. job'[t] = held
      BY <1>2 DEF Cancel, TypeOK
    <2> HIDE DEF next
    <2>4. held.state = next /\ held.leg = job[t].leg /\ held.step = "readback"
      BY <2>2, WrittenType, HoldingType DEF Steps
    <2> HIDE DEF held
    <2> QED BY <1>2, <2>2, <2>3, <2>4 DEF Cancel, At, Trying, BeforeCall, Attempting
  <1> QED BY <1>1, <1>2, WayToTheProvider

\* A tab that begins to send holds the record its device has just marked.
LEMMA WriteAheadMarks ==
  ASSUME TypeOK, NEW t \in Tabs, WriteAhead(t)
  PROVE  /\ job'[t].leg = job[t].leg
         /\ job'[t].state = db'[DeviceOf[t]].state
         /\ Status(job'[t].state, job'[t].leg) = "submitted"
  <1> DEFINE l == job[t].leg
             s == job[t].state
  <1>t. l \in Legs /\ s \in Reconciliation /\ Now(t) \in Nat /\ job[t] \in Job
        /\ DeviceOf[t] \in Devices
    BY TabTypes
  <1>1. PICK cancelled \in BOOLEAN, at \in Nat :
          LET from == IF cancelled THEN Reopened(s, l, "prepared") ELSE s
              next == RecordLegStatus(from, l, "submitted", at)
          IN /\ Save(t, next)
             /\ job' = [job EXCEPT ![t] =
                          [Holding(t, Written(t, next), "submitted_ack")
                             EXCEPT !.cancelled = FALSE]]
    <2>1. \A at \in Nat : ObservedAt(s, at) \in Nat
      BY <1>t, ObservedAtFacts
    <2> QED BY <1>t, <2>1 DEF WriteAhead, Job
  <1> DEFINE from == IF cancelled THEN Reopened(s, l, "prepared") ELSE s
             next == RecordLegStatus(from, l, "submitted", at)
             held == Holding(t, Written(t, next), "submitted_ack")
  <1>2. "prepared" \in Statuses /\ "submitted" \in Statuses
    BY DEF Statuses, EvidenceStatuses, PossibleSend
  <1>3. from \in Reconciliation
    BY <1>t, <1>2, ReopenedFacts
  <1>4. /\ Save(t, next)
        /\ job' = [job EXCEPT ![t] = [held EXCEPT !.cancelled = FALSE]]
    BY <1>1
  <1> HIDE DEF from
  <1>5. next \in Reconciliation /\ Status(next, l) = "submitted"
    BY <1>t, <1>2, <1>3, RecordLegStatusFacts
  <1> HIDE DEF next
  <1>6. held \in Job /\ held.state = next /\ held.leg = l
    BY <1>5, WrittenType, HoldingType DEF Steps
  <1>7. db'[DeviceOf[t]].state = next
    BY <1>t, <1>4, <1>5, WrittenType DEF Save, TypeOK
  <1> HIDE DEF held
  <1>8. job'[t] = [held EXCEPT !.cancelled = FALSE]
    BY <1>4 DEF TypeOK
  <1>9. job'[t].state = next /\ job'[t].leg = l
    BY <1>6, <1>8 DEF Job
  <1> QED BY <1>5, <1>7, <1>9

\* A step moves the job of at most the tab that takes it, or ends one.
LEMMA OneJobMoves ==
  ASSUME TypeOK, [Next]_vars, NEW t \in Tabs
  PROVE  job'[t] = job[t] \/ job'[t] = IdleJob \/ TabStep(t)
  <1>1. ASSUME NEW u \in Tabs, u # t, TabStep(u)
        PROVE  job'[t] = job[t]
    BY <1>1 DEF TypeOK, TabStep, Finish, Goto, Attested,
       StartShopper, StartContinuation, StartPreparation, StartInspection,
       ObserveCredit, AttestAgrees, AttestPaid, AttestAck, Select,
       SelectPreparation, Prepare, PrepareExisting, RetainExisting, PrepareAck,
       Begin, Handoff, Observe, RecordObserved, WriteAhead, HandoffSubmitted,
       Cancel, RememberCancellation, Recheck, SendFindsHistory, SendRefused,
       CallProvider, SendReturns, SendAmbiguous, RecordSent, PaidAck
  <1>2. ASSUME NEW u \in Tabs, Finish(u)
        PROVE  job'[t] = job[t] \/ job'[t] = IdleJob
    BY <1>2 DEF TypeOK, Finish
  <1> QED
    BY <1>1, <1>2
    DEF Next, ProviderStep, vars, Abort, Crash, Import, ProviderReceives,
        RequestLost, ProviderMoves, Tick

\* Every step keeps the markers ahead of the calls.
LEMMA WriteAheadStep ==
  ASSUME Sound, Sound', WriteAheadInv, [Next]_vars
  PROVE  WriteAheadInv'
  <1>1. EmptyRows'
    <2> SUFFICES ASSUME NEW d \in Devices, db'[d].revision = 0
                 PROVE  db'[d] = db[d]
      BY DEF WriteAheadInv, EmptyRows
    <2>1. db[d].revision \in Nat
      BY DEF Sound, TypeOK, Rows
    <2>2. ASSUME NEW t \in Tabs, NEW s, Save(t, s)
          PROVE  db'[d] = db[d]
      <3>1. d # DeviceOf[t]
        BY <2>1, <2>2 DEF Save, Written, Row, Sound, TypeOK
      <3> QED BY <2>2, <3>1 DEF Save, Sound, TypeOK
    <2>3. ASSUME NEW t \in Tabs, RetainExisting(t)
          PROVE  db'[d] = db[d]
      <3>1. PICK late :
              db' = [db EXCEPT ![DeviceOf[t]] =
                       IF Row(t).state.updatedAt < TakeoverAt
                       THEN Written(t, late) ELSE Row(t)]
        BY <2>3 DEF RetainExisting
      <3> QED BY <2>1, <3>1 DEF Written, Row, Sound, TypeOK
    <2>4. ASSUME NEW t \in Tabs, TabStep(t)
          PROVE  db'[d] = db[d]
      <3>1. UNCHANGED db \/ (\E s : Save(t, s)) \/ RetainExisting(t)
        BY <2>4
        DEF TabStep, StartShopper, StartContinuation, StartPreparation,
            StartInspection, ObserveCredit, AttestAgrees, AttestPaid, AttestAck,
            Select, SelectPreparation, Prepare, PrepareExisting, PrepareAck,
            Begin, Handoff, Observe, RecordObserved, WriteAhead,
            HandoffSubmitted, Cancel, RememberCancellation, Recheck,
            SendFindsHistory, SendRefused, CallProvider, SendReturns,
            SendAmbiguous, RecordSent, PaidAck
      <3> QED BY <2>2, <2>3, <2>4, <3>1
    <2>5. ASSUME NEW e \in Devices, NEW snapshot \in relays, Import(e, snapshot)
          PROVE  db'[d] = db[d]
      BY <2>1, <2>5 DEF Import, Sound, TypeOK
    <2> QED
      BY <2>4, <2>5
      DEF Next, ProviderStep, vars, Abort, Crash, ProviderReceives, RequestLost,
          ProviderMoves, Tick
  <1>2. SendersMarked'
    <2> SUFFICES ASSUME NEW t \in Tabs, job'[t].step \in BeforeCall
                 PROVE  MarkedSent(db'[DeviceOf[t]].state, job'[t].leg,
                                   Generation(job'[t].state, job'[t].leg))
      BY DEF SendersMarked, Attempting
    <2>1. CASE TabStep(t) /\ WriteAhead(t)
      BY <2>1, WriteAheadMarks DEF MarkedSent, Sound
    <2>2. CASE ~(TabStep(t) /\ WriteAhead(t))
      <3>1. /\ job[t].step \in BeforeCall
            /\ job'[t].leg = job[t].leg /\ job'[t].state = job[t].state
        BY <2>2, OneJobMoves, OnTheWay DEF IdleJob, BeforeCall, Trying, Sound
      <3>2. MarkedSent(db[DeviceOf[t]].state, job[t].leg, Attempting(t))
        BY <3>1 DEF WriteAheadInv, SendersMarked
      <3>3. /\ DeviceOf[t] \in Devices /\ job[t].leg \in Legs
            /\ Attempting(t) \in Generations
        BY TabTypes, PartTypes DEF Sound, Attempting
      <3> QED BY <3>1, <3>2, <3>3, RowKeepsMark DEF WriteAheadInv, Attempting
    <2> QED BY <2>1, <2>2
  <1>3. SentIsMarked'
    <2> SUFFICES ASSUME NEW d \in Devices, NEW l \in Legs, NEW g \in Generations,
                        calls'[d][<<l, g>>] > 0
                 PROVE  MarkedSent(db'[d].state, l, g)
      BY DEF SentIsMarked
    <2>1. CASE calls[d][<<l, g>>] > 0
      BY <2>1, RowKeepsMark DEF WriteAheadInv, SentIsMarked
    <2>2. CASE ~(calls[d][<<l, g>>] > 0)
      <3>1. PICK t \in Tabs : CallProvider(t)
        BY <2>2, OnlyCallsReachProvider
        DEF Next, ProviderStep, vars, Abort, Crash, Import, ProviderReceives,
            RequestLost, ProviderMoves, Tick
      <3>2. /\ d = DeviceOf[t] /\ l = job[t].leg /\ g = Attempting(t)
            /\ job[t].step = "send"
        <4>1. /\ calls' = [calls EXCEPT ![DeviceOf[t]][<<job[t].leg, Attempting(t)>>]
                                          = @ + 1]
              /\ job[t].step = "send"
          BY <3>1 DEF CallProvider, Attempting, At
        <4>2. calls \in [Devices -> [Legs \X Generations -> Nat]]
          BY DEF Sound, TypeOK
        <4>3. calls'[d][<<l, g>>] # calls[d][<<l, g>>]
          BY <2>2
        <4> QED BY <4>1, <4>2, <4>3
      <3> QED
        BY <3>2, RowKeepsMark DEF WriteAheadInv, SendersMarked, BeforeCall
    <2> QED BY <2>1, <2>2
  <1> QED BY <1>1, <1>2, <1>3 DEF WriteAheadInv

\* The markers are ahead of the calls in every state.
LEMMA MarkersInvariant == Spec => []WriteAheadInv
  <1>1. Init => WriteAheadInv
    BY DEF Init, WriteAheadInv, EmptyRows, SendersMarked, SentIsMarked, IdleJob,
           BeforeCall
  <1>2. Sound /\ Sound' /\ WriteAheadInv /\ [Next]_vars => WriteAheadInv'
    BY WriteAheadStep
  <1> QED BY SoundInvariant, <1>1, <1>2, PTL DEF Spec

\* Once a device has called the provider for an attempt, its own database never
\* again shows that attempt as merely prepared, through every crash, second tab,
\* import, cancellation and retry: a reload always finds out that it must ask
\* (runCheckoutSparkSettledOutgoingStep, the "submitted" marker).
THEOREM WrittenAhead == Spec => []SentIsMarked
  <1>1. WriteAheadInv => SentIsMarked
    BY DEF WriteAheadInv
  <1> QED BY MarkersInvariant, <1>1, PTL

-----------------------------------------------------------------------------
(* What a record calls paid, the provider has paid.                        *)

\* The provider's history h has the payment of the invoice that record s
\* currently holds for leg l.
Settles(h, s, l) ==
  h[TransferId(l, Generation(s, l), Current(s, l).issuer)]
    = [status |-> "paid", issuer |-> Current(s, l).issuer]

\* Every leg that s calls paid is settled in h.
Proven(h, s) == \A l \in Legs : Status(s, l) = "paid" => Settles(h, s, l)

\* An invocation that has read "paid", and may be about to record it, has read it
\* of the invoice it holds.
ReadingProven(h, j) ==
  (j.step \in {"observed", "sent"} /\ j.seen = "paid") => Settles(h, j.state, j.leg)

\* The inductive invariant: the rows and the snapshots are proven, and so are the
\* records and the readings of the invocations that will save and publish them.
PaidInv ==
  /\ \A d \in Devices : Proven(history, db[d].state)
  /\ \A snapshot \in relays : Proven(history, snapshot.state)
  /\ \A t \in Tabs : Proven(history, job[t].state) /\ ReadingProven(history, job[t])

\* A reading of "paid" is a proof.
LEMMA ReadingSettles ==
  ASSUME TypeOK, NEW s \in Reconciliation, NEW l \in Legs,
         ExactHistory(s, l) = "paid"
  PROVE  Settles(history, s, l)
  <1> DEFINE id == TransferId(l, Generation(s, l), Current(s, l).issuer)
  <1>1. id \in TransferIds
    BY PartTypes, TransferIdFacts
  <1> HIDE DEF id
  <1>2. history[id] \in Transfer
    BY <1>1 DEF TypeOK
  <1>3. "paid" = IF history[id].status = "none" THEN "not_found"
                 ELSE IF history[id].issuer # Current(s, l).issuer
                      THEN "conflicting_evidence"
                 ELSE IF history[id].status \in {"pending", "paid"}
                      THEN history[id].status
                 ELSE "terminal_failure"
    BY DEF ExactHistory, id
  <1>4. history[id].status = "paid" /\ history[id].issuer = Current(s, l).issuer
    BY <1>3
  <1>5. history[id] = [status |-> "paid", issuer |-> Current(s, l).issuer]
    BY <1>2, <1>4 DEF Transfer
  <1> QED BY <1>5 DEF Settles, id

\* A payment is final: the provider never takes one back.
LEMMA PaymentIsFinal ==
  ASSUME TypeOK, [Next]_vars, NEW id \in TransferIds, history[id].status = "paid"
  PROVE  history'[id] = history[id]
  <1>1. ASSUME NEW p \in wire, ProviderReceives(p)
        PROVE  history'[id] = history[id]
    <2>1. history[id] # NoTransfer
      BY DEF NoTransfer
    <2> QED BY <1>1, <2>1 DEF ProviderReceives, TypeOK
  <1>2. ASSUME NEW other \in TransferIds, ProviderMoves(other)
        PROVE  history'[id] = history[id]
    <2>1. PICK step \in {<<"pending", "paid">>, <<"pending", "failed">>,
                         <<"failed", "returned">>} :
            /\ history[other].status = step[1]
            /\ history' = [history EXCEPT ![other].status = step[2]]
      BY <1>2, Zenon DEF ProviderMoves
    <2>2. step[1] # "paid"
      OBVIOUS
    <2>3. id # other
      BY <2>1, <2>2
    <2> QED BY <2>1, <2>3 DEF TypeOK
  <1> QED
    BY <1>1, <1>2, OnlyCallsReachProvider
    DEF Next, ProviderStep, vars, Abort, Crash, Import, RequestLost, Tick

\* So what is settled stays settled.
LEMMA SettledStays ==
  ASSUME TypeOK, [Next]_vars, NEW s \in Reconciliation, NEW l \in Legs,
         Settles(history, s, l)
  PROVE  Settles(history', s, l)
  <1> DEFINE id == TransferId(l, Generation(s, l), Current(s, l).issuer)
  <1>1. id \in TransferIds
    BY PartTypes, TransferIdFacts
  <1> HIDE DEF id
  <1>2. history[id] = [status |-> "paid", issuer |-> Current(s, l).issuer]
    BY DEF Settles, id
  <1>3. history'[id] = history[id]
    BY <1>1, <1>2, PaymentIsFinal
  <1> QED BY <1>2, <1>3 DEF Settles, id

\* A record that differs from a proven one in one leg is proven if that leg is
\* not paid, or settled.
LEMMA ProvenOneLeg ==
  ASSUME NEW h, NEW s, NEW next, NEW l \in Legs, Proven(h, s),
         \A m \in Legs \ {l} : next.legs[m] = s.legs[m],
         Status(next, l) = "paid" => Settles(h, next, l)
  PROVE  Proven(h, next)
  <1> SUFFICES ASSUME NEW m \in Legs, m # l, Status(next, m) = "paid"
               PROVE  Settles(h, next, m)
    BY DEF Proven
  <1>1. /\ Generation(next, m) = Generation(s, m) /\ Current(next, m) = Current(s, m)
        /\ Status(next, m) = Status(s, m)
    BY DEF Generation, Current, Status
  <1> QED BY <1>1 DEF Proven, Settles

\* A record with the legs of a proven one is proven.
LEMMA ProvenSameLegs ==
  ASSUME NEW h, NEW s, NEW next, Proven(h, s), next.legs = s.legs
  PROVE  Proven(h, next)
  BY DEF Proven, Settles, Status, Current, Generation

\* A new record calls nothing paid.
LEMMA CreateProven ==
  ASSUME NEW h, NEW at
  PROVE  Proven(h, CreateReconciliation(at))
  <1> SUFFICES ASSUME NEW l \in Legs
               PROVE  Status(CreateReconciliation(at), l) # "paid"
    BY DEF Proven
  <1>1. CreateReconciliation(at).legs[l] = NewLeg
    BY DEF CreateReconciliation
  <1>2. NewLeg.generation = 0 /\ NewLeg.attempts[0].status = "unprepared"
    BY DEF NewLeg, NoAttempt, Generations
  <1> QED BY <1>1, <1>2 DEF Generation, Status, Current

\* Freezing an invoice, new or renewed, calls nothing paid.
LEMMA PreparedProven ==
  ASSUME NEW h, NEW s \in Reconciliation, NEW l \in Legs, NEW d \in Devices,
         NEW at \in Nat, Proven(h, s)
  PROVE  Proven(h, PrepareLeg(s, l, d, at)) /\ Proven(h, RenewLeg(s, l, d, at))
  <1>1. Proven(h, PrepareLeg(s, l, d, at))
    <2> DEFINE next == PrepareLeg(s, l, d, at)
    <2>1. /\ Current(next, l) = FreshAttempt(d, at)
          /\ \A m \in Legs \ {l} : next.legs[m] = s.legs[m]
      BY FreshAttemptType, SetCurrentFacts DEF PrepareLeg
    <2> HIDE DEF next
    <2>2. Status(next, l) = "prepared"
      BY <2>1 DEF Status, FreshAttempt
    <2>3. Proven(h, next)
      BY <2>1, <2>2, ProvenOneLeg
    <2> QED BY <2>3 DEF next
  <1>2. Proven(h, RenewLeg(s, l, d, at))
    <2> DEFINE next == RenewLeg(s, l, d, at)
    <2>1. /\ next.legs[l].generation = 1
          /\ next.legs[l].attempts[1] = FreshAttempt(d, at)
          /\ \A m \in Legs \ {l} : next.legs[m] = s.legs[m]
      BY RenewLegFacts
    <2> HIDE DEF next
    <2>2. Status(next, l) = "prepared"
      BY <2>1 DEF Status, Current, Generation, FreshAttempt
    <2>3. Proven(h, next)
      BY <2>1, <2>2, ProvenOneLeg
    <2> QED BY <2>3 DEF next
  <1> QED BY <1>1, <1>2

\* Recording a status keeps a record proven, if "paid" is recorded of a settled
\* leg only.
LEMMA RecordedProven ==
  ASSUME NEW h, NEW s \in Reconciliation, NEW l \in Legs,
         NEW status \in Statuses, NEW at \in Nat, Proven(h, s),
         status = "paid" => Settles(h, s, l)
  PROVE  Proven(h, RecordLegStatus(s, l, status, at))
  <1>1. CASE Status(s, l) = status
    BY <1>1 DEF RecordLegStatus
  <1>2. CASE Status(s, l) # status
    <2> DEFINE next == RecordLegStatus(s, l, status, at)
    <2>1. /\ Generation(next, l) = Generation(s, l)
          /\ Current(next, l).issuer = Current(s, l).issuer
          /\ Status(next, l) = status
          /\ \A m \in Legs \ {l} : next.legs[m] = s.legs[m]
      BY <1>2, RecordLegStatusChange DEF Status
    <2> HIDE DEF next
    <2>2. Status(next, l) = "paid" => Settles(h, next, l)
      BY <2>1 DEF Settles
    <2>3. Proven(h, next)
      BY <2>1, <2>2, ProvenOneLeg
    <2> QED BY <2>3 DEF next
  <1> QED BY <1>1, <1>2

\* Reopening a cancelled leg as prepared calls nothing paid.
LEMMA ReopenedProven ==
  ASSUME NEW h, NEW s \in Reconciliation, NEW l \in Legs, Proven(h, s)
  PROVE  Proven(h, Reopened(s, l, "prepared"))
  <1> DEFINE next == Reopened(s, l, "prepared")
  <1>1. "prepared" \in Statuses /\ Current(s, l) \in Attempt
    BY PartTypes DEF Statuses
  <1>2. /\ Current(next, l) = [Current(s, l) EXCEPT !.status = "prepared"]
        /\ \A m \in Legs \ {l} : next.legs[m] = s.legs[m]
    BY <1>1, ReopenedFacts
  <1> HIDE DEF next
  <1>3. Status(next, l) = "prepared"
    BY <1>1, <1>2 DEF Status, Attempt
  <1>4. Proven(h, next)
    BY <1>2, <1>3, ProvenOneLeg
  <1> QED BY <1>4 DEF next

\* A step of one tab that saves a proven record, or none, publishes only what the
\* tab holds, and goes on with a proven record and reading, keeps them all so.
LEMMA ProvenStep ==
  ASSUME TypeOK, PaidInv, NEW t \in Tabs, NEW j,
         job' = [job EXCEPT ![t] = j], UNCHANGED history,
         Proven(history, j.state), ReadingProven(history, j),
         \A d \in Devices : db'[d] = db[d] \/ Proven(history, db'[d].state),
         \A snapshot \in relays' : snapshot \in relays \/ snapshot.state = job[t].state
  PROVE  PaidInv'
  <1>1. \A d \in Devices : Proven(history', db'[d].state)
    BY DEF PaidInv
  <1>2. \A snapshot \in relays' : Proven(history', snapshot.state)
    BY DEF PaidInv
  <1>3. \A u \in Tabs : Proven(history', job'[u].state) /\ ReadingProven(history', job'[u])
    BY DEF PaidInv, TypeOK
  <1> QED BY <1>1, <1>2, <1>3 DEF PaidInv

\* Saving writes one row.
LEMMA SaveProven ==
  ASSUME TypeOK, NEW t \in Tabs, NEW s, Save(t, s), Proven(history, s)
  PROVE  \A d \in Devices : db'[d] = db[d] \/ Proven(history, db'[d].state)
  BY TabTypes DEF Save, Written, TypeOK

\* What the outgoing step records is proven, if it was read.
LEMMA RecordProven ==
  ASSUME TypeOK, PaidInv, NEW t \in Tabs, NEW status \in Statuses,
         status = "paid" => Settles(history, job[t].state, job[t].leg)
  PROVE  Proven(history, Recorded(t, status))
  <1> DEFINE at == ObservedAt(job[t].state, Now(t))
  <1>1. at \in Nat
    BY TabTypes, ObservedAtFacts
  <1>2. Proven(history, job[t].state)
    BY DEF PaidInv
  <1> HIDE DEF at
  <1>3. Proven(history, RecordLegStatus(job[t].state, job[t].leg, status, at))
    BY <1>1, <1>2, TabTypes, RecordedProven
  <1> QED BY <1>3 DEF Recorded, at

\* Every step of a tab keeps the records and the readings proven.
LEMMA TabStepProven ==
  ASSUME TypeOK, ObservedSeen, PaidInv, NEW t \in Tabs, TabStep(t)
  PROVE  PaidInv'
  <1> DEFINE l == job[t].leg
             s == job[t].state
             row == Row(t).state
             Kept == \A d \in Devices : db'[d] = db[d] \/ Proven(history, db'[d].state)
             Told == \A snapshot \in relays' :
                       snapshot \in relays \/ snapshot.state = s
             Blind(j) == j.step \notin {"observed", "sent"}
  <1>t. /\ DeviceOf[t] \in Devices
        /\ row \in Reconciliation /\ l \in Legs /\ s \in Reconciliation
        /\ job[t] \in Job /\ Now(t) \in Nat /\ IdleJob \in Job
    BY TabTypes, IdleJobType
  <1>r. /\ Proven(history, row) /\ Proven(history, s) /\ Proven(history, IdleJob.state)
        /\ ReadingProven(history, job[t])
    BY <1>t, CreateProven DEF PaidInv, Row, IdleJob
  <1>i. Blind(IdleJob)
    BY DEF IdleJob
  <1> HIDE DEF IdleJob
  <1>a. \A mode, m : /\ Attest(t, mode, m).state = row
                     /\ Attest(t, mode, m).step = "attest"
                     /\ Blind(Attest(t, mode, m))
    BY <1>t DEF Attest, Job
  <1>e. \A step, mode, m : /\ Enter(step, mode, m).state = IdleJob.state
                           /\ step \notin {"observed", "sent"} =>
                                Blind(Enter(step, mode, m))
    BY <1>t DEF Enter, Job
  <1>h. \A r, step : /\ Holding(t, r, step).state = r.state
                     /\ step \notin {"observed", "sent"} => Blind(Holding(t, r, step))
    BY <1>t DEF Holding, Job
  <1>w. \A r : Written(t, r).state = r
    BY DEF Written
  <1>c. UNCHANGED history
    BY OnlyCallsReachProvider
  <1>b. ASSUME NEW j, job' = [job EXCEPT ![t] = j], Proven(history, j.state),
               ReadingProven(history, j), Kept, Told
        PROVE  PaidInv'
    BY <1>b, <1>c, ProvenStep
  <1>n. \A j : Blind(j) => ReadingProven(history, j)
    BY DEF ReadingProven
  <1>k. ASSUME NEW j, job' = [job EXCEPT ![t] = j], Proven(history, j.state),
               Blind(j), Kept, Told
        PROVE  PaidInv'
    BY <1>b, <1>k, <1>n
  <1> HIDE DEF s, row, Kept, Told, Blind
  <1>q. UNCHANGED db => Kept
    BY DEF Kept
  <1>p. UNCHANGED relays => Told
    BY DEF Told
  <1>v. \A r : Save(t, r) /\ Proven(history, r) => Kept
    BY SaveProven DEF Kept
  <1>f. Finish(t) /\ Kept /\ Told => PaidInv'
    BY <1>i, <1>k, <1>r DEF Finish
  <1>g. ASSUME NEW step, step \notin {"observed", "sent"}, Goto(t, step), Kept, Told
        PROVE  PaidInv'
    <2>1. /\ job' = [job EXCEPT ![t] = [job[t] EXCEPT !.step = step]]
          /\ [job[t] EXCEPT !.step = step].state = s
          /\ Blind([job[t] EXCEPT !.step = step])
      BY <1>g, <1>t DEF Goto, Job, Blind, s
    <2> QED BY <1>g, <1>k, <1>r, <2>1
  <1>o. Publish(t, s) => Told
    BY DEF Publish, Told
  <1>1. CASE StartShopper(t)
    <2>1. PICK m \in Legs, mode \in {"advance", "inspect"} :
            job' = [job EXCEPT ![t] = Attest(t, mode, m)]
      BY <1>1 DEF StartShopper
    <2> QED BY <1>1, <1>a, <1>k, <1>p, <1>q, <1>r, <2>1 DEF StartShopper
  <1>2. CASE StartContinuation(t)
    <2>1. PICK signed \in relays, m \in Legs :
            job' = [job EXCEPT ![t] =
                      [Attest(t, "advance", m)
                         EXCEPT !.publishes = (signed.author = "merchant"),
                                !.closed = (Status(signed.state, m) = "terminal_failure")]]
      BY <1>2 DEF StartContinuation
    <2> DEFINE attest == Attest(t, "advance", m)
               begun == [attest EXCEPT
                           !.publishes = (signed.author = "merchant"),
                           !.closed = (Status(signed.state, m) = "terminal_failure")]
    <2>2. attest \in Job /\ attest.state = row /\ attest.step = "attest"
      BY <1>a, AttestType DEF Modes
    <2> HIDE DEF attest
    <2>3. begun.state = row /\ Blind(begun)
      BY <2>2 DEF Job, Blind
    <2> HIDE DEF begun
    <2>4. job' = [job EXCEPT ![t] = begun]
      BY <2>1 DEF begun, attest
    <2> QED BY <1>2, <1>k, <1>p, <1>q, <1>r, <2>3, <2>4 DEF StartContinuation
  <1>3. CASE StartPreparation(t)
    <2>1. PICK m \in Legs, mode \in {"prepare", "renew"} :
            \/ job' = [job EXCEPT ![t] = Enter("retain", mode, m)]
            \/ job' = [job EXCEPT ![t] = Attest(t, mode, m)]
      BY <1>3 DEF StartPreparation
    <2>2. Kept /\ Told
      BY <1>3, <1>p, <1>q DEF StartPreparation
    <2>3. CASE job' = [job EXCEPT ![t] = Enter("retain", mode, m)]
      BY <1>e, <1>k, <1>r, <2>2, <2>3
    <2> QED BY <1>a, <1>k, <1>r, <2>1, <2>2, <2>3
  <1>4. CASE StartInspection(t)
    <2>1. PICK m \in Legs : job' = [job EXCEPT ![t] = Enter("begin", "inspect", m)]
      BY <1>4 DEF StartInspection, Unpaid
    <2>2. Blind(Enter("begin", "inspect", m))
      BY <1>e
    <2> QED BY <1>4, <1>e, <1>k, <1>p, <1>q, <1>r, <2>1, <2>2 DEF StartInspection
  <1>5. CASE ObserveCredit(t)
    <2>1. Proven(history, RecordCredit(row, Now(t)))
      BY <1>t, <1>r, RecordCreditFacts, ProvenSameLegs
    <2>2. Kept
      BY <1>5, <1>v, <2>1 DEF ObserveCredit, row
    <2>3. job' = [job EXCEPT ![t] = job[t]]
      BY <1>5 DEF ObserveCredit, TypeOK
    <2> QED BY <1>5, <1>b, <1>p, <1>r, <2>2, <2>3 DEF ObserveCredit, s
  <1>6. CASE AttestAgrees(t)
    <2>1. PICK m \in Legs : job' = [job EXCEPT ![t].todo = @ \ {m}] /\ At(t, "attest")
      BY <1>6 DEF AttestAgrees, Attested, Attesting
    <2> DEFINE next == [job[t] EXCEPT !.todo = @ \ {m}]
    <2>2. next.state = s /\ Blind(next)
      BY <1>t, <2>1 DEF Job, At, Blind, s
    <2>3. job' = [job EXCEPT ![t] = next]
      BY <2>1
    <2> HIDE DEF next
    <2> QED BY <1>6, <1>k, <1>p, <1>q, <1>r, <2>2, <2>3 DEF AttestAgrees
  <1>7. CASE AttestPaid(t)
    <2> DEFINE at == ObservedAt(row, Now(t))
    <2>1. PICK m \in Legs :
            /\ ExactHistory(s, m) = "paid"
            /\ Current(row, m).issuer = Current(s, m).issuer
            /\ Generation(row, m) = Generation(s, m)
            /\ Save(t, RecordLegStatus(row, m, "paid", at))
            /\ job' = [job EXCEPT ![t] =
                 [Holding(t, Written(t, RecordLegStatus(row, m, "paid", at)),
                          "attest_ack") EXCEPT !.todo = @ \ {m}]]
            /\ UNCHANGED relays
      BY <1>7 DEF AttestPaid, row, s
    <2> DEFINE paid == RecordLegStatus(row, m, "paid", at)
    <2>2. at \in Nat
      BY <1>t, ObservedAtFacts
    <2> HIDE DEF at
    <2>3. Settles(history, row, m)
      BY <1>t, <2>1, ReadingSettles DEF Settles
    <2>4. Proven(history, paid) /\ paid \in Reconciliation
      BY <1>t, <1>r, <2>2, <2>3, RecordedProven, RecordLegStatusFacts
      DEF Statuses, EvidenceStatuses
    <2> HIDE DEF paid
    <2>5. Kept
      BY <1>v, <2>1, <2>4 DEF paid
    <2> DEFINE held == Holding(t, Written(t, paid), "attest_ack")
               next == [held EXCEPT !.todo = @ \ {m}]
    <2>6. held \in Job /\ held.state = paid /\ held.step = "attest_ack"
      BY <2>4, WrittenType, HoldingType DEF Steps
    <2> HIDE DEF held
    <2>7. next.state = paid /\ Blind(next)
      BY <2>6 DEF Job, Blind
    <2> HIDE DEF next
    <2>8. job' = [job EXCEPT ![t] = next]
      BY <2>1 DEF next, held, paid
    <2> QED BY <1>k, <1>p, <2>1, <2>4, <2>5, <2>7, <2>8
  <1>8. CASE AttestAck(t)
    BY <1>8, <1>f, <1>g, <1>o, <1>p, <1>q DEF AttestAck, s
  <1>9. CASE Select(t)
    <2>1. PICK step \in {"begin", "prepare"} :
            job' = [job EXCEPT ![t] = Holding(t, Row(t), step)]
      BY <1>9 DEF Select
    <2>2. Kept /\ Told
      BY <1>9, <1>p, <1>q DEF Select
    <2>3. /\ Holding(t, Row(t), step).state = row /\ Blind(Holding(t, Row(t), step))
          /\ Proven(history, row)
      BY <1>h, <1>r DEF row
    <2> QED BY <1>k, <2>1, <2>2, <2>3
  <1>10. CASE SelectPreparation(t)
    <2>1. PICK step \in {"retain", "prepare"} :
            job' = [job EXCEPT ![t] = Holding(t, Row(t), step)]
      BY <1>10 DEF SelectPreparation
    <2>2. Kept /\ Told
      BY <1>10, <1>p, <1>q DEF SelectPreparation
    <2>3. /\ Holding(t, Row(t), step).state = row /\ Blind(Holding(t, Row(t), step))
          /\ Proven(history, row)
      BY <1>h, <1>r DEF row
    <2> QED BY <1>k, <2>1, <2>2, <2>3
  <1>11. CASE Prepare(t)
    <2> DEFINE next == IF Frozen(row, l) THEN RenewLeg(row, l, DeviceOf[t], Now(t))
                                         ELSE PrepareLeg(row, l, DeviceOf[t], Now(t))
    <2>1. /\ Save(t, next)
          /\ job' = [job EXCEPT ![t] = Holding(t, Written(t, next), "prepare_ack")]
          /\ UNCHANGED relays
      BY <1>11 DEF Prepare, row
    <2>2. Proven(history, next)
      BY <1>t, <1>r, PreparedProven
    <2> HIDE DEF next
    <2> QED BY <1>h, <1>k, <1>p, <1>v, <1>w, <2>1, <2>2
  <1>12. CASE PrepareExisting(t)
    BY <1>12, <1>h, <1>k, <1>p, <1>q, <1>r DEF PrepareExisting, row
  <1>13. CASE RetainExisting(t)
    <2> DEFINE late == [row EXCEPT !.updatedAt = Later(Now(t), TakeoverAt)]
               kept == IF row.updatedAt < TakeoverAt THEN Written(t, late) ELSE Row(t)
    <2>1. /\ db' = [db EXCEPT ![DeviceOf[t]] = kept]
          /\ job' = [job EXCEPT ![t] = Holding(t, kept, "prepare_ack")]
          /\ UNCHANGED relays
      BY <1>13 DEF RetainExisting, row
    <2>2. late.legs = row.legs
      BY <1>t DEF Reconciliation
    <2> HIDE DEF late
    <2>3. Proven(history, kept.state)
      BY <1>r, <1>w, <2>2, ProvenSameLegs DEF row
    <2> HIDE DEF kept
    <2>4. Kept
      BY <1>t, <2>1, <2>3 DEF Kept, TypeOK
    <2> QED BY <1>h, <1>k, <1>p, <2>1, <2>3, <2>4
  <1>14. CASE PrepareAck(t)
    BY <1>14, <1>f, <1>o, <1>p, <1>q DEF PrepareAck, s
  <1>15. CASE Begin(t)
    <2>1. CASE Finish(t)
      BY <1>15, <1>f, <1>p, <1>q, <2>1 DEF Begin
    <2>2. CASE ~Finish(t)
      <3>1. PICK step \in {"observe", "handoff"}, cancelled \in BOOLEAN :
              job' = [job EXCEPT ![t] =
                        [Holding(t, Row(t), step) EXCEPT !.cancelled = cancelled]]
        BY <1>15, <2>2 DEF Begin, LiveCancellation
      <3> DEFINE held == Holding(t, Row(t), step)
                 next == [held EXCEPT !.cancelled = cancelled]
      <3>2. held \in Job /\ held.state = row /\ held.step = step
        BY TabTypes, HoldingType DEF Steps, row
      <3> HIDE DEF held
      <3>3. next.state = row /\ Blind(next)
        BY <3>2 DEF Job, Blind
      <3> HIDE DEF next
      <3>4. job' = [job EXCEPT ![t] = next]
        BY <3>1 DEF next, held
      <3> QED BY <1>15, <1>k, <1>p, <1>q, <1>r, <3>3, <3>4 DEF Begin
    <2> QED BY <2>1, <2>2
  <1>16. CASE Handoff(t)
    BY <1>16, <1>f, <1>g, <1>o, <1>p, <1>q DEF Handoff, s
  <1>s. ASSUME NEW step, NEW seen,
               job' = [job EXCEPT ![t].step = step, ![t].seen = seen],
               seen = "paid" => Settles(history, s, l),
               UNCHANGED <<db, relays>>
        PROVE  PaidInv'
    <2> DEFINE next == [job[t] EXCEPT !.step = step, !.seen = seen]
    <2>1. /\ next.state = s /\ next.leg = l /\ next.seen = seen
          /\ job' = [job EXCEPT ![t] = next]
      BY <1>s, <1>t DEF Job, TypeOK, s
    <2> HIDE DEF next
    <2>2. ReadingProven(history, next)
      BY <1>s, <2>1 DEF ReadingProven
    <2> QED BY <1>s, <1>b, <1>p, <1>q, <1>r, <2>1, <2>2
  <1>x. ExactHistory(s, l) = "paid" => Settles(history, s, l)
    BY <1>t, ReadingSettles
  <1>17. CASE Observe(t)
    <2>1. PICK seen \in {ExactHistory(s, l), "conflicting_evidence"} :
            job' = [job EXCEPT ![t].step = "observed", ![t].seen = seen]
      BY <1>17 DEF Observe, s
    <2> QED BY <1>17, <1>s, <1>x, <2>1 DEF Observe
  <1>18. CASE RecordObserved(t)
    <2>1. RecordedAs(job[t].seen) \in Statuses
      <3>1. job[t].seen \in Readings \ {"not_found"}
        BY <1>18 DEF RecordObserved, At, ObservedSeen
      <3> QED BY <3>1 DEF RecordedAs, Readings, Statuses, EvidenceStatuses, PossibleSend
    <2>2. RecordedAs(job[t].seen) = "paid" => Settles(history, job[t].state, l)
      BY <1>18, <1>r DEF RecordObserved, At, RecordedAs, ReadingProven
    <2>3. Proven(history, Recorded(t, RecordedAs(job[t].seen)))
      BY <2>1, <2>2, RecordProven
    <2> QED BY <1>18, <1>f, <1>p, <1>v, <2>3 DEF RecordObserved
  <1>19. CASE WriteAhead(t)
    <2>1. PICK cancelled \in BOOLEAN, at \in Nat :
            LET from == IF cancelled THEN Reopened(s, l, "prepared") ELSE s
                next == RecordLegStatus(from, l, "submitted", at)
            IN /\ Save(t, next)
               /\ job' = [job EXCEPT ![t] =
                            [Holding(t, Written(t, next), "submitted_ack")
                               EXCEPT !.cancelled = FALSE]]
      <3>1. \A at \in Nat : ObservedAt(s, at) \in Nat
        BY <1>t, ObservedAtFacts
      <3> QED BY <1>19, <1>t, <3>1 DEF WriteAhead, Job, s
    <2> DEFINE from == IF cancelled THEN Reopened(s, l, "prepared") ELSE s
               next == RecordLegStatus(from, l, "submitted", at)
    <2>2. "prepared" \in Statuses /\ "submitted" \in Statuses
      BY DEF Statuses, EvidenceStatuses, PossibleSend
    <2>3. from \in Reconciliation /\ Proven(history, from)
      BY <1>t, <1>r, <2>2, ReopenedFacts, ReopenedProven
    <2>4. /\ Save(t, next)
          /\ job' = [job EXCEPT ![t] =
                       [Holding(t, Written(t, next), "submitted_ack")
                          EXCEPT !.cancelled = FALSE]]
      BY <2>1
    <2> HIDE DEF from
    <2>5. next \in Reconciliation /\ Proven(history, next)
      BY <1>t, <2>2, <2>3, RecordLegStatusFacts, RecordedProven
    <2> HIDE DEF next
    <2> DEFINE held == Holding(t, Written(t, next), "submitted_ack")
               final == [held EXCEPT !.cancelled = FALSE]
    <2>6. held \in Job /\ held.state = next /\ held.step = "submitted_ack"
      BY <2>5, WrittenType, HoldingType DEF Steps
    <2> HIDE DEF held
    <2>7. final.state = next /\ Blind(final)
      BY <2>6 DEF Job, Blind
    <2> HIDE DEF final
    <2>8. job' = [job EXCEPT ![t] = final]
      BY <2>4 DEF final, held
    <2> QED BY <1>19, <1>k, <1>p, <1>v, <2>4, <2>5, <2>7, <2>8 DEF WriteAhead
  <1>20. CASE HandoffSubmitted(t)
    BY <1>20, <1>g, <1>o, <1>p, <1>q DEF HandoffSubmitted, s
  <1>21. CASE Cancel(t)
    <2> DEFINE next == Recorded(t, "terminal_failure")
    <2>1. Proven(history, next)
      BY RecordProven DEF Statuses, EvidenceStatuses
    <2>2. /\ Save(t, next)
          /\ job' = [job EXCEPT ![t] = Holding(t, Written(t, next), "readback")]
          /\ UNCHANGED relays
      BY <1>21 DEF Cancel
    <2> HIDE DEF next
    <2> QED BY <1>h, <1>k, <1>p, <1>v, <1>w, <2>1, <2>2
  <1>22. CASE RememberCancellation(t)
    BY <1>22, <1>f, <1>p, <1>q DEF RememberCancellation
  <1>23. CASE Recheck(t)
    <2>1. Goto(t, "send") \/ Goto(t, "cancel")
      BY <1>23 DEF Recheck
    <2>2. Kept /\ Told
      BY <1>23, <1>p, <1>q DEF Recheck
    <2> QED BY <1>g, <2>1, <2>2
  <1>24. CASE SendFindsHistory(t)
    BY <1>24, <1>s, <1>x DEF SendFindsHistory, s
  <1>25. CASE SendRefused(t)
    <2>1. /\ job' = [job EXCEPT ![t].step = "sent", ![t].seen = "not_sent"]
          /\ UNCHANGED <<db, relays>>
      BY <1>25 DEF SendRefused
    <2>2. "not_sent" = "paid" => Settles(history, s, l)
      OBVIOUS
    <2> QED BY <1>s, <2>1, <2>2, Zenon
  <1>26. CASE CallProvider(t)
    BY <1>26, <1>g, <1>p, <1>q DEF CallProvider
  <1>27. CASE SendReturns(t)
    <2> DEFINE read == ExactHistory(s, l)
               seen == IF read = "not_found" THEN "pending" ELSE read
    <2>1. /\ job' = [job EXCEPT ![t].step = "sent", ![t].seen = seen]
          /\ UNCHANGED <<db, relays>>
      BY <1>27 DEF SendReturns, s
    <2>2. seen = "paid" => Settles(history, s, l)
      BY <1>x
    <2> HIDE DEF seen
    <2> QED BY <1>s, <2>1, <2>2
  <1>28. CASE SendAmbiguous(t)
    BY <1>28, <1>f, <1>p, <1>q DEF SendAmbiguous
  <1>29. CASE RecordSent(t)
    <2>1. PICK status \in {"paid", "terminal_failure"} :
            /\ status = "paid" => job[t].seen = "paid"
            /\ Save(t, Recorded(t, status))
            /\ \/ job' = [job EXCEPT ![t] =
                            Holding(t, Written(t, Recorded(t, status)), "paid_ack")]
               \/ Finish(t)
            /\ UNCHANGED relays
      BY <1>29 DEF RecordSent
    <2> DEFINE next == Recorded(t, status)
    <2>2. status = "paid" => Settles(history, job[t].state, l)
      BY <1>29, <1>r, <2>1 DEF RecordSent, At, ReadingProven
    <2>3. Proven(history, next)
      BY <2>2, RecordProven DEF Statuses, EvidenceStatuses
    <2>4. /\ Save(t, next)
          /\ \/ job' = [job EXCEPT ![t] = Holding(t, Written(t, next), "paid_ack")]
             \/ Finish(t)
      BY <2>1
    <2> HIDE DEF next
    <2>5. Kept /\ Told
      BY <1>p, <1>v, <2>1, <2>3, <2>4
    <2>6. CASE job' = [job EXCEPT ![t] = Holding(t, Written(t, next), "paid_ack")]
      BY <1>h, <1>k, <1>w, <2>3, <2>5, <2>6
    <2> QED BY <1>f, <2>4, <2>5, <2>6
  <1>30. CASE PaidAck(t)
    BY <1>30, <1>f, <1>o, <1>p, <1>q DEF PaidAck, s
  <1> QED
    BY <1>1, <1>2, <1>3, <1>4, <1>5, <1>6, <1>7, <1>8, <1>9, <1>10, <1>11, <1>12,
       <1>13, <1>14, <1>15, <1>16, <1>17, <1>18, <1>19, <1>20, <1>21, <1>22, <1>23,
       <1>24, <1>25, <1>26, <1>27, <1>28, <1>29, <1>30 DEF TabStep

\* So does every other step: an import stores a proven snapshot, and the provider
\* takes no payment back.
LEMMA OtherStepProven ==
  ASSUME TypeOK, PaidInv, [Next]_vars, \A t \in Tabs : ~TabStep(t)
  PROVE  PaidInv'
  <1>1. ASSUME NEW t \in Tabs, Finish(t), UNCHANGED <<db, relays, history>>
        PROVE  PaidInv'
    <2>1. /\ Proven(history, IdleJob.state) /\ IdleJob.step = "idle"
      BY CreateProven DEF IdleJob
    <2>2. ReadingProven(history, IdleJob)
      BY <2>1 DEF ReadingProven
    <2> QED BY <1>1, <2>1, <2>2, ProvenStep DEF Finish
  <1>2. ASSUME NEW d \in Devices, NEW snapshot \in relays, Import(d, snapshot)
        PROVE  PaidInv'
    <2>1. Proven(history, snapshot.state)
      BY DEF PaidInv
    <2>2. /\ db' = [db EXCEPT ![d] = [revision |-> db[d].revision + 1,
                                      state |-> snapshot.state]]
          /\ UNCHANGED <<relays, job, history>>
      BY <1>2 DEF Import
    <2>3. \A e \in Devices : Proven(history, db'[e].state)
      BY <2>1, <2>2 DEF PaidInv, TypeOK
    <2> QED BY <2>2, <2>3 DEF PaidInv
  <1>3. CASE UNCHANGED <<db, relays, job>>
    <2>1. \A s \in Reconciliation : Proven(history, s) => Proven(history', s)
      BY SettledStays DEF Proven
    <2>2. \A j \in Job : ReadingProven(history, j) => ReadingProven(history', j)
      BY SettledStays DEF ReadingProven, Job
    <2>3. /\ \A d \in Devices : db[d].state \in Reconciliation
          /\ \A snapshot \in relays : snapshot.state \in Reconciliation
          /\ \A t \in Tabs : job[t] \in Job /\ job[t].state \in Reconciliation
      BY DEF TypeOK, Rows, Snapshots, Job
    <2> QED BY <1>3, <2>1, <2>2, <2>3 DEF PaidInv
  <1> QED
    BY <1>1, <1>2, <1>3
    DEF Next, ProviderStep, vars, Abort, Crash, ProviderReceives, RequestLost,
        ProviderMoves, Tick

\* The rows, the snapshots and the invocations are proven in every state.
LEMMA PaidInvariant == Spec => []PaidInv
  <1>1. Init => PaidInv
    <2> SUFFICES ASSUME Init PROVE PaidInv
      OBVIOUS
    <2>1. /\ IdleJob.state = CreateReconciliation(0) /\ IdleJob.step = "idle"
          /\ Proven(history, CreateReconciliation(0))
      BY CreateProven DEF IdleJob
    <2>2. ReadingProven(history, IdleJob)
      BY <2>1 DEF ReadingProven
    <2> QED BY <2>1, <2>2 DEF Init, PaidInv
  <1>2. TypeOK /\ ObservedSeen /\ PaidInv /\ [Next]_vars => PaidInv'
    BY TabStepProven, OtherStepProven
  <1> QED BY ShapeInvariant, <1>1, <1>2, PTL DEF Spec

\* Every copy of the record that says paid, on any device or relay, names an
\* invoice that the provider has paid, whatever the copies went through: imports,
\* renewals, cancellations, second tabs and lost answers
\* (runCheckoutSparkSettledOutgoingStep, attestFrozenLegs).
THEOREM OnlyPaidIsCalledPaid == Spec => []PaidIsProven
  <1>1. PaidInv => PaidIsProven
    BY DEF PaidInv, Proven, Settles, PaidIsProven, PaidAtProvider
  <1> QED BY PaidInvariant, <1>1, PTL

-----------------------------------------------------------------------------
(* One call per attempt and device.                                        *)

\* What licenses a tab to call the provider for an attempt, now or later: it is on
\* the way there, or it holds a live cancellation of the attempt.
Holds(t, l, g) ==
  job[t].step \in Trying /\ job[t].leg = l /\ Generation(job[t].state, l) = g
Free(t, l, g) ==
  LiveCancellation(t, l, Row(t)) /\ Generation(Row(t).state, l) = g
Licensed(t, l, g) == Holds(t, l, g) \/ Free(t, l, g)

\* No tab is ahead of its device's row, so that a compare-and-swap on the revision
\* compares the records, and a cancellation dies with the row it was granted for.
HeldRevisions ==
  \A t \in Tabs :
    /\ job[t].revision <= Row(t).revision
    /\ job[t].revision = Row(t).revision => job[t].state = Row(t).state
    /\ \A l \in Legs : caps[t][l] <= Row(t).revision

\* The inductive invariant: a device has one licence for an attempt at a time, in
\* one tab and of one kind, none once it has called, and only while its row shows
\* the marker - which is what keeps a second tab from writing ahead.
OneLicence ==
  \A t \in Tabs, l \in Legs, g \in Generations : Licensed(t, l, g) =>
    /\ MarkedSent(Row(t).state, l, g)
    /\ calls[DeviceOf[t]][<<l, g>>] = 0
    /\ ~(Holds(t, l, g) /\ Free(t, l, g))
    /\ \A u \in Tabs \ {t} : DeviceOf[u] = DeviceOf[t] => ~Licensed(u, l, g)
OneCallInv == HeldRevisions /\ OneLicence /\ AtMostOneCall

\* A step leaves a row alone, or moves it to the next revision.
LEMMA RowMoves ==
  ASSUME TypeOK, [Next]_vars, NEW d \in Devices
  PROVE  db'[d] = db[d] \/ db'[d].revision = db[d].revision + 1
  <1>1. ASSUME NEW t \in Tabs, NEW s, Save(t, s)
        PROVE  db'[d] = db[d] \/ db'[d].revision = db[d].revision + 1
    BY <1>1 DEF Save, Written, Row, TypeOK
  <1>2. ASSUME NEW t \in Tabs, RetainExisting(t)
        PROVE  db'[d] = db[d] \/ db'[d].revision = db[d].revision + 1
    <2>1. PICK late :
            db' = [db EXCEPT ![DeviceOf[t]] =
                     IF Row(t).state.updatedAt < TakeoverAt
                     THEN Written(t, late) ELSE Row(t)]
      BY <1>2 DEF RetainExisting
    <2> QED BY <2>1 DEF Written, Row, TypeOK
  <1>3. ASSUME NEW t \in Tabs, TabStep(t)
        PROVE  UNCHANGED db \/ (\E s : Save(t, s)) \/ RetainExisting(t)
    BY <1>3
    DEF TabStep, StartShopper, StartContinuation, StartPreparation,
        StartInspection, ObserveCredit, AttestAgrees, AttestPaid, AttestAck,
        Select, SelectPreparation, Prepare, PrepareExisting, PrepareAck,
        Begin, Handoff, Observe, RecordObserved, WriteAhead,
        HandoffSubmitted, Cancel, RememberCancellation, Recheck,
        SendFindsHistory, SendRefused, CallProvider, SendReturns,
        SendAmbiguous, RecordSent, PaidAck
  <1>4. ASSUME NEW e \in Devices, NEW snapshot \in relays, Import(e, snapshot)
        PROVE  db'[d] = db[d] \/ db'[d].revision = db[d].revision + 1
    BY <1>4 DEF Import, TypeOK
  <1> QED
    BY <1>1, <1>2, <1>3, <1>4
    DEF Next, ProviderStep, vars, Abort, Crash, ProviderReceives, RequestLost,
        ProviderMoves, Tick

\* A cancellation is kept, forgotten, or granted for the revision the tab holds.
LEMMA CapMoves ==
  ASSUME TypeOK, [Next]_vars, NEW t \in Tabs, NEW l \in Legs
  PROVE  \/ caps'[t][l] = caps[t][l]
         \/ caps'[t][l] = 0
         \/ /\ TabStep(t) /\ RememberCancellation(t)
            /\ l = job[t].leg /\ caps'[t][l] = job[t].revision
  <1> DEFINE Goal == \/ caps'[t][l] = caps[t][l]
                     \/ caps'[t][l] = 0
                     \/ /\ TabStep(t) /\ RememberCancellation(t)
                        /\ l = job[t].leg /\ caps'[t][l] = job[t].revision
  <1>1. ASSUME NEW u \in Tabs, NEW m, Forget(u, m) PROVE Goal
    BY <1>1 DEF Forget, TypeOK
  <1>2. ASSUME NEW u \in Tabs, RememberCancellation(u) PROVE Goal
    <2>1. caps' = [caps EXCEPT ![u][job[u].leg] = job[u].revision]
      BY <1>2 DEF RememberCancellation
    <2>2. CASE u = t /\ l = job[t].leg
      BY <1>2, <2>1, <2>2 DEF TypeOK, TabStep
    <2>3. CASE ~(u = t /\ l = job[t].leg)
      BY <2>1, <2>3 DEF TypeOK
    <2> QED BY <2>2, <2>3
  <1>3. ASSUME NEW u \in Tabs, Crash(u) PROVE Goal
    BY <1>3 DEF Crash, TypeOK
  <1>4. ASSUME NEW u \in Tabs, TabStep(u)
        PROVE  UNCHANGED caps \/ (\E m : Forget(u, m)) \/ RememberCancellation(u)
    BY <1>4
    DEF TabStep, StartShopper, StartContinuation, StartPreparation,
        StartInspection, ObserveCredit, AttestAgrees, AttestPaid, AttestAck,
        Select, SelectPreparation, Prepare, PrepareExisting, RetainExisting,
        PrepareAck, Begin, Handoff, Observe, RecordObserved, WriteAhead,
        HandoffSubmitted, Cancel, Recheck, SendFindsHistory, SendRefused,
        CallProvider, SendReturns, SendAmbiguous, RecordSent, PaidAck
  <1>5. UNCHANGED caps => Goal
    OBVIOUS
  <1> HIDE DEF Goal
  <1>6. Goal
    BY <1>1, <1>2, <1>3, <1>4, <1>5
    DEF Next, ProviderStep, vars, Abort, Import, ProviderReceives, RequestLost,
        ProviderMoves, Tick
  <1> QED BY <1>6 DEF Goal

\* What a tab holds after a step is nothing, what it held, or its row.
LEMMA JobHolds ==
  ASSUME TypeOK, NEW t \in Tabs, TabStep(t)
  PROVE  \/ job'[t].revision = 0 /\ job'[t].state = CreateReconciliation(0)
         \/ job'[t].revision = job[t].revision /\ job'[t].state = job[t].state
         \/ /\ job'[t].revision = db'[DeviceOf[t]].revision
            /\ job'[t].state = db'[DeviceOf[t]].state
  <1> DEFINE row == db'[DeviceOf[t]]
             Goal == \/ job'[t].revision = 0 /\ job'[t].state = CreateReconciliation(0)
                     \/ job'[t].revision = job[t].revision /\ job'[t].state = job[t].state
                     \/ job'[t].revision = row.revision /\ job'[t].state = row.state
  <1> SUFFICES Goal
    OBVIOUS
  <1>t. job[t] \in Job /\ t \in DOMAIN job /\ DeviceOf[t] \in DOMAIN db
    BY TabTypes DEF TypeOK
  <1>i. /\ IdleJob \in Job /\ IdleJob.revision = 0
        /\ IdleJob.state = CreateReconciliation(0)
    BY IdleJobType DEF IdleJob
  <1> HIDE DEF IdleJob
  <1>f. Finish(t) => Goal
    BY <1>t, <1>i DEF Finish
  <1>g. ASSUME NEW step, Goto(t, step) PROVE Goal
    <2>1. job'[t] = [job[t] EXCEPT !.step = step]
      BY <1>g, <1>t DEF Goto
    <2> QED BY <1>t, <2>1 DEF Job
  <1>h. ASSUME NEW r, NEW step, r = row, job' = [job EXCEPT ![t] = Holding(t, r, step)]
        PROVE  Goal
    <2>1. job'[t] = Holding(t, r, step)
      BY <1>h, <1>t
    <2> QED BY <1>h, <1>t, <2>1 DEF Holding, Job
  <1>k. ASSUME NEW r, NEW step, NEW cancelled, r = row,
               job' = [job EXCEPT ![t] = [Holding(t, r, step) EXCEPT !.cancelled = cancelled]]
        PROVE  Goal
    <2>1. job'[t] = [Holding(t, r, step) EXCEPT !.cancelled = cancelled]
      BY <1>k, <1>t
    <2> QED BY <1>k, <1>t, <2>1 DEF Holding, Job
  <1>u. UNCHANGED db => row = Row(t)
    BY DEF Row
  <1>v. \A s : Save(t, s) => row = Written(t, s)
    BY <1>t DEF Save
  <1>a. ASSUME NEW mode, NEW l, UNCHANGED db, job' = [job EXCEPT ![t] = Attest(t, mode, l)]
        PROVE  Goal
    <2>1. job'[t] = Attest(t, mode, l)
      BY <1>a, <1>t
    <2> QED BY <1>a, <1>i, <1>u, <2>1 DEF Attest, Job
  <1>e. ASSUME NEW step, NEW mode, NEW l, job' = [job EXCEPT ![t] = Enter(step, mode, l)]
        PROVE  Goal
    <2>1. job'[t] = Enter(step, mode, l)
      BY <1>e, <1>t
    <2> QED BY <1>i, <2>1 DEF Enter, Job
  <1>s. ASSUME NEW step, NEW seen, job' = [job EXCEPT ![t].step = step, ![t].seen = seen]
        PROVE  Goal
    <2>1. job'[t] = [job[t] EXCEPT !.step = step, !.seen = seen]
      BY <1>s, <1>t
    <2> QED BY <1>t, <2>1 DEF Job
  <1>1. CASE StartShopper(t)
    <2>1. PICK m \in Legs, mode \in {"advance", "inspect"} :
            job' = [job EXCEPT ![t] = Attest(t, mode, m)] /\ UNCHANGED db
      BY <1>1 DEF StartShopper
    <2> QED BY <1>a, <2>1
  <1>2. CASE StartContinuation(t)
    <2>1. PICK signed \in relays, m \in Legs :
            job' = [job EXCEPT ![t] =
                      [Attest(t, "advance", m)
                         EXCEPT !.publishes = (signed.author = "merchant"),
                                !.closed = (Status(signed.state, m) = "terminal_failure")]]
      BY <1>2 DEF StartContinuation
    <2> DEFINE attest == Attest(t, "advance", m)
    <2>2. /\ attest \in Job /\ attest.state = Row(t).state
          /\ attest.revision = Row(t).revision
      <3>1. attest \in Job /\ attest.state = Row(t).state
        BY AttestType DEF Modes
      <3>2. attest.revision = Row(t).revision
        BY <1>i DEF Attest, Job
      <3> QED BY <3>1, <3>2
    <2> HIDE DEF attest
    <2>3. job'[t] = [attest EXCEPT
                       !.publishes = (signed.author = "merchant"),
                       !.closed = (Status(signed.state, m) = "terminal_failure")]
      BY <1>t, <2>1 DEF attest
    <2>4. job'[t].state = Row(t).state /\ job'[t].revision = Row(t).revision
      BY <2>2, <2>3 DEF Job
    <2> QED BY <1>2, <1>u, <2>4 DEF StartContinuation
  <1>3. CASE StartPreparation(t)
    <2>1. PICK m \in Legs, mode \in {"prepare", "renew"} :
            /\ \/ job' = [job EXCEPT ![t] = Enter("retain", mode, m)]
               \/ job' = [job EXCEPT ![t] = Attest(t, mode, m)]
            /\ UNCHANGED db
      BY <1>3 DEF StartPreparation
    <2> QED BY <1>a, <1>e, <2>1
  <1>4. CASE StartInspection(t)
    <2>1. PICK m \in Legs : job' = [job EXCEPT ![t] = Enter("begin", "inspect", m)]
      BY <1>4 DEF StartInspection, Unpaid
    <2> QED BY <1>e, <2>1
  <1>5. CASE ObserveCredit(t)
    BY <1>5 DEF ObserveCredit
  <1>6. CASE AttestAgrees(t)
    <2>1. PICK m : job'[t] = [job[t] EXCEPT !.todo = @ \ {m}]
      BY <1>t, <1>6 DEF AttestAgrees, Attested
    <2> QED BY <1>t, <2>1 DEF Job
  <1>7. CASE AttestPaid(t)
    <2>1. PICK paid, m :
            /\ Save(t, paid)
            /\ job'[t] = [Holding(t, Written(t, paid), "attest_ack") EXCEPT !.todo = @ \ {m}]
      BY <1>t, <1>7 DEF AttestPaid
    <2>2. row = Written(t, paid)
      BY <1>v, <2>1
    <2>3. /\ job'[t].revision = Written(t, paid).revision
          /\ job'[t].state = Written(t, paid).state
      BY <1>t, <2>1 DEF Holding, Job
    <2> QED BY <2>2, <2>3
  <1>8. CASE AttestAck(t)
    BY <1>8, <1>f, <1>g DEF AttestAck
  <1> HIDE DEF Goal, row
  <1>9. CASE Select(t) \/ SelectPreparation(t) \/ PrepareExisting(t)
    <2>1. PICK step : job' = [job EXCEPT ![t] = Holding(t, Row(t), step)] /\ UNCHANGED db
      BY <1>9 DEF Select, SelectPreparation, PrepareExisting
    <2> QED BY <1>h, <1>u, <2>1
  <1>10. CASE Prepare(t)
    <2>1. PICK next : /\ Save(t, next)
                      /\ job' = [job EXCEPT ![t] = Holding(t, Written(t, next), "prepare_ack")]
      BY <1>10 DEF Prepare
    <2> QED BY <1>h, <1>v, <2>1
  <1>11. CASE RetainExisting(t)
    <2>1. PICK kept : /\ db' = [db EXCEPT ![DeviceOf[t]] = kept]
                      /\ job' = [job EXCEPT ![t] = Holding(t, kept, "prepare_ack")]
      BY <1>11 DEF RetainExisting
    <2>2. kept = row
      BY <1>t, <2>1 DEF row
    <2> QED BY <1>h, <2>1, <2>2
  <1>12. CASE Begin(t)
    <2>1. CASE Finish(t)
      BY <1>f, <2>1
    <2>2. CASE ~Finish(t)
      <3>1. PICK step, cancelled :
              job' = [job EXCEPT ![t] =
                        [Holding(t, Row(t), step) EXCEPT !.cancelled = cancelled]]
        BY <1>12, <2>2 DEF Begin
      <3>2. UNCHANGED db
        BY <1>12 DEF Begin
      <3> QED BY <1>k, <1>u, <3>1, <3>2
    <2> QED BY <2>1, <2>2
  <1>13. CASE Handoff(t) \/ HandoffSubmitted(t) \/ Recheck(t) \/ CallProvider(t)
    BY <1>13, <1>f, <1>g DEF Handoff, HandoffSubmitted, Recheck, CallProvider
  <1>14. CASE Observe(t) \/ SendFindsHistory(t) \/ SendRefused(t) \/ SendReturns(t)
    BY <1>14, <1>s DEF Observe, SendFindsHistory, SendRefused, SendReturns
  <1>15. CASE \/ PrepareAck(t) \/ RecordObserved(t) \/ RememberCancellation(t)
              \/ SendAmbiguous(t) \/ PaidAck(t)
    BY <1>15, <1>f
    DEF PrepareAck, RecordObserved, RememberCancellation, SendAmbiguous, PaidAck
  <1>16. CASE WriteAhead(t)
    <2>1. PICK next :
            /\ Save(t, next)
            /\ job' = [job EXCEPT ![t] =
                         [Holding(t, Written(t, next), "submitted_ack")
                            EXCEPT !.cancelled = FALSE]]
      BY <1>16 DEF WriteAhead
    <2> QED BY <1>k, <1>v, <2>1
  <1>17. CASE Cancel(t)
    <2>1. PICK next : /\ Save(t, next)
                      /\ job' = [job EXCEPT ![t] = Holding(t, Written(t, next), "readback")]
      BY <1>17 DEF Cancel
    <2> QED BY <1>h, <1>v, <2>1
  <1>18. CASE RecordSent(t)
    <2>1. PICK next : /\ Save(t, next)
                      /\ \/ job' = [job EXCEPT ![t] = Holding(t, Written(t, next), "paid_ack")]
                         \/ Finish(t)
      BY <1>18 DEF RecordSent
    <2> QED BY <1>f, <1>h, <1>v, <2>1
  <1> QED
    BY <1>1, <1>2, <1>3, <1>4, <1>5, <1>6, <1>7, <1>8, <1>9, <1>10, <1>11, <1>12,
       <1>13, <1>14, <1>15, <1>16, <1>17, <1>18 DEF TabStep

\* Every step keeps the tabs behind their rows.
LEMMA HeldRevisionsStep ==
  ASSUME TypeOK, TypeOK', EmptyRows', HeldRevisions, [Next]_vars
  PROVE  HeldRevisions'
  <1> SUFFICES ASSUME NEW t \in Tabs
               PROVE  /\ job'[t].revision <= db'[DeviceOf[t]].revision
                      /\ job'[t].revision = db'[DeviceOf[t]].revision =>
                           job'[t].state = db'[DeviceOf[t]].state
                      /\ \A l \in Legs : caps'[t][l] <= db'[DeviceOf[t]].revision
    BY DEF HeldRevisions, Row
  <1> DEFINE d == DeviceOf[t]
             n == db'[d].revision
  <1>1. /\ d \in Devices /\ db[d].revision \in Nat /\ n \in Nat
        /\ job[t].revision \in Nat /\ \A l \in Legs : caps[t][l] \in Nat
    BY TabTypes DEF TypeOK, Rows
  <1>2. /\ job[t].revision <= db[d].revision
        /\ job[t].revision = db[d].revision => job[t].state = db[d].state
        /\ \A l \in Legs : caps[t][l] <= db[d].revision
    BY DEF HeldRevisions, Row
  <1>3. db'[d] = db[d] \/ n = db[d].revision + 1
    BY <1>1, RowMoves
  <1>4. db[d].revision <= n
    BY <1>1, <1>3
  <1>5. /\ job'[t].revision <= n
        /\ job'[t].revision = n => job'[t].state = db'[d].state
    <2>1. CASE job'[t].revision = 0 /\ job'[t].state = CreateReconciliation(0)
      BY <1>1, <2>1 DEF EmptyRows
    <2>2. CASE job'[t].revision = job[t].revision /\ job'[t].state = job[t].state
      <3>1. job[t].revision <= n
        BY <1>1, <1>2, <1>4
      <3>2. job[t].revision = n => db'[d] = db[d]
        BY <1>1, <1>2, <1>3
      <3>3. job[t].revision = n => job[t].state = db'[d].state
        BY <1>2, <3>2
      <3> QED BY <2>2, <3>1, <3>3
    <2>3. CASE job'[t].revision = n /\ job'[t].state = db'[d].state
      BY <1>1, <2>3
    <2>4. /\ job'[t] = IdleJob =>
               job'[t].revision = 0 /\ job'[t].state = CreateReconciliation(0)
      BY DEF IdleJob
    <2> QED BY <2>1, <2>2, <2>3, <2>4, OneJobMoves, JobHolds
  <1>6. ASSUME NEW l \in Legs
        PROVE  caps'[t][l] <= n
    <2>1. \/ caps'[t][l] = caps[t][l] \/ caps'[t][l] = 0
          \/ caps'[t][l] = job[t].revision
      BY CapMoves
    <2>2. caps[t][l] <= db[d].revision /\ caps[t][l] \in Nat
      BY <1>1, <1>2
    <2> HIDE DEF n, d
    <2> QED BY <1>1, <1>2, <1>4, <2>1, <2>2
  <1> QED BY <1>5, <1>6

\* No step but the write-ahead gives a tab a licence it did not have.
LEMMA LicenceMoves ==
  ASSUME TypeOK, TypeOK', HeldRevisions, [Next]_vars,
         NEW t \in Tabs, NEW l \in Legs, NEW g \in Generations,
         ~(TabStep(t) /\ WriteAhead(t))
  PROVE  /\ Holds(t, l, g)' => Holds(t, l, g)
         /\ Free(t, l, g)' =>
              \/ Free(t, l, g)
              \/ Holds(t, l, g) /\ ~Holds(t, l, g)'
  <1> DEFINE d == DeviceOf[t]
  <1>t. /\ d \in Devices /\ db[d].revision \in Nat
        /\ job[t].revision \in Nat /\ caps[t][l] \in Nat /\ caps'[t][l] \in Nat
    BY TabTypes DEF TypeOK, Rows
  <1>1. Holds(t, l, g)' => Holds(t, l, g)
    <2> HAVE Holds(t, l, g)'
    <2>1. job'[t] # IdleJob
      BY DEF Holds, Trying, BeforeCall, IdleJob
    <2>2. CASE job'[t] = job[t]
      BY <2>2 DEF Holds
    <2>3. CASE TabStep(t)
      BY <2>3, OnTheWay DEF Holds, Attempting
    <2> QED BY <2>1, <2>2, <2>3, OneJobMoves
  <1>2. ASSUME Free(t, l, g)', caps'[t][l] = caps[t][l]
        PROVE  Free(t, l, g)
    <2>1. caps[t][l] = db'[d].revision
      BY <1>2 DEF Free, LiveCancellation, Row
    <2>2. caps[t][l] <= db[d].revision
      BY DEF HeldRevisions, Row
    <2>3. db'[d] = db[d]
      BY <1>t, <2>1, <2>2, RowMoves
    <2> QED BY <1>2, <2>3 DEF Free, LiveCancellation, Row
  <1>3. ASSUME Free(t, l, g)', caps'[t][l] = 0
        PROVE  Free(t, l, g)
    <2>1. db'[d].revision = 0
      BY <1>3 DEF Free, LiveCancellation, Row
    <2>2. db[d].revision = 0 /\ db'[d] = db[d]
      BY <1>t, <2>1, RowMoves
    <2>3. caps[t][l] = 0
      BY <1>t, <2>2 DEF HeldRevisions, Row
    <2> QED BY <1>2, <1>3, <2>3
  <1>4. ASSUME Free(t, l, g)', RememberCancellation(t), l = job[t].leg
        PROVE  Holds(t, l, g) /\ ~Holds(t, l, g)'
    <2>1. /\ job[t].step = "readback" /\ Unchanged(t) /\ Finish(t) /\ UNCHANGED db
      BY <1>4 DEF RememberCancellation, At
    <2>2. job[t].state = db[d].state
      BY <2>1 DEF Unchanged, Row
    <2>3. Generation(job[t].state, l) = g
      BY <1>4, <2>1, <2>2 DEF Free, Row
    <2>4. job'[t] = IdleJob
      BY <2>1 DEF Finish, TypeOK
    <2> QED
      BY <1>4, <2>1, <2>3, <2>4 DEF Holds, Trying, BeforeCall, IdleJob
  <1> QED BY <1>1, <1>2, <1>3, <1>4, CapMoves

\* The write-ahead licenses an attempt that nobody of the device has a licence for,
\* but perhaps the tab itself by a live cancellation; it was never called for.
LEMMA WriteAheadLicence ==
  ASSUME TypeOK, WriteAheadInv, HeldRevisions, OneLicence,
         NEW t \in Tabs, WriteAhead(t)
  PROVE  LET l == job[t].leg
             g == Attempting(t)
         IN /\ calls[DeviceOf[t]][<<l, g>>] = 0
            /\ \A u \in Tabs \ {t} : DeviceOf[u] = DeviceOf[t] => ~Licensed(u, l, g)
  <1> DEFINE l == job[t].leg
             g == Attempting(t)
             s == job[t].state
  <1>t. /\ l \in Legs /\ s \in Reconciliation /\ DeviceOf[t] \in Devices
        /\ g \in Generations /\ Row(t).state \in Reconciliation
    BY TabTypes, PartTypes DEF Attempting
  <1>c. calls[DeviceOf[t]][<<l, g>>] \in Nat
    BY <1>t DEF TypeOK
  <1>1. CASE job[t].cancelled
    <2>1. Unchanged(t) /\ LiveCancellation(t, l, Row(t))
      BY <1>1 DEF WriteAhead, CanResubmit
    <2>2. Free(t, l, g)
      BY <2>1 DEF Unchanged, Free, Attempting
    <2> QED BY <1>t, <2>2 DEF OneLicence, Licensed
  <1>2. CASE ~job[t].cancelled
    <2>1. /\ Status(s, l) = "prepared"
          /\ Row(t).revision = job[t].revision
      BY <1>2 DEF WriteAhead, CanSave
    <2>2. Row(t).state = s
      BY <2>1 DEF HeldRevisions
    <2>3. ~MarkedSent(Row(t).state, l, g)
      <3>1. Generation(s, l) = g /\ g \in {0, 1}
        BY <1>t DEF Attempting, Generations
      <3> QED BY <2>1, <2>2, <3>1 DEF MarkedSent
    <2>4. ~(calls[DeviceOf[t]][<<l, g>>] > 0)
      BY <1>t, <2>3 DEF WriteAheadInv, SentIsMarked, Row
    <2>5. ASSUME NEW u \in Tabs, DeviceOf[u] = DeviceOf[t]
          PROVE  ~Licensed(u, l, g)
      BY <1>t, <2>3, <2>5 DEF OneLicence, Row
    <2> QED BY <1>c, <2>4, <2>5
  <1> QED BY <1>1, <1>2

\* The write-ahead keeps the attempt, moves the row on and calls nobody.
LEMMA WriteAheadKeeps ==
  ASSUME TypeOK, NEW t \in Tabs, WriteAhead(t)
  PROVE  /\ job'[t].leg = job[t].leg /\ job'[t].step = "submitted_ack"
         /\ Generation(job'[t].state, job[t].leg) = Attempting(t)
         /\ db'[DeviceOf[t]].revision = db[DeviceOf[t]].revision + 1
         /\ UNCHANGED calls
         /\ \A k \in Legs : caps'[t][k] = caps[t][k] \/ caps'[t][k] = 0
  <1> DEFINE l == job[t].leg
             s == job[t].state
  <1>t. l \in Legs /\ s \in Reconciliation /\ Now(t) \in Nat /\ job[t] \in Job
        /\ DeviceOf[t] \in Devices
    BY TabTypes
  <1>1. PICK cancelled \in BOOLEAN, at \in Nat :
          LET from == IF cancelled THEN Reopened(s, l, "prepared") ELSE s
              next == RecordLegStatus(from, l, "submitted", at)
          IN Save(t, next)
    <2>1. \A at \in Nat : ObservedAt(s, at) \in Nat
      BY <1>t, ObservedAtFacts
    <2> QED BY <1>t, <2>1 DEF WriteAhead, Job
  <1> DEFINE from == IF cancelled THEN Reopened(s, l, "prepared") ELSE s
             next == RecordLegStatus(from, l, "submitted", at)
  <1>2. "prepared" \in Statuses /\ "submitted" \in Statuses
    BY DEF Statuses, EvidenceStatuses, PossibleSend
  <1>3. from \in Reconciliation /\ Generation(from, l) = Generation(s, l)
    BY <1>t, <1>2, ReopenedFacts
  <1>4. Save(t, next)
    BY <1>1
  <1> HIDE DEF from
  <1>5. next \in Reconciliation /\ Generation(next, l) = Generation(s, l)
    BY <1>t, <1>2, <1>3, RecordLegStatusFacts
  <1> HIDE DEF next
  <1>6. /\ db'[DeviceOf[t]].state = next
        /\ db'[DeviceOf[t]].revision = db[DeviceOf[t]].revision + 1
    BY <1>t, <1>4, <1>5, WrittenType DEF Save, TypeOK, Row
  <1>7. job'[t].leg = l /\ job'[t].state = db'[DeviceOf[t]].state
    BY WriteAheadMarks
  <1>8. UNCHANGED calls /\ \A k \in Legs : caps'[t][k] = caps[t][k] \/ caps'[t][k] = 0
    BY <1>t DEF WriteAhead, Forget, TypeOK
  <1>9. PICK r : job' = [job EXCEPT ![t] =
                     [Holding(t, r, "submitted_ack") EXCEPT !.cancelled = FALSE]]
    BY DEF WriteAhead
  <1>10. job'[t].step = "submitted_ack"
    <2>1. job'[t] = [Holding(t, r, "submitted_ack") EXCEPT !.cancelled = FALSE]
      BY <1>9 DEF TypeOK
    <2> QED BY <1>t, <2>1 DEF Holding, Job
  <1> QED BY <1>5, <1>6, <1>7, <1>8, <1>10 DEF Attempting

\* One tab writes ahead in a step.
LEMMA OneWriter ==
  ASSUME TypeOK, NEW t \in Tabs, WriteAhead(t), NEW u \in Tabs \ {t}
  PROVE  ~WriteAhead(u)
  <1> SUFFICES ASSUME WriteAhead(u) PROVE FALSE
    OBVIOUS
  <1>1. job'[t] = job[t]
    <2>1. \E j : job' = [job EXCEPT ![u] = j]
      BY DEF WriteAhead
    <2> QED BY <2>1 DEF TypeOK
  <1>2. job[t].step = "observed" /\ job[t].state \in Reconciliation
    BY TabTypes DEF WriteAhead, At
  <1>3. job'[t].step = "submitted_ack"
    BY WriteAheadKeeps
  <1> QED BY <1>1, <1>2, <1>3

\* A count moves when a tab of the device calls for the attempt it holds.
LEMMA CallMoves ==
  ASSUME TypeOK, [Next]_vars,
         NEW d \in Devices, NEW l \in Legs, NEW g \in Generations,
         calls'[d][<<l, g>>] # calls[d][<<l, g>>]
  PROVE  \E c \in Tabs :
           /\ CallProvider(c) /\ job[c].step = "send"
           /\ d = DeviceOf[c] /\ l = job[c].leg /\ g = Attempting(c)
           /\ calls'[d][<<l, g>>] = calls[d][<<l, g>>] + 1
  <1>1. PICK c \in Tabs : CallProvider(c)
    BY OnlyCallsReachProvider
    DEF Next, ProviderStep, vars, Abort, Crash, Import, ProviderReceives,
        RequestLost, ProviderMoves, Tick
  <1>2. /\ calls' = [calls EXCEPT ![DeviceOf[c]][<<job[c].leg, Attempting(c)>>] = @ + 1]
        /\ job[c].step = "send"
    BY <1>1 DEF CallProvider, At, Attempting
  <1>3. calls \in [Devices -> [Legs \X Generations -> Nat]]
    BY DEF TypeOK
  <1> QED BY <1>1, <1>2, <1>3

\* Every step keeps the licences single.
LEMMA OneLicenceStep ==
  ASSUME Sound, Sound', WriteAheadInv, WriteAheadInv', OneCallInv, [Next]_vars
  PROVE  OneLicence' /\ AtMostOneCall'
  <1>t. TypeOK /\ TypeOK' /\ HeldRevisions /\ OneLicence /\ AtMostOneCall
    BY DEF Sound, OneCallInv
  \* The call uses the licence up.
  <1>1. ASSUME NEW c \in Tabs, CallProvider(c)
        PROVE  LET l == job[c].leg
                   g == Attempting(c)
               IN /\ Holds(c, l, g)
                  /\ job'[c].step = "calling"
                  /\ calls' = [calls EXCEPT ![DeviceOf[c]][<<l, g>>] = @ + 1]
                  /\ UNCHANGED <<db, caps>>
                  /\ \A u \in Tabs \ {c} : job'[u] = job[u]
    <2>1. /\ job[c].step = "send" /\ Goto(c, "calling")
          /\ calls' = [calls EXCEPT ![DeviceOf[c]][<<job[c].leg, Attempting(c)>>] = @ + 1]
          /\ UNCHANGED <<db, caps>>
      BY <1>1 DEF CallProvider, At, Attempting
    <2>2. job'[c].step = "calling" /\ \A u \in Tabs \ {c} : job'[u] = job[u]
      BY <1>t, <2>1, TabTypes DEF Goto, TypeOK, Job
    <2> QED BY <2>1, <2>2 DEF Holds, Trying, BeforeCall, Attempting
  <1>3. AtMostOneCall'
    <2> SUFFICES ASSUME NEW d \in Devices, NEW l \in Legs, NEW g \in Generations
                 PROVE  calls'[d][<<l, g>>] <= 1
      BY DEF AtMostOneCall
    <2>1. CASE calls'[d][<<l, g>>] = calls[d][<<l, g>>]
      BY <1>t, <2>1 DEF AtMostOneCall
    <2>2. CASE calls'[d][<<l, g>>] # calls[d][<<l, g>>]
      <3>1. PICK c \in Tabs :
              /\ CallProvider(c) /\ d = DeviceOf[c]
              /\ l = job[c].leg /\ g = Attempting(c)
              /\ calls'[d][<<l, g>>] = calls[d][<<l, g>>] + 1
        BY <1>t, <2>2, CallMoves
      <3>2. Licensed(c, l, g)
        BY <1>1, <3>1 DEF Licensed
      <3>3. calls[d][<<l, g>>] = 0
        BY <1>t, <3>1, <3>2 DEF OneLicence
      <3> QED BY <3>1, <3>3
    <2> QED BY <2>1, <2>2
  <1>4. ASSUME NEW t \in Tabs, NEW l \in Legs, NEW g \in Generations,
               Licensed(t, l, g)'
        PROVE  /\ MarkedSent(db'[DeviceOf[t]].state, l, g)
               /\ calls'[DeviceOf[t]][<<l, g>>] = 0
               /\ ~(Holds(t, l, g)' /\ Free(t, l, g)')
               /\ \A u \in Tabs \ {t} : DeviceOf[u] = DeviceOf[t] => ~Licensed(u, l, g)'
    <2> DEFINE Writes(u) == TabStep(u) /\ WriteAhead(u)
               d == DeviceOf[t]
    <2>d. d \in Devices /\ l \in Legs /\ g \in Generations
      BY <1>t, TabTypes
    \* A write-ahead leaves the tab one licence, for what it holds.
    <2>w. ASSUME NEW u \in Tabs, Writes(u)
          PROVE  /\ \A k \in Legs, h \in Generations :
                      /\ Holds(u, k, h)' => k = job[u].leg /\ h = Attempting(u)
                      /\ ~Free(u, k, h)'
                 /\ db'[DeviceOf[u]].revision = db[DeviceOf[u]].revision + 1
                 /\ UNCHANGED calls
      <3>1. /\ job'[u].leg = job[u].leg
            /\ Generation(job'[u].state, job[u].leg) = Attempting(u)
            /\ db'[DeviceOf[u]].revision = db[DeviceOf[u]].revision + 1
            /\ UNCHANGED calls
            /\ \A k \in Legs : caps'[u][k] = caps[u][k] \/ caps'[u][k] = 0
        BY <1>t, <2>w, WriteAheadKeeps
      <3>2. \A k \in Legs : /\ caps[u][k] <= db[DeviceOf[u]].revision
                            /\ caps[u][k] \in Nat /\ db[DeviceOf[u]].revision \in Nat
        BY <1>t, TabTypes DEF HeldRevisions, Row
      <3>3. \A k \in Legs : caps'[u][k] # db'[DeviceOf[u]].revision
        BY <3>1, <3>2
      <3> QED BY <3>1, <3>3 DEF Holds, Free, LiveCancellation, Row
    <2>1. CASE Writes(t)
      <3>1. Holds(t, l, g)' /\ ~Free(t, l, g)' /\ l = job[t].leg /\ g = Attempting(t)
        BY <1>4, <2>1, <2>w DEF Licensed
      <3>2. /\ calls[d][<<l, g>>] = 0 /\ UNCHANGED calls
            /\ \A u \in Tabs \ {t} : DeviceOf[u] = d => ~Licensed(u, l, g)
        BY <1>t, <2>1, <2>w, <3>1, WriteAheadLicence
      <3>3. ASSUME NEW u \in Tabs \ {t}
            PROVE  ~Writes(u)
        BY <1>t, <2>1, <3>3, OneWriter
      <3>4. \A u \in Tabs \ {t} : DeviceOf[u] = d => ~Licensed(u, l, g)'
        BY <1>t, <3>2, <3>3, LicenceMoves DEF Licensed
      <3>5. MarkedSent(db'[d].state, l, g)
        <4>1. /\ job'[t].state = db'[d].state
              /\ Status(job'[t].state, l) = "submitted"
              /\ Generation(job'[t].state, l) = g
          BY <1>t, <2>1, <3>1, WriteAheadMarks, WriteAheadKeeps
        <4> QED BY <4>1 DEF MarkedSent
      <3> QED BY <3>1, <3>2, <3>4, <3>5
    <2>2. CASE ~Writes(t)
      <3>1. Licensed(t, l, g)
        BY <1>4, <1>t, <2>2, LicenceMoves DEF Licensed
      <3>2. /\ MarkedSent(db[d].state, l, g)
            /\ calls[d][<<l, g>>] = 0
            /\ ~(Holds(t, l, g) /\ Free(t, l, g))
            /\ \A u \in Tabs \ {t} : DeviceOf[u] = d => ~Licensed(u, l, g)
        BY <1>t, <3>1 DEF OneLicence, Row
      <3>3. MarkedSent(db'[d].state, l, g)
        BY <2>d, <3>2, RowKeepsMark DEF WriteAheadInv
      <3>4. ~(Holds(t, l, g)' /\ Free(t, l, g)')
        BY <1>t, <2>2, <3>2, LicenceMoves
      <3>5. calls'[d][<<l, g>>] = 0
        <4> SUFFICES ASSUME calls'[d][<<l, g>>] # calls[d][<<l, g>>]
                     PROVE  FALSE
          BY <3>2
        <4>1. PICK c \in Tabs :
                CallProvider(c) /\ d = DeviceOf[c] /\ l = job[c].leg /\ g = Attempting(c)
          BY <1>t, <2>d, CallMoves
        <4>2. Holds(c, l, g) /\ job'[c].step = "calling" /\ UNCHANGED <<db, caps>>
          BY <1>1, <4>1
        <4>3. c = t
          BY <3>2, <4>1, <4>2 DEF Licensed
        <4>4. ~Holds(t, l, g)'
          BY <4>2, <4>3 DEF Holds, Trying, BeforeCall
        <4>5. ~Free(t, l, g)'
          BY <3>2, <4>2, <4>3 DEF Free, LiveCancellation, Row
        <4> QED BY <1>4, <4>4, <4>5 DEF Licensed
      <3>6. ASSUME NEW u \in Tabs \ {t}, DeviceOf[u] = d, Licensed(u, l, g)'
            PROVE  FALSE
        <4>1. CASE ~Writes(u)
          <5>1. Licensed(u, l, g)
            BY <1>t, <3>6, <4>1, LicenceMoves DEF Licensed
          <5> QED BY <3>2, <3>6, <5>1
        <4>2. CASE Writes(u)
          <5>1. l = job[u].leg /\ g = Attempting(u)
            BY <2>w, <3>6, <4>2 DEF Licensed
          <5>2. ~Licensed(t, l, g)
            BY <1>t, <3>6, <4>2, <5>1, WriteAheadLicence
          <5> QED BY <3>1, <5>2
        <4> QED BY <4>1, <4>2
      <3> QED BY <3>3, <3>4, <3>5, <3>6
    <2> QED BY <2>1, <2>2
  <1>5. OneLicence'
    BY <1>4 DEF OneLicence, Row
  <1> QED BY <1>3, <1>5

\* Every step keeps it.
LEMMA OneCallStep ==
  ASSUME Sound, Sound', WriteAheadInv, WriteAheadInv', OneCallInv, [Next]_vars
  PROVE  OneCallInv'
  <1>1. HeldRevisions'
    BY HeldRevisionsStep DEF Sound, WriteAheadInv, OneCallInv
  <1> QED BY <1>1, OneLicenceStep DEF OneCallInv

\* A device never calls the provider twice for one attempt, over all its tabs,
\* crashes, cancellations, renewals and retries: two calls of one transfer id
\* would leave it to the provider alone to notice (CheckoutSparkOutgoingProvider's
\* submit behind the settled outgoing step's marker and pre-provider retry).
THEOREM CalledOnce == Spec => []AtMostOneCall
  <1>1. Init => OneCallInv
    <2> SUFFICES ASSUME Init PROVE OneCallInv
      OBVIOUS
    <2>1. HeldRevisions
      BY DeviceAssumption DEF Init, HeldRevisions, Row, IdleJob
    <2>2. ASSUME NEW t \in Tabs, NEW l \in Legs, NEW g \in Generations, Licensed(t, l, g)
          PROVE  FALSE
      <3>1. job[t].step = "idle"
        BY DEF Init, IdleJob
      <3>2. Free(t, l, g)
        BY <2>2, <3>1 DEF Licensed, Holds, Trying, BeforeCall
      <3>3. Row(t).state = CreateReconciliation(0)
        BY DeviceAssumption DEF Init, Row
      <3>4. ~MarkedSent(CreateReconciliation(0), l, g)
        BY EmptyMarksNothing
      <3>5. /\ Status(CreateReconciliation(0), l) = "terminal_failure"
            /\ Generation(CreateReconciliation(0), l) = g
        BY <3>2, <3>3 DEF Free, LiveCancellation
      <3> QED BY <3>4, <3>5 DEF MarkedSent
    <2>3. AtMostOneCall
      BY DEF Init, AtMostOneCall
    <2> QED BY <2>1, <2>2, <2>3 DEF OneCallInv, OneLicence
  <1>2. Sound /\ Sound' /\ WriteAheadInv /\ WriteAheadInv' /\ OneCallInv
          /\ [Next]_vars => OneCallInv'
    BY OneCallStep
  <1>3. OneCallInv => AtMostOneCall
    BY DEF OneCallInv
  <1> QED BY SoundInvariant, MarkersInvariant, <1>1, <1>2, <1>3, PTL DEF Spec

-----------------------------------------------------------------------------
(* The shopper's markers reach a relay before its money can move.          *)

\* The shopper froze every attempt the record is currently about.
OwnIssue(s) == \A l \in Legs : Current(s, l).issuer \in {NoDevice, Shopper}

\* A relay tells a merchant to ask the provider for the shopper's attempt.
HandedOff(l, stored) ==
  \E snapshot \in stored :
    /\ Current(snapshot.state, l).issuer = Shopper
    /\ MarkedSent(snapshot.state, l, 0)

\* The inductive invariant: the shopper imports nothing, so what it holds it has
\* issued itself; it always publishes; and between the write-ahead and the call it
\* holds the record it marked, published once the acknowledgement came.
OwnRecords ==
  /\ OwnIssue(db[Shopper].state)
  /\ \A t \in Tabs : IsShopper(t) => OwnIssue(job[t].state)
ShopperTells ==
  \A t \in Tabs : IsShopper(t) /\ job[t].step # "idle" => job[t].publishes = TRUE
MarkersHeld ==
  \A t \in Tabs : job[t].step \in BeforeCall =>
    Status(job[t].state, job[t].leg) = "submitted"
HandedAhead ==
  \A t \in Tabs : IsShopper(t) /\ job[t].step \in {"recheck", "send"} =>
    HandedOff(job[t].leg, relays)
HandoffInv ==
  OwnRecords /\ ShopperTells /\ MarkersHeld /\ HandedAhead /\ HandedOffBeforeCall

\* The operators on a record keep the shopper's attempts its own.
LEMMA OwnSameLegs ==
  ASSUME NEW s, NEW next, next.legs = s.legs, OwnIssue(s)
  PROVE  OwnIssue(next)
  BY DEF OwnIssue, Current, Generation

LEMMA OwnRecorded ==
  ASSUME NEW s \in Reconciliation, NEW l \in Legs, NEW status \in Statuses,
         NEW at \in Nat, OwnIssue(s)
  PROVE  OwnIssue(RecordLegStatus(s, l, status, at))
  <1> DEFINE next == RecordLegStatus(s, l, status, at)
  <1>1. CASE Status(s, l) = status
    BY <1>1 DEF RecordLegStatus
  <1>2. CASE Status(s, l) # status
    <2>1. /\ Current(next, l).issuer = Current(s, l).issuer
          /\ \A m \in Legs \ {l} : next.legs[m] = s.legs[m]
      BY <1>2, RecordLegStatusChange
    <2> HIDE DEF next
    <2>2. \A m \in Legs \ {l} : Current(next, m) = Current(s, m)
      BY <2>1 DEF Current, Generation
    <2>3. OwnIssue(next)
      BY <2>1, <2>2 DEF OwnIssue
    <2> QED BY <2>3 DEF next
  <1> QED BY <1>1, <1>2

LEMMA OwnReopened ==
  ASSUME NEW s \in Reconciliation, NEW l \in Legs, NEW status \in Statuses, OwnIssue(s)
  PROVE  OwnIssue(Reopened(s, l, status))
  <1> DEFINE next == Reopened(s, l, status)
  <1>1. /\ Current(next, l) = [Current(s, l) EXCEPT !.status = status]
        /\ \A m \in Legs \ {l} : next.legs[m] = s.legs[m]
    BY ReopenedFacts
  <1> HIDE DEF next
  <1>2. Current(next, l).issuer = Current(s, l).issuer
    BY <1>1, PartTypes DEF Attempt
  <1>3. \A m \in Legs \ {l} : Current(next, m) = Current(s, m)
    BY <1>1 DEF Current, Generation
  <1>4. OwnIssue(next)
    BY <1>2, <1>3 DEF OwnIssue
  <1> QED BY <1>4 DEF next

LEMMA OwnPrepared ==
  ASSUME NEW s \in Reconciliation, NEW l \in Legs, NEW at \in Nat, OwnIssue(s)
  PROVE  /\ OwnIssue(PrepareLeg(s, l, Shopper, at))
         /\ OwnIssue(RenewLeg(s, l, Shopper, at))
  <1>s. Shopper \in Devices /\ FreshAttempt(Shopper, at).issuer = Shopper
    BY DeviceAssumption DEF FreshAttempt
  <1>1. OwnIssue(PrepareLeg(s, l, Shopper, at))
    <2> DEFINE next == SetCurrent(s, l, FreshAttempt(Shopper, at), at)
    <2>1. /\ Current(next, l) = FreshAttempt(Shopper, at)
          /\ \A m \in Legs \ {l} : next.legs[m] = s.legs[m]
      BY <1>s, FreshAttemptType, SetCurrentFacts
    <2> HIDE DEF next
    <2>2. \A m \in Legs \ {l} : Current(next, m) = Current(s, m)
      BY <2>1 DEF Current, Generation
    <2>3. OwnIssue(next)
      BY <1>s, <2>1, <2>2 DEF OwnIssue
    <2> QED BY <2>3 DEF next, PrepareLeg
  <1>2. OwnIssue(RenewLeg(s, l, Shopper, at))
    <2> DEFINE next == RenewLeg(s, l, Shopper, at)
    <2>1. /\ next.legs[l].generation = 1
          /\ next.legs[l].attempts[1] = FreshAttempt(Shopper, at)
          /\ \A m \in Legs \ {l} : next.legs[m] = s.legs[m]
      BY <1>s, RenewLegFacts
    <2> HIDE DEF next
    <2>2. /\ Current(next, l) = FreshAttempt(Shopper, at)
          /\ \A m \in Legs \ {l} : Current(next, m) = Current(s, m)
      BY <2>1 DEF Current, Generation
    <2>3. OwnIssue(next)
      BY <1>s, <2>2 DEF OwnIssue
    <2> QED BY <2>3 DEF next
  <1> QED BY <1>1, <1>2

\* A tab of the shopper saves what it issued itself.
LEMMA OwnRowStep ==
  ASSUME TypeOK, ObservedSeen, OwnRecords, NEW t \in Tabs, TabStep(t)
  PROVE  OwnIssue(db'[Shopper].state)
  <1> DEFINE s == job[t].state
             l == job[t].leg
             row == Row(t).state
             Goal == OwnIssue(db'[Shopper].state)
  <1> SUFFICES Goal
    OBVIOUS
  <1>t. /\ row \in Reconciliation /\ l \in Legs /\ s \in Reconciliation
        /\ job[t] \in Job /\ Now(t) \in Nat /\ Shopper \in Devices
        /\ DeviceOf[t] \in Devices
        /\ \A r \in Reconciliation : ObservedAt(r, Now(t)) \in Nat
    BY TabTypes, ObservedAtFacts, DeviceAssumption
  <1>s. "prepared" \in Statuses /\ "submitted" \in Statuses
        /\ "paid" \in Statuses /\ "terminal_failure" \in Statuses
    BY DEF Statuses, EvidenceStatuses, PossibleSend
  <1>u. UNCHANGED db => Goal
    BY DEF OwnRecords
  <1>o. ~IsShopper(t) => \A r : db' = [db EXCEPT ![DeviceOf[t]] = r] => Goal
    BY DEF OwnRecords, IsShopper, TypeOK
  <1>r. IsShopper(t) => OwnIssue(row) /\ OwnIssue(s) /\ DeviceOf[t] = Shopper
    BY DEF OwnRecords, IsShopper, Row
  <1>w. ASSUME NEW r, db' = [db EXCEPT ![DeviceOf[t]] = r],
               IsShopper(t) => OwnIssue(r.state)
        PROVE  Goal
    BY <1>o, <1>t, <1>w DEF IsShopper, TypeOK
  <1> HIDE DEF Goal
  <1>v. ASSUME NEW r, Save(t, r), IsShopper(t) => OwnIssue(r)
        PROVE  Goal
    <2>1. Written(t, r).state = r
      BY DEF Written
    <2> QED BY <1>v, <1>w, <2>1 DEF Save
  <1>p. ASSUME NEW status \in Statuses, Save(t, Recorded(t, status)) PROVE Goal
    <2>1. IsShopper(t) => OwnIssue(Recorded(t, status))
      BY <1>r, <1>t, OwnRecorded DEF Recorded
    <2> QED BY <1>p, <1>v, <2>1
  <1> HIDE DEF s, row, l
  <1>1. CASE ObserveCredit(t)
    <2>1. RecordCredit(row, Now(t)).legs = row.legs
      BY <1>t, RecordCreditFacts
    <2>2. IsShopper(t) => OwnIssue(RecordCredit(row, Now(t)))
      BY <1>r, <2>1, OwnSameLegs
    <2> QED BY <1>1, <1>v, <2>2 DEF ObserveCredit, row
  <1>2. CASE AttestPaid(t)
    <2>1. PICK m \in Legs :
            Save(t, RecordLegStatus(row, m, "paid", ObservedAt(row, Now(t))))
      BY <1>2 DEF AttestPaid, row
    <2>2. IsShopper(t) =>
            OwnIssue(RecordLegStatus(row, m, "paid", ObservedAt(row, Now(t))))
      BY <1>r, <1>s, <1>t, OwnRecorded
    <2> QED BY <1>v, <2>1, <2>2
  <1>3. CASE Prepare(t)
    <2>1. Save(t, IF Frozen(row, l) THEN RenewLeg(row, l, DeviceOf[t], Now(t))
                                    ELSE PrepareLeg(row, l, DeviceOf[t], Now(t)))
      BY <1>3 DEF Prepare, row, l
    <2>2. IsShopper(t) => /\ OwnIssue(RenewLeg(row, l, DeviceOf[t], Now(t)))
                          /\ OwnIssue(PrepareLeg(row, l, DeviceOf[t], Now(t)))
      BY <1>r, <1>t, OwnPrepared
    <2> QED BY <1>v, <2>1, <2>2
  <1>4. CASE RetainExisting(t)
    <2> DEFINE late == [row EXCEPT !.updatedAt = Later(Now(t), TakeoverAt)]
               kept == IF row.updatedAt < TakeoverAt THEN Written(t, late) ELSE Row(t)
    <2>1. db' = [db EXCEPT ![DeviceOf[t]] = kept]
      BY <1>4 DEF RetainExisting, row
    <2>2. late.legs = row.legs
      BY <1>t DEF Reconciliation
    <2> HIDE DEF late
    <2>3. IsShopper(t) => OwnIssue(late)
      BY <1>r, <2>2, OwnSameLegs
    <2>4. IsShopper(t) => OwnIssue(kept.state)
      BY <1>r, <2>3 DEF Written, row
    <2> HIDE DEF kept
    <2> QED BY <1>w, <2>1, <2>4
  <1>5. CASE RecordObserved(t)
    <2>1. RecordedAs(job[t].seen) \in Statuses
      <3>1. job[t].seen \in Readings \ {"not_found"}
        BY <1>5 DEF RecordObserved, At, ObservedSeen
      <3> QED BY <3>1 DEF RecordedAs, Readings, Statuses, EvidenceStatuses, PossibleSend
    <2> QED BY <1>5, <1>p, <2>1 DEF RecordObserved
  <1>6. CASE WriteAhead(t)
    <2>1. PICK cancelled \in BOOLEAN :
            Save(t, RecordLegStatus(IF cancelled THEN Reopened(s, l, "prepared") ELSE s,
                                    l, "submitted", ObservedAt(s, Now(t))))
      BY <1>6, <1>t DEF WriteAhead, Job, s, l
    <2> DEFINE from == IF cancelled THEN Reopened(s, l, "prepared") ELSE s
    <2>2. from \in Reconciliation /\ (IsShopper(t) => OwnIssue(from))
      BY <1>r, <1>s, <1>t, OwnReopened, ReopenedFacts
    <2> HIDE DEF from
    <2>3. IsShopper(t) =>
            OwnIssue(RecordLegStatus(from, l, "submitted", ObservedAt(s, Now(t))))
      BY <1>s, <1>t, <2>2, OwnRecorded
    <2> QED BY <1>v, <2>1, <2>3 DEF from
  <1>7. CASE Cancel(t) \/ RecordSent(t)
    <2>1. PICK status \in {"paid", "terminal_failure"} : Save(t, Recorded(t, status))
      BY <1>7 DEF Cancel, RecordSent
    <2> QED BY <1>p, <1>s, <2>1
  <1> QED
    BY <1>u, <1>1, <1>2, <1>3, <1>4, <1>5, <1>6, <1>7
    DEF TabStep, StartShopper, StartContinuation, StartPreparation,
        StartInspection, AttestAgrees, AttestAck, Select, SelectPreparation,
        PrepareExisting, PrepareAck, Begin, Handoff, Observe, HandoffSubmitted,
        RememberCancellation, Recheck, SendFindsHistory, SendRefused,
        CallProvider, SendReturns, SendAmbiguous, PaidAck

\* No step takes a snapshot back from the relays.
LEMMA RelaysGrow ==
  ASSUME TypeOK, [Next]_vars
  PROVE  relays \subseteq relays'
  <1>1. ASSUME NEW t \in Tabs, NEW s, Publish(t, s)
        PROVE  relays \subseteq relays'
    BY <1>1 DEF Publish
  <1>2. ASSUME NEW t \in Tabs, TabStep(t)
        PROVE  UNCHANGED relays \/ \E s : Publish(t, s)
    BY <1>2
    DEF TabStep, StartShopper, StartContinuation, StartPreparation,
        StartInspection, ObserveCredit, AttestAgrees, AttestPaid, AttestAck,
        Select, SelectPreparation, Prepare, PrepareExisting, RetainExisting,
        PrepareAck, Begin, Handoff, Observe, RecordObserved, WriteAhead,
        HandoffSubmitted, Cancel, RememberCancellation, Recheck,
        SendFindsHistory, SendRefused, CallProvider, SendReturns,
        SendAmbiguous, RecordSent, PaidAck
  <1> QED
    BY <1>1, <1>2
    DEF Next, ProviderStep, vars, Abort, Crash, Import, ProviderReceives,
        RequestLost, ProviderMoves, Tick

\* A tab of the shopper that goes on publishes what it saves.
LEMMA ShopperTellsStep ==
  ASSUME TypeOK, ShopperTells, NEW t \in Tabs, IsShopper(t), TabStep(t)
  PROVE  job'[t].step = "idle" \/ job'[t].publishes = TRUE
  <1> DEFINE Goal == job'[t].step = "idle" \/ job'[t].publishes = TRUE
  <1> SUFFICES Goal
    OBVIOUS
  <1>t. job[t] \in Job /\ t \in DOMAIN job /\ IdleJob \in Job /\ IdleJob.step = "idle"
    BY TabTypes, IdleJobType DEF TypeOK, IdleJob
  <1> HIDE DEF IdleJob
  <1>k. job[t].step # "idle" => job[t].publishes = TRUE
    BY DEF ShopperTells
  <1>f. Finish(t) => Goal
    BY <1>t DEF Finish
  <1>g. ASSUME NEW step, Goto(t, step), job[t].step # "idle" PROVE Goal
    <2>1. job'[t] = [job[t] EXCEPT !.step = step]
      BY <1>g, <1>t DEF Goto
    <2> QED BY <1>g, <1>k, <1>t, <2>1 DEF Job
  <1>h. ASSUME NEW r, NEW step, job' = [job EXCEPT ![t] = Holding(t, r, step)],
               job[t].step # "idle"
        PROVE  Goal
    <2>1. job'[t] = Holding(t, r, step)
      BY <1>h, <1>t
    <2> QED BY <1>h, <1>k, <1>t, <2>1 DEF Holding, Job
  <1>c. ASSUME NEW r, NEW step, NEW cancelled, job[t].step # "idle",
               job' = [job EXCEPT ![t] = [Holding(t, r, step) EXCEPT !.cancelled = cancelled]]
        PROVE  Goal
    <2>1. job'[t] = [Holding(t, r, step) EXCEPT !.cancelled = cancelled]
      BY <1>c, <1>t
    <2> QED BY <1>c, <1>k, <1>t, <2>1 DEF Holding, Job
  <1>s. ASSUME NEW step, NEW seen, job' = [job EXCEPT ![t].step = step, ![t].seen = seen],
               job[t].step # "idle"
        PROVE  Goal
    <2>1. job'[t] = [job[t] EXCEPT !.step = step, !.seen = seen]
      BY <1>s, <1>t
    <2> QED BY <1>k, <1>s, <1>t, <2>1 DEF Job
  <1>a. ASSUME NEW mode, NEW l, job' = [job EXCEPT ![t] = Attest(t, mode, l)]
        PROVE  Goal
    <2>1. job'[t] = Attest(t, mode, l)
      BY <1>a, <1>t
    <2> QED BY <1>t, <2>1 DEF Attest, Job
  <1>1. CASE StartShopper(t)
    BY <1>1, <1>a DEF StartShopper
  <1>2. ~StartContinuation(t) /\ ~StartPreparation(t) /\ ~StartInspection(t)
    BY DEF StartContinuation, StartPreparation, StartInspection, MayRecover
  <1>3. CASE ObserveCredit(t)
    BY <1>3, <1>k DEF ObserveCredit
  <1>4. CASE AttestAgrees(t)
    <2>1. PICK m : job'[t] = [job[t] EXCEPT !.todo = @ \ {m}]
      BY <1>t, <1>4 DEF AttestAgrees, Attested
    <2>2. job[t].step = "attest"
      BY <1>4 DEF AttestAgrees, Attesting, At
    <2> QED BY <1>k, <1>t, <2>1, <2>2 DEF Job
  <1>5. CASE AttestPaid(t)
    <2>1. PICK r, m : job'[t] = [Holding(t, r, "attest_ack") EXCEPT !.todo = @ \ {m}]
      BY <1>t, <1>5 DEF AttestPaid
    <2>2. job[t].step = "attest"
      BY <1>5 DEF AttestPaid, Attesting, At
    <2> QED BY <1>k, <1>t, <2>1, <2>2 DEF Holding, Job
  <1>6. CASE AttestAck(t) \/ Handoff(t) \/ HandoffSubmitted(t) \/ Recheck(t) \/ CallProvider(t)
    BY <1>6, <1>f, <1>g DEF AttestAck, Handoff, HandoffSubmitted, Recheck, CallProvider, At
  <1>7. CASE Select(t) \/ SelectPreparation(t) \/ Prepare(t) \/ PrepareExisting(t)
             \/ RetainExisting(t)
    BY <1>7, <1>h
    DEF Select, SelectPreparation, Prepare, PrepareExisting, RetainExisting, At
  <1>8. CASE PrepareAck(t) \/ RecordObserved(t) \/ RememberCancellation(t)
             \/ SendAmbiguous(t) \/ PaidAck(t)
    BY <1>8, <1>f DEF PrepareAck, RecordObserved, RememberCancellation, SendAmbiguous, PaidAck
  <1>9. CASE Begin(t)
    <2>1. CASE Finish(t)
      BY <1>f, <2>1
    <2>2. CASE ~Finish(t)
      <3>1. PICK step, cancelled :
              job' = [job EXCEPT ![t] =
                        [Holding(t, Row(t), step) EXCEPT !.cancelled = cancelled]]
        BY <1>9, <2>2 DEF Begin
      <3>2. job[t].step # "idle"
        BY <1>9 DEF Begin, At
      <3> QED BY <1>c, <3>1, <3>2
    <2> QED BY <2>1, <2>2
  <1>10. CASE Observe(t) \/ SendFindsHistory(t) \/ SendRefused(t) \/ SendReturns(t)
    BY <1>10, <1>s DEF Observe, SendFindsHistory, SendRefused, SendReturns, At
  <1>11. CASE WriteAhead(t)
    BY <1>11, <1>c DEF WriteAhead, At
  <1>12. CASE Cancel(t) \/ RecordSent(t)
    BY <1>12, <1>f, <1>h DEF Cancel, RecordSent, At
  <1> QED
    BY <1>1, <1>2, <1>3, <1>4, <1>5, <1>6, <1>7, <1>8, <1>9, <1>10, <1>11, <1>12
    DEF TabStep

\* Every step hands off before the shopper's money can move.
LEMMA HandoffStep ==
  ASSUME Sound, Sound', HandoffInv, [Next]_vars
  PROVE  HandoffInv'
  <1>t. /\ TypeOK /\ TypeOK' /\ ObservedSeen /\ OwnRecords /\ ShopperTells
        /\ MarkersHeld /\ HandedAhead /\ HandedOffBeforeCall
    BY DEF Sound, HandoffInv
  <1>i. OwnIssue(IdleJob.state) /\ IdleJob.step = "idle"
    BY DEF OwnIssue, IdleJob, Current, Generation, CreateReconciliation, NewLeg,
           NoAttempt, Generations
  <1>c. OwnIssue(CreateReconciliation(0))
    BY DEF OwnIssue, Current, Generation, CreateReconciliation, NewLeg, NoAttempt,
           Generations
  <1> HIDE DEF IdleJob
  <1>g. \A l \in Legs : HandedOff(l, relays) => HandedOff(l, relays')
    BY <1>t, RelaysGrow DEF HandedOff
  <1>1. OwnIssue(db'[Shopper].state)
    <2>1. CASE \E t \in Tabs : TabStep(t)
      BY <1>t, <2>1, OwnRowStep
    <2>2. CASE \A t \in Tabs : ~TabStep(t)
      <3>1. ASSUME NEW d \in Devices, NEW snapshot, Import(d, snapshot)
            PROVE  db'[Shopper] = db[Shopper]
        BY <1>t, <3>1, DeviceAssumption DEF Import, TypeOK
      <3>2. db'[Shopper] = db[Shopper]
        BY <2>2, <3>1
        DEF Next, ProviderStep, vars, Abort, Crash, ProviderReceives,
            RequestLost, ProviderMoves, Tick
      <3> QED BY <1>t, <3>2 DEF OwnRecords
    <2> QED BY <2>1, <2>2
  <1>2. ASSUME NEW t \in Tabs, IsShopper(t)
        PROVE  OwnIssue(job'[t].state)
    <2>1. CASE TabStep(t)
      BY <1>1, <1>2, <1>c, <1>t, <2>1, JobHolds DEF OwnRecords, IsShopper
    <2>2. CASE ~TabStep(t)
      BY <1>2, <1>i, <1>t, <2>2, OneJobMoves DEF OwnRecords
    <2> QED BY <2>1, <2>2
  <1>3. OwnRecords'
    BY <1>1, <1>2 DEF OwnRecords, IsShopper
  <1>4. ShopperTells'
    <2> SUFFICES ASSUME NEW t \in Tabs, IsShopper(t), job'[t].step # "idle"
                 PROVE  job'[t].publishes = TRUE
      BY DEF ShopperTells, IsShopper
    <2> QED BY <1>i, <1>t, OneJobMoves, ShopperTellsStep DEF ShopperTells
  <1>5. MarkersHeld'
    <2> SUFFICES ASSUME NEW t \in Tabs, job'[t].step \in BeforeCall
                 PROVE  Status(job'[t].state, job'[t].leg) = "submitted"
      BY DEF MarkersHeld
    <2>1. job'[t] # IdleJob
      BY <1>i DEF BeforeCall
    <2>2. CASE TabStep(t) /\ WriteAhead(t)
      BY <1>t, <2>2, WriteAheadMarks
    <2>3. CASE TabStep(t) /\ ~WriteAhead(t)
      <3>1. /\ job[t].step \in BeforeCall
            /\ job'[t].leg = job[t].leg /\ job'[t].state = job[t].state
        BY <1>t, <2>3, OnTheWay DEF Trying
      <3> QED BY <1>t, <3>1 DEF MarkersHeld
    <2>4. CASE job'[t] = job[t]
      BY <1>t, <2>4 DEF MarkersHeld
    <2> QED BY <1>t, <2>1, <2>2, <2>3, <2>4, OneJobMoves
  <1>6. HandedAhead'
    <2> SUFFICES ASSUME NEW t \in Tabs, IsShopper(t), job'[t].step \in {"recheck", "send"}
                 PROVE  HandedOff(job'[t].leg, relays')
      BY DEF HandedAhead, IsShopper
    <2>t. job[t].leg \in Legs /\ job[t].state \in Reconciliation /\ job[t] \in Job
      BY <1>t, TabTypes
    <2>1. job'[t] # IdleJob /\ job'[t].step \in Trying
      BY <1>i DEF Trying, BeforeCall
    <2>2. CASE job'[t] = job[t]
      BY <1>g, <1>t, <2>2, <2>t DEF HandedAhead
    <2>3. CASE TabStep(t)
      <3>1. ~WriteAhead(t)
        BY <1>t, WriteAheadKeeps
      <3>2. job'[t].leg = job[t].leg
        BY <1>t, <2>1, <2>3, <3>1, OnTheWay
      <3>3. CASE Recheck(t)
        <4>1. HandedOff(job[t].leg, relays)
          BY <1>t, <3>3 DEF HandedAhead, Recheck, At
        <4> QED BY <1>g, <2>t, <3>2, <4>1
      <3>4. ~Cancel(t)
        <4> SUFFICES ASSUME Cancel(t) PROVE FALSE
          OBVIOUS
        <4>1. PICK r : job'[t] = Holding(t, r, "readback")
          BY <1>t DEF Cancel, TypeOK
        <4>2. job'[t].step = "readback"
          BY <2>t, <4>1 DEF Holding, Job
        <4> QED BY <4>2
      <3>5. CASE HandoffSubmitted(t)
        <4>1. job[t].step = "submitted_ack" /\ job[t].publishes = TRUE
          BY <1>t, <3>5 DEF HandoffSubmitted, At, ShopperTells
        <4>2. ~Goto(t, "cancel")
          <5> SUFFICES ASSUME Goto(t, "cancel") PROVE FALSE
            OBVIOUS
          <5>1. job'[t] = [job[t] EXCEPT !.step = "cancel"]
            BY <1>t DEF Goto, TypeOK
          <5>2. job'[t].step = "cancel"
            BY <2>t, <5>1 DEF Job
          <5> QED BY <5>2
        <4>3. Publish(t, job[t].state)
          BY <3>5, <4>2 DEF HandoffSubmitted
        <4>4. [author |-> Author(t), state |-> job[t].state] \in relays'
          BY <4>1, <4>3 DEF Publish
        <4>5. Status(job[t].state, job[t].leg) = "submitted"
          BY <1>t, <4>1 DEF MarkersHeld, BeforeCall
        <4>6. Current(job[t].state, job[t].leg).issuer = Shopper
          <5>1. Restorable(job[t].state)
            BY DEF Sound, RecordsRestorable
          <5>2. Current(job[t].state, job[t].leg).issuer # NoDevice
            BY <2>t, <4>5, <5>1, FrozenIssuer DEF Restorable, Frozen
          <5> QED BY <1>t, <2>t, <5>2 DEF OwnRecords, OwnIssue
        <4>7. MarkedSent(job[t].state, job[t].leg, 0)
          <5>1. Generation(job[t].state, job[t].leg) \in {0, 1}
            BY <2>t, PartTypes DEF Generations
          <5> QED BY <4>5, <5>1 DEF MarkedSent
        <4> QED BY <3>2, <4>4, <4>6, <4>7 DEF HandedOff
      <3> QED BY <1>t, <2>1, <2>3, <3>1, <3>3, <3>4, <3>5, WayToTheProvider
    <2> QED BY <1>t, <2>1, <2>2, <2>3, OneJobMoves
  <1>7. HandedOffBeforeCall'
    <2> SUFFICES ASSUME NEW l \in Legs, calls'[Shopper][<<l, 0>>] > 0
                 PROVE  HandedOff(l, relays')
      BY DEF HandedOffBeforeCall, HandedOff
    <2>1. CASE calls'[Shopper][<<l, 0>>] = calls[Shopper][<<l, 0>>]
      <3>1. HandedOff(l, relays)
        BY <1>t, <2>1 DEF HandedOffBeforeCall, HandedOff
      <3> QED BY <1>g, <3>1
    <2>2. CASE calls'[Shopper][<<l, 0>>] # calls[Shopper][<<l, 0>>]
      <3>1. 0 \in Generations /\ Shopper \in Devices
        BY DeviceAssumption DEF Generations
      <3>2. PICK c \in Tabs :
              job[c].step = "send" /\ Shopper = DeviceOf[c] /\ l = job[c].leg
        BY <1>t, <2>2, <3>1, CallMoves
      <3>3. HandedOff(l, relays)
        BY <1>t, <3>2 DEF HandedAhead, IsShopper
      <3> QED BY <1>g, <3>3
    <2> QED BY <2>1, <2>2
  <1> QED BY <1>3, <1>4, <1>5, <1>6, <1>7 DEF HandoffInv

\* Before the shopper's money can move, some relay stores the shopper's record
\* with the marker of the attempt: through every lost acknowledgement, crash and
\* retry a merchant who takes over knows which transfer to ask for
\* (runCheckoutSparkSettledOutgoingStep, the handoff of the submitted state).
THEOREM HandedOffFirst == Spec => []HandedOffBeforeCall
  <1>1. Init => HandoffInv
    <2> SUFFICES ASSUME Init PROVE HandoffInv
      OBVIOUS
    <2>1. OwnIssue(CreateReconciliation(0))
      BY DEF OwnIssue, Current, Generation, CreateReconciliation, NewLeg, NoAttempt,
             Generations
    <2>2. OwnRecords
      BY <2>1, DeviceAssumption DEF Init, OwnRecords, IdleJob
    <2>3. ShopperTells /\ MarkersHeld /\ HandedAhead
      BY DEF Init, ShopperTells, MarkersHeld, HandedAhead, IdleJob, BeforeCall
    <2>4. HandedOffBeforeCall
      BY DeviceAssumption DEF Init, HandedOffBeforeCall, Generations
    <2> QED BY <2>2, <2>3, <2>4 DEF HandoffInv
  <1>2. Sound /\ Sound' /\ HandoffInv /\ [Next]_vars => HandoffInv'
    BY HandoffStep
  <1>3. HandoffInv => HandedOffBeforeCall
    BY DEF HandoffInv
  <1> QED BY SoundInvariant, <1>1, <1>2, <1>3, PTL DEF Spec

-----------------------------------------------------------------------------
(* The whole system implements Payouts.                                    *)

\* Where the money of leg l is, as the refinement mapping sees it.
MoneyStatus(h, l) == h[<<l, IF h[<<l, 1>>] # NoTransfer THEN 1 ELSE 0>>].status
EarlierSettled(h, l) == \A m \in 1 .. l - 1 : MoneyStatus(h, m) = "paid"

\* From the choice of a leg to the call, an invocation that may send holds the
\* first leg of the plan that is not settled; and so do the requests on the wire.
Chosen == {"begin", "handoff", "observe", "observed"} \cup BeforeCall
MaySend(j) ==
  j.step \in Chosen /\ (j.mode = "advance" \/ j.step \in BeforeCall)
OrderInv ==
  /\ \A t \in Tabs : MaySend(job[t]) => EarlierSettled(history, job[t].leg)
  /\ \A p \in wire : EarlierSettled(history, p.leg)

\* A leg that some record calls paid is settled.
LEMMA PaidLegSettled ==
  ASSUME TypeOK, RenewedAfterReturn, NEW s \in Reconciliation, NEW l \in Legs,
         Proven(history, s), Status(s, l) = "paid"
  PROVE  MoneyStatus(history, l) = "paid"
  <1>1. Generation(s, l) \in {0, 1}
    BY PartTypes DEF Generations
  <1>2. history[<<l, Generation(s, l)>>].status = "paid"
    <2>1. Settles(history, s, l)
      BY DEF Proven
    <2>2. history[<<l, Generation(s, l)>>]
            = [status |-> "paid", issuer |-> Current(s, l).issuer]
      BY <2>1 DEF Settles, TransferId
    <2> QED BY <2>2
  <1>3. CASE Generation(s, l) = 1
    <2>1. history[<<l, 1>>] # NoTransfer
      BY <1>2, <1>3 DEF NoTransfer
    <2> QED BY <1>2, <1>3, <2>1 DEF MoneyStatus
  <1>4. CASE Generation(s, l) = 0
    <2>1. ~IsReturned(l)
      BY <1>2, <1>4 DEF IsReturned
    <2>2. history[<<l, 1>>] = NoTransfer
      BY <2>1 DEF RenewedAfterReturn
    <2> QED BY <1>2, <1>4, <2>2 DEF MoneyStatus
  <1> QED BY <1>1, <1>3, <1>4

\* A settled leg stays settled.
LEMMA SettledForGood ==
  ASSUME TypeOK, RenewedAfterReturn, RenewedAfterReturn', [Next]_vars,
         NEW l \in Legs, MoneyStatus(history, l) = "paid"
  PROVE  MoneyStatus(history', l) = "paid"
  <1>t. <<l, 0>> \in TransferIds /\ <<l, 1>> \in TransferIds
    BY TransferIdFacts
  <1>1. CASE history[<<l, 1>>] # NoTransfer
    <2>1. history[<<l, 1>>].status = "paid"
      BY <1>1 DEF MoneyStatus
    <2>2. history'[<<l, 1>>] = history[<<l, 1>>]
      BY <1>t, <2>1, PaymentIsFinal
    <2> QED BY <1>1, <2>1, <2>2 DEF MoneyStatus
  <1>2. CASE history[<<l, 1>>] = NoTransfer
    <2>1. history[<<l, 0>>].status = "paid"
      BY <1>2 DEF MoneyStatus
    <2>2. history'[<<l, 0>>] = history[<<l, 0>>]
      BY <1>t, <2>1, PaymentIsFinal
    <2>3. history'[<<l, 1>>] = NoTransfer
      BY <2>1, <2>2 DEF RenewedAfterReturn, IsReturned
    <2> QED BY <2>1, <2>2, <2>3 DEF MoneyStatus
  <1> QED BY <1>1, <1>2

\* A tab comes to the leg it may send by choosing it, or keeps it.
LEMMA ChosenMoves ==
  ASSUME TypeOK, NEW t \in Tabs, TabStep(t), MaySend(job'[t])
  PROVE  /\ job'[t].leg = job[t].leg
         /\ Select(t) \/ MaySend(job[t])
  <1>t. job[t] \in Job /\ t \in DOMAIN job
    BY TabTypes DEF TypeOK
  <1>i. IdleJob \in Job /\ IdleJob.step = "idle"
    BY IdleJobType DEF IdleJob
  <1> HIDE DEF IdleJob
  <1> DEFINE Goal == job'[t].leg = job[t].leg /\ (Select(t) \/ MaySend(job[t]))
  <1> SUFFICES Goal
    OBVIOUS
  <1>c. Chosen = {"begin", "handoff", "observe", "observed", "submitted_ack",
                  "recheck", "send"}
    BY DEF Chosen, BeforeCall
  <1>b. BeforeCall \subseteq Chosen
    BY DEF Chosen
  <1>f. Finish(t) => FALSE
    BY <1>c, <1>i, <1>t DEF Finish, MaySend
  <1>g. ASSUME NEW step, Goto(t, step)
        PROVE  job'[t].step = step /\ job'[t].mode = job[t].mode
               /\ job'[t].leg = job[t].leg
    <2>1. job'[t] = [job[t] EXCEPT !.step = step]
      BY <1>g, <1>t DEF Goto
    <2> QED BY <1>t, <2>1 DEF Job
  <1>h. ASSUME NEW row, NEW step, job' = [job EXCEPT ![t] = Holding(t, row, step)]
        PROVE  step \in Chosen /\ job'[t].leg = job[t].leg
    <2>1. job'[t] = Holding(t, row, step)
      BY <1>h, <1>t
    <2> QED BY <1>t, <2>1 DEF Holding, Job, MaySend
  <1>a. ASSUME NEW mode, NEW l, job' = [job EXCEPT ![t] = Attest(t, mode, l)]
        PROVE  FALSE
    <2>1. job'[t] = Attest(t, mode, l)
      BY <1>a, <1>t
    <2>2. job'[t].step = "attest"
      BY <1>i, <2>1 DEF Attest, Job
    <2> QED BY <1>c, <2>2 DEF MaySend
  <1>e. ASSUME NEW step, NEW mode, NEW l, step \in {"retain", "begin"},
               job' = [job EXCEPT ![t] = Enter(step, mode, l)],
               mode # "advance"
        PROVE  FALSE
    <2>1. job'[t] = Enter(step, mode, l)
      BY <1>e, <1>t
    <2>2. job'[t].step = step /\ job'[t].mode = mode
      BY <1>i, <2>1 DEF Enter, Job
    <2> QED BY <1>e, <2>2 DEF MaySend, BeforeCall
  <1>s. ASSUME NEW step, NEW seen, job' = [job EXCEPT ![t].step = step, ![t].seen = seen]
        PROVE  job'[t].step = step /\ job'[t].mode = job[t].mode
               /\ job'[t].leg = job[t].leg
    <2>1. job'[t] = [job[t] EXCEPT !.step = step, !.seen = seen]
      BY <1>s, <1>t
    <2> QED BY <1>t, <2>1 DEF Job
  <1>1. ~StartShopper(t)
    BY <1>a DEF StartShopper
  <1>2. ~StartContinuation(t)
    <2> SUFFICES ASSUME StartContinuation(t) PROVE FALSE
      OBVIOUS
    <2>1. PICK signed \in relays, m \in Legs :
            job' = [job EXCEPT ![t] =
                      [Attest(t, "advance", m)
                         EXCEPT !.publishes = (signed.author = "merchant"),
                                !.closed = (Status(signed.state, m) = "terminal_failure")]]
      BY DEF StartContinuation
    <2> DEFINE attest == Attest(t, "advance", m)
    <2>2. attest \in Job /\ attest.step = "attest"
      BY AttestType DEF Modes
    <2> HIDE DEF attest
    <2>3. job'[t] = [attest EXCEPT
                       !.publishes = (signed.author = "merchant"),
                       !.closed = (Status(signed.state, m) = "terminal_failure")]
      BY <1>t, <2>1 DEF attest
    <2>4. job'[t].step = "attest"
      BY <2>2, <2>3 DEF Job
    <2> QED BY <1>c, <2>4 DEF MaySend
  <1>3. ~StartPreparation(t)
    <2> SUFFICES ASSUME StartPreparation(t) PROVE FALSE
      OBVIOUS
    <2>1. PICK m \in Legs, mode \in {"prepare", "renew"} :
            \/ job' = [job EXCEPT ![t] = Enter("retain", mode, m)]
            \/ job' = [job EXCEPT ![t] = Attest(t, mode, m)]
      BY DEF StartPreparation
    <2> QED BY <1>a, <1>e, <2>1
  <1>4. ~StartInspection(t)
    BY <1>e DEF StartInspection
  <1>5. CASE ObserveCredit(t)
    BY <1>5 DEF ObserveCredit
  <1>6. ~AttestAgrees(t)
    <2> SUFFICES ASSUME AttestAgrees(t) PROVE FALSE
      OBVIOUS
    <2>1. PICK m : job'[t] = [job[t] EXCEPT !.todo = @ \ {m}]
      BY <1>t DEF AttestAgrees, Attested
    <2>2. job'[t].step = job[t].step /\ job[t].step = "attest"
      BY <1>t, <2>1 DEF Job, AttestAgrees, Attesting, At
    <2> QED BY <1>c, <2>2 DEF MaySend
  <1>7. ~AttestPaid(t)
    <2> SUFFICES ASSUME AttestPaid(t) PROVE FALSE
      OBVIOUS
    <2>1. PICK row, m :
            job' = [job EXCEPT ![t] = [Holding(t, row, "attest_ack") EXCEPT !.todo = @ \ {m}]]
      BY DEF AttestPaid
    <2>2. job'[t] = [Holding(t, row, "attest_ack") EXCEPT !.todo = @ \ {m}]
      BY <1>t, <2>1
    <2>3. job'[t].step = "attest_ack"
      BY <1>t, <2>2 DEF Holding, Job
    <2> QED BY <1>c, <2>3 DEF MaySend
  <1>8. ~AttestAck(t) /\ ~CallProvider(t)
    BY <1>c, <1>f, <1>g DEF AttestAck, CallProvider, MaySend
  <1>9. ~SelectPreparation(t) /\ ~Prepare(t) /\ ~PrepareExisting(t) /\ ~RetainExisting(t)
    BY <1>c, <1>h DEF SelectPreparation, Prepare, PrepareExisting, RetainExisting
  <1>10. ~PrepareAck(t) /\ ~RecordObserved(t) /\ ~RememberCancellation(t)
         /\ ~SendAmbiguous(t) /\ ~PaidAck(t)
    BY <1>f DEF PrepareAck, RecordObserved, RememberCancellation, SendAmbiguous, PaidAck
  <1>11. CASE Begin(t)
    <2>1. PICK step \in {"observe", "handoff"}, cancelled \in BOOLEAN :
            job' = [job EXCEPT ![t] =
                      [Holding(t, Row(t), step) EXCEPT !.cancelled = cancelled]]
      BY <1>11, <1>f DEF Begin, LiveCancellation
    <2> DEFINE held == Holding(t, Row(t), step)
    <2>2. /\ held \in Job /\ held.step = step /\ held.mode = job[t].mode
          /\ held.leg = job[t].leg
      BY TabTypes, HoldingType DEF Steps
    <2> HIDE DEF held
    <2>3. job'[t] = [held EXCEPT !.cancelled = cancelled]
      BY <1>t, <2>1 DEF held
    <2>4. job'[t].step = step /\ job'[t].mode = job[t].mode /\ job'[t].leg = job[t].leg
      BY <2>2, <2>3 DEF Job
    <2>5. job[t].mode = "advance" /\ job[t].step = "begin"
      BY <1>11, <2>4 DEF MaySend, BeforeCall, Begin, At
    <2> QED BY <1>c, <2>4, <2>5 DEF MaySend
  <1>12. CASE Handoff(t)
    BY <1>12, <1>c, <1>f, <1>g DEF Handoff, At, MaySend, BeforeCall
  <1>13. CASE Observe(t)
    <2>1. PICK seen : job' = [job EXCEPT ![t].step = "observed", ![t].seen = seen]
      BY <1>13 DEF Observe
    <2>2. job'[t].step = "observed" /\ job'[t].mode = job[t].mode /\ job'[t].leg = job[t].leg
      BY <1>s, <2>1
    <2>3. job[t].mode = "advance" /\ job[t].step = "observe"
      BY <1>13, <2>2 DEF MaySend, BeforeCall, Observe, At
    <2> QED BY <1>c, <2>2, <2>3 DEF MaySend
  <1>14. ~SendFindsHistory(t) /\ ~SendRefused(t) /\ ~SendReturns(t)
    BY <1>c, <1>s DEF SendFindsHistory, SendRefused, SendReturns, MaySend
  <1>15. CASE WriteAhead(t)
    BY <1>15, <1>c, WriteAheadKeeps DEF WriteAhead, At, MaySend
  <1>16. CASE HandoffSubmitted(t) \/ Recheck(t)
    BY <1>16, <1>c, <1>g DEF HandoffSubmitted, Recheck, At, MaySend, BeforeCall
  <1>17. ~Cancel(t)
    BY <1>c, <1>h DEF Cancel
  <1>19. CASE Select(t)
    BY <1>19, <1>h DEF Select
  <1>18. ~RecordSent(t)
    BY <1>c, <1>f, <1>h DEF RecordSent
  <1> QED
    BY <1>1, <1>2, <1>3, <1>4, <1>5, <1>6, <1>7, <1>8, <1>9, <1>10, <1>11, <1>12,
       <1>13, <1>14, <1>15, <1>16, <1>17, <1>18, <1>19 DEF TabStep

\* Every step keeps the order of the plan.
LEMMA OrderStep ==
  ASSUME TypeOK, TypeOK', RenewedAfterReturn, RenewedAfterReturn', PaidInv,
         OrderInv, [Next]_vars
  PROVE  OrderInv'
  <1>1. ASSUME NEW l \in Legs, EarlierSettled(history, l)
        PROVE  EarlierSettled(history', l)
    <2>1. \A m \in 1 .. l - 1 : m \in Legs
      BY NumLegsAssumption DEF Legs
    <2> QED BY <1>1, <2>1, SettledForGood DEF EarlierSettled
  <1>2. ASSUME NEW t \in Tabs, MaySend(job'[t])
        PROVE  EarlierSettled(history', job'[t].leg)
    <2>t. job[t].leg \in Legs /\ Row(t).state \in Reconciliation /\ DeviceOf[t] \in Devices
      BY TabTypes
    <2>1. job'[t] # IdleJob
      BY <1>2 DEF IdleJob, MaySend, Chosen, BeforeCall
    <2>2. CASE job'[t] = job[t]
      BY <1>1, <1>2, <2>2, <2>t DEF OrderInv
    <2>3. CASE TabStep(t)
      <3>1. job'[t].leg = job[t].leg /\ (Select(t) \/ MaySend(job[t]))
        BY <1>2, <2>3, ChosenMoves
      <3>2. ASSUME Select(t)
            PROVE  EarlierSettled(history, job[t].leg)
        <4>1. NextUnpaid(Row(t).state, job[t].leg)
          BY <3>2 DEF Select
        <4>2. ASSUME NEW m \in 1 .. job[t].leg - 1
              PROVE  MoneyStatus(history, m) = "paid"
          <5>1. m \in Legs /\ ~(job[t].leg <= m)
            BY <2>t, NumLegsAssumption DEF Legs
          <5>2. Status(Row(t).state, m) = "paid"
            BY <4>1, <5>1 DEF NextUnpaid, Unpaid
          <5>3. Proven(history, Row(t).state)
            BY <2>t DEF PaidInv, Row
          <5> QED BY <2>t, <5>1, <5>2, <5>3, PaidLegSettled
        <4> QED BY <4>2 DEF EarlierSettled
      <3> QED BY <1>1, <2>t, <3>1, <3>2 DEF OrderInv
    <2> QED BY <2>1, <2>2, <2>3, OneJobMoves
  <1>3. ASSUME NEW p \in wire'
        PROVE  EarlierSettled(history', p.leg)
    <2>1. CASE p \in wire
      <3>1. p.leg \in Legs
        BY <2>1 DEF TypeOK, Payments
      <3> QED BY <1>1, <2>1, <3>1 DEF OrderInv
    <2>2. CASE p \notin wire
      <3>1. PICK t \in Tabs : CallProvider(t)
        BY <1>3, <2>2, OnlyCallsReachProvider
        DEF Next, ProviderStep, vars, Abort, Crash, Import, ProviderReceives,
            RequestLost, ProviderMoves, Tick
      <3>2. p.leg = job[t].leg /\ MaySend(job[t])
        BY <2>2, <3>1 DEF CallProvider, At, MaySend, Chosen, BeforeCall
      <3>3. job[t].leg \in Legs
        BY TabTypes
      <3> QED BY <1>1, <3>2, <3>3 DEF OrderInv
    <2> QED BY <2>1, <2>2
  <1> QED BY <1>2, <1>3 DEF OrderInv

\* Every step is a step of Payouts or none.
LEMMA PayoutStep ==
  ASSUME TypeOK, TypeOK', RenewedAfterReturn, RenewedAfterReturn', OrderInv,
         [Next]_vars
  PROVE  [Promise!Next]_(Promise!payoutVars)
  <1> DEFINE Goal == [Promise!Next]_(Promise!payoutVars)
             Others(l) == \A i \in TransferIds : i[1] # l => history'[i] = history[i]
  <1>t. /\ \A l \in Legs : <<l, 0>> \in TransferIds /\ <<l, 1>> \in TransferIds
        /\ \A l, m \in Legs, g \in {0, 1} : (m # l) => <<m, g>>[1] # l
    BY TransferIdFacts
  <1>p. \A l \in Legs : l \in Promise!Payees
    BY DEF Legs, Promise!Payees
  <1>u. UNCHANGED history => Goal
    BY DEF Promise!payoutVars, Retried
  \* What a step of the history on one leg is to the promise.
  <1>e. ASSUME NEW l \in Legs, EarlierSettled(history, l)
        PROVE  Promise!EarlierPaid(l)
    <2>1. \A m \in 1 .. l - 1 : m \in Legs
      BY NumLegsAssumption DEF Legs
    <2> QED
      BY <1>e, <2>1
      DEF EarlierSettled, MoneyStatus, Promise!EarlierPaid, Retried, TransferId
  <1>o. ASSUME NEW l \in Legs, Others(l)
        PROVE  \A m \in Legs \ {l} :
                 /\ history'[<<m, 0>>] = history[<<m, 0>>]
                 /\ history'[<<m, 1>>] = history[<<m, 1>>]
    BY <1>o, <1>t
  <1>m. ASSUME NEW l \in Legs, NEW from, NEW to, Others(l),
               MoneyStatus(history, l) = from, MoneyStatus(history', l) = to
        PROVE  Promise!Moves(l, from, to)
    <2>1. \A m \in Legs \ {l} : MoneyStatus(history', m) = MoneyStatus(history, m)
      BY <1>m, <1>o DEF MoneyStatus
    <2> QED
      BY <1>m, <2>1 DEF MoneyStatus, Promise!Moves, Retried, TransferId
  <1>r. ASSUME NEW l \in Legs, Others(l),
               history[<<l, 1>>] # NoTransfer <=> history'[<<l, 1>>] # NoTransfer
        PROVE  UNCHANGED [k \in Legs |-> Retried(k)]
    BY <1>o, <1>r DEF Retried, TransferId
  <1> HIDE DEF Goal, Others
  <1>1. ASSUME NEW p \in wire, ProviderReceives(p)
        PROVE  Goal
    <2> DEFINE l == p.leg
               g == p.generation
    <2>1. l \in Legs /\ g \in {0, 1} /\ EarlierSettled(history, l)
      BY DEF TypeOK, Payments, OrderInv, Generations
    <2>2. CASE history[<<l, g>>] # NoTransfer
      BY <1>1, <1>u, <2>2 DEF ProviderReceives, TransferId
    <2>3. CASE history[<<l, g>>] = NoTransfer
      <3>1. history' = [history EXCEPT ![<<l, g>>] = [status |-> "pending",
                                                     issuer |-> p.issuer]]
        BY <1>1, <2>3 DEF ProviderReceives, TransferId
      <3>2. history'[<<l, g>>].status = "pending" /\ <<l, g>> \in TransferIds
        BY <1>t, <2>1, <3>1 DEF TypeOK
      <3>3. Others(l)
        BY <2>1, <3>1, <3>2, <1>t DEF Others, TypeOK
      <3>4. CASE g = 0
        <4>1. history[<<l, 1>>] = NoTransfer
          BY <2>1, <2>3, <3>4 DEF RenewedAfterReturn, IsReturned, NoTransfer
        <4>2. history'[<<l, 1>>] = history[<<l, 1>>]
          BY <1>t, <2>1, <3>1, <3>4 DEF TypeOK
        <4>3. MoneyStatus(history, l) = "none" /\ MoneyStatus(history', l) = "pending"
          BY <2>3, <3>2, <3>4, <4>1, <4>2 DEF MoneyStatus, NoTransfer
        <4>4. Promise!Moves(l, "none", "pending")
          BY <1>m, <2>1, <3>3, <4>3
        <4>5. UNCHANGED [k \in Legs |-> Retried(k)]
          BY <1>r, <2>1, <3>3, <4>2
        <4>6. Promise!Release(l)
          BY <1>e, <2>1, <4>4, <4>5 DEF Promise!Release
        <4> QED BY <1>p, <2>1, <4>6 DEF Goal, Promise!Next
      <3>5. CASE g = 1
        <4>1. IsReturned(l)
          BY <3>5 DEF RenewedAfterReturn
        <4>2. history'[<<l, 1>>] # NoTransfer
          BY <3>2, <3>5 DEF NoTransfer
        <4>3. MoneyStatus(history, l) = "returned" /\ MoneyStatus(history', l) = "pending"
          BY <2>3, <3>2, <3>5, <4>1, <4>2 DEF MoneyStatus, IsReturned
        <4>4. Promise!Moves(l, "returned", "pending")
          BY <1>m, <2>1, <3>3, <4>3
        <4>5. /\ ~[k \in Legs |-> Retried(k)][l]
              /\ [k \in Legs |-> Retried(k)]'
                   = [[k \in Legs |-> Retried(k)] EXCEPT ![l] = TRUE]
          <5>1. ~Retried(l)
            BY <2>3, <3>5 DEF Retried, TransferId
          <5>2. \A m \in Legs \ {l} : Retried(m)' = Retried(m)
            BY <1>o, <2>1, <3>3 DEF Retried, TransferId
          <5>3. Retried(l)' = TRUE
            BY <4>2 DEF Retried, TransferId
          <5> HIDE DEF l, g
          <5> QED BY <2>1, <5>1, <5>2, <5>3, Zenon
        <4>6. Promise!Retry(l)
          BY <1>e, <2>1, <4>4, <4>5 DEF Promise!Retry
        <4> QED BY <1>p, <2>1, <4>6 DEF Goal, Promise!Next
      <3> QED BY <2>1, <3>4, <3>5
    <2> QED BY <2>2, <2>3
  <1>2. ASSUME NEW id \in TransferIds, ProviderMoves(id)
        PROVE  Goal
    <2>1. PICK l \in Legs, g \in Generations : id = <<l, g>> /\ id[1] = l
      BY TransferIdFacts
    <2>2. PICK step \in {<<"pending", "paid">>, <<"pending", "failed">>,
                         <<"failed", "returned">>} :
            /\ history[id].status = step[1]
            /\ history' = [history EXCEPT ![id].status = step[2]]
      BY <1>2 DEF ProviderMoves
    <2>3. /\ history[id] \in Transfer /\ g \in {0, 1}
          /\ step[1] \in {"pending", "failed"} /\ step[2] \in {"paid", "failed", "returned"}
      BY <2>2 DEF TypeOK, Generations
    <2>4. history'[id].status = step[2]
      BY <2>2, <2>3 DEF TypeOK, Transfer
    <2>5. Others(l)
      BY <2>1, <2>2 DEF Others, TypeOK
    <2>6. /\ MoneyStatus(history, l) = step[1] /\ MoneyStatus(history', l) = step[2]
          /\ history[<<l, 1>>] # NoTransfer <=> history'[<<l, 1>>] # NoTransfer
      <3>1. CASE g = 1
        <4>1. history[<<l, 1>>] # NoTransfer /\ history'[<<l, 1>>] # NoTransfer
          BY <2>1, <2>2, <2>3, <2>4, <3>1 DEF NoTransfer
        <4> QED BY <2>1, <2>2, <2>4, <3>1, <4>1 DEF MoneyStatus
      <3>2. CASE g = 0
        <4>1. history[<<l, 1>>] = NoTransfer
          BY <2>1, <2>2, <2>3, <3>2 DEF RenewedAfterReturn, IsReturned
        <4>2. history'[<<l, 1>>] = history[<<l, 1>>]
          BY <1>t, <2>1, <2>2, <3>2 DEF TypeOK
        <4> QED BY <2>1, <2>2, <2>4, <3>2, <4>1, <4>2 DEF MoneyStatus
      <3> QED BY <2>3, <3>1, <3>2
    <2>7. Promise!Moves(l, step[1], step[2])
      BY <1>m, <2>5, <2>6
    <2>8. UNCHANGED [k \in Legs |-> Retried(k)]
      BY <1>r, <2>5, <2>6
    <2>9. Promise!Settle(l) \/ Promise!Fail(l) \/ Promise!Return(l)
      BY <2>2, <2>7, <2>8 DEF Promise!Settle, Promise!Fail, Promise!Return
    <2> QED BY <1>p, <2>9 DEF Goal, Promise!Next
  <1>3. ASSUME NEW t \in Tabs, TabStep(t)
        PROVE  UNCHANGED history
    BY <1>3, OnlyCallsReachProvider
  <1>4. Goal
    BY <1>u, <1>1, <1>2, <1>3
    DEF Next, ProviderStep, vars, Abort, Crash, Import, RequestLost, Tick
  <1> QED BY <1>4 DEF Goal

\* The system of devices, tabs, relays and requests implements the promise on the
\* provider's history: the legs go out in the order of the plan, each once, and a
\* second time only after a full return, whatever crashes, imports, renewals and
\* lost answers come between (runCheckoutSparkFinancialWorkflow's first unpaid leg,
\* the sibling and prerequisite checks of runCheckoutSparkSettledOutgoingStep,
\* attestSettledReturn).
THEOREM KeepsThePromise == Spec => ImplementsPayouts
  <1>1. Init => OrderInv
    BY DEF Init, OrderInv, MaySend, IdleJob, Chosen, BeforeCall
  <1>2. Init => Promise!Init
    <2> SUFFICES ASSUME Init PROVE Promise!Init
      OBVIOUS
    <2>1. \A l \in Legs : history[<<l, 0>>] = NoTransfer /\ history[<<l, 1>>] = NoTransfer
      BY TransferIdFacts DEF Init
    <2>2. \A l \in Legs :
            /\ Retried(l) = FALSE
            /\ history[TransferId(l, IF Retried(l) THEN 1 ELSE 0, Shopper)].status = "none"
      <3> SUFFICES ASSUME NEW l \in Legs
                   PROVE  /\ Retried(l) = FALSE
                          /\ history[TransferId(l, IF Retried(l) THEN 1 ELSE 0,
                                               Shopper)].status = "none"
        OBVIOUS
      <3>1. Retried(l) = FALSE
        <4>1. history[TransferId(l, 1, Shopper)] = NoTransfer
          BY <2>1 DEF TransferId
        <4> QED BY <4>1 DEF Retried
      <3>2. history[TransferId(l, 0, Shopper)].status = "none"
        <4>1. history[TransferId(l, 0, Shopper)] = NoTransfer
          BY <2>1 DEF TransferId
        <4> QED BY <4>1 DEF NoTransfer
      <3>3. (IF Retried(l) THEN 1 ELSE 0) = 0
        BY <3>1
      <3> QED BY <3>1, <3>2, <3>3
    <2>3. [l \in Legs |-> Retried(l)] = [l \in Legs |-> FALSE]
      BY <2>2, Zenon
    <2>4. [l \in Legs |->
             history[TransferId(l, IF Retried(l) THEN 1 ELSE 0, Shopper)].status]
            = [l \in Legs |-> "none"]
      BY <2>2
    <2>5. Legs = Promise!Payees
      BY DEF Legs, Promise!Payees
    <2> QED BY <2>3, <2>4, <2>5, Zenon DEF Promise!Init
  <1>3. /\ TypeOK /\ TypeOK' /\ RenewedAfterReturn /\ RenewedAfterReturn' /\ PaidInv
        /\ OrderInv /\ [Next]_vars
        => OrderInv'
    BY OrderStep
  <1>4. /\ TypeOK /\ TypeOK' /\ RenewedAfterReturn /\ RenewedAfterReturn'
        /\ OrderInv /\ [Next]_vars
        => [Promise!Next]_(Promise!payoutVars)
    BY PayoutStep
  <1> QED
    BY TypeCorrect, RenewalInvariant, PaidInvariant, <1>1, <1>2, <1>3, <1>4, PTL
    DEF Spec, ImplementsPayouts, Promise!Spec
=============================================================================
