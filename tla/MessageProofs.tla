----------------------------- MODULE MessageProofs -----------------------------
(***************************************************************************)
(* Theorems of PrivateDelivery, for any number of tabs, relays and         *)
(* attempts: relays see one ciphertext, an acknowledgement is never false  *)
(* and never lost, and while no tab freezes a send owns its row until it   *)
(* has ended; and of MCMessages, every part of it.                         *)
(***************************************************************************)
EXTENDS MCMessages, Integers, FiniteSetTheorems, WellFoundedInduction, TLAPS

-----------------------------------------------------------------------------
(* The inductive invariant.                                                *)

\* What a worker holds fits the rows and the relays: past the staging it has a row,
\* and sends what the row has; what it heard, or read of the row, is true of the
\* relays; at the sender's own copy it comes behind the recipient's; and about to
\* commit it has read what the row has, if the revision is still the one it read.
Fits(j) ==
  /\ j.step \notin {"idle", "stage"} => Exists(j.row)
  /\ j.step \in {"hold", "publish"} => j.wrap = row[j.row].wrap
  /\ j.step = "stage" => j.wrap \in Workers
  /\ \A relay \in j.got \cup j.seen : copies[relay][j.row] # {}
  /\ j.step # "idle" /\ j.row = "self" => \E relay \in Relays : copies[relay]["main"] # {}
  /\ j.step = "commit" /\ row[j.row].nonce = j.nonce => row[j.row].acked = j.seen

AllFit == \A w \in Workers : Fits(job[w])

Inv == MessagesSafe /\ AllFit

-----------------------------------------------------------------------------
(* Rows, records and revisions.                                            *)

\* A row exists when it has a ciphertext.
LEMMA ExistsHasWrap ==
  ASSUME NoneAssumption, TypeOK, NEW r \in Rows
  PROVE  /\ Exists(r) <=> row[r] \in Row
         /\ Exists(r) <=> row[r].wrap \in Workers
         /\ Exists(r) <=> row[r].wrap # None
         /\ ~Exists(r) => row[r] = NoRow
         /\ NoRow.wrap = None /\ NoRow.acked = {} /\ NoRow.nonce = 0
         /\ NoRow.owner = None /\ NoRow.ttl = 0
  <1>1. NoRow.wrap = None /\ NoRow.acked = {} /\ NoRow.nonce = 0
        /\ NoRow.owner = None /\ NoRow.ttl = 0
    BY DEF NoRow
  <1>2. row[r] \in Row \cup {NoRow}
    BY DEF TypeOK
  <1>3. row[r] \in Row => row[r].wrap \in Workers /\ row[r].wrap # None
    BY DEF Row, NoneAssumption
  <1> QED BY <1>1, <1>2, <1>3 DEF Exists, NoneAssumption

\* The revisions are the numbers up to the count of workers.
LEMMA NoncesAreFinite ==
  ASSUME ParameterAssumption
  PROVE  /\ Cardinality(Workers) \in Nat /\ Nonces \subseteq Nat /\ 0 \in Nonces
         /\ IsFiniteSet(Nonces) /\ Cardinality(Nonces) = Cardinality(Workers) + 1
  <1>1. Cardinality(Workers) \in Nat
    BY FS_CardinalityType DEF ParameterAssumption
  <1>2. IsFiniteSet(Nonces) /\ Cardinality(Nonces) = Cardinality(Workers) + 1
    BY <1>1, FS_Interval DEF Nonces
  <1>3. 0 \in Nonces /\ Nonces \subseteq Nat
    BY <1>1 DEF Nonces
  <1> QED BY <1>1, <1>2, <1>3

\* There is always a revision that no other worker about to commit has read.
LEMMA FreshNonceIsFresh ==
  ASSUME ParameterAssumption, TypeOK, NEW w \in Workers, NEW r \in Rows
  PROVE  /\ FreshNonce(w, r) \in Nonces
         /\ \A v \in Workers \ {w} :
              job[v].step = "commit" /\ job[v].row = r => job[v].nonce # FreshNonce(w, r)
  <1> DEFINE others == {v \in Workers \ {w} : job[v].step = "commit" /\ job[v].row = r}
             taken == {job[v].nonce : v \in others}
  <1>1. IsFiniteSet(Workers \ {w}) /\ Cardinality(Workers \ {w}) = Cardinality(Workers) - 1
    BY FS_RemoveElement DEF ParameterAssumption
  <1>2. IsFiniteSet(others) /\ Cardinality(others) <= Cardinality(Workers) - 1
    BY <1>1, FS_Subset
  <1>3. IsFiniteSet(taken) /\ Cardinality(taken) <= Cardinality(others)
    <2> DEFINE f == [v \in others |-> job[v].nonce]
    <2>1. f \in [others -> taken] /\ \A n \in taken : \E v \in others : f[v] = n
      OBVIOUS
    <2>2. f \in Surjection(others, taken)
      BY <2>1 DEF Surjection
    <2> QED BY <1>2, <2>2, FS_Surjection
  <1>4. Cardinality(taken) \in Nat /\ Cardinality(others) \in Nat
    BY <1>2, <1>3, FS_CardinalityType
  <1>5. Nonces \ taken # {}
    <2> SUFFICES ASSUME Nonces \subseteq taken PROVE FALSE
      OBVIOUS
    <2>1. Cardinality(Nonces) <= Cardinality(taken)
      BY <1>3, FS_Subset
    <2> QED BY <2>1, <1>2, <1>3, <1>4, NoncesAreFinite
  <1>6. FreshNonce(w, r) \in Nonces \ taken
    BY <1>5 DEF FreshNonce
  <1> QED BY <1>6

-----------------------------------------------------------------------------
(* Steps.                                                                  *)

\* A worker at rest, and one that is about to let go of its row, fit whatever the
\* rows are.
LEMMA IdleFits ==
  ASSUME ParameterAssumption
  PROVE  /\ Idle \in Job /\ Fits(Idle)
         /\ Idle.step = "idle" /\ Idle.row = "main" /\ Idle.got = {} /\ Idle.seen = {}
  <1>1. 0 \in Nonces
    BY NoncesAreFinite
  <1>2. 0 \in 0 .. MaxTries
    BY DEF ParameterAssumption
  <1> QED BY <1>1, <1>2 DEF Idle, Job, Steps, Rows, Fits

\* A worker's step changes its own record only.
LEMMA SetIsTyped ==
  ASSUME TypeOK, NEW w \in Workers, NEW j \in Job, Set(w, j)
  PROVE  /\ job' \in [Workers -> Job] /\ job'[w] = j
         /\ \A v \in Workers \ {w} : job'[v] = job[v]
  BY DEF TypeOK, Set

\* A step that neither stages, nor is heard by a relay, nor records anything keeps
\* the invariant as long as what every worker then holds fits.
LEMMA QuietStep ==
  ASSUME NoneAssumption, Inv,
         row' \in [Rows -> Row \cup {NoRow}],
         \A r \in Rows : /\ row'[r].wrap = row[r].wrap /\ row'[r].acked = row[r].acked
                         /\ row'[r].nonce = row[r].nonce,
         job' \in [Workers -> Job], \A w \in Workers : Fits(job'[w]),
         frozen' \subseteq Workers, copies' = copies
  PROVE  Inv'
  <1>1. TypeOK /\ TypeOK'
    BY DEF Inv, MessagesSafe, TypeOK
  <1>2. \A r \in Rows : Exists(r)' <=> Exists(r)
    <2> TAKE r \in Rows
    <2>1. Exists(r) <=> row[r].wrap # None
      BY <1>1, ExistsHasWrap
    <2>2. row'[r] \in Row \cup {NoRow}
      OBVIOUS
    <2>3. row'[r] # NoRow <=> row'[r].wrap # None
      BY <2>2 DEF Row, NoRow, NoneAssumption
    <2> QED BY <2>1, <2>3 DEF Exists
  <1>3. OneWrap' /\ AckIsStored'
    BY DEF Inv, MessagesSafe, OneWrap, AckIsStored
  <1>4. SelfBehindRecipient'
    <2>1. "self" \in Rows
      BY DEF Rows
    <2> QED BY <1>2, <2>1 DEF Inv, MessagesSafe, SelfBehindRecipient
  <1>5. ASSUME NEW w \in Workers PROVE Fits(job[w])'
    <2>1. Fits(job'[w]) /\ job'[w] \in Job
      OBVIOUS
    <2>2. job'[w].row \in Rows
      BY <2>1 DEF Job
    <2>3. Exists(job'[w].row) <=> row'[job'[w].row] # NoRow
      BY <1>2, <2>2 DEF Exists
    <2> QED BY <2>1, <2>2, <2>3 DEF Fits, Exists
  <1> QED BY <1>1, <1>3, <1>4, <1>5 DEF Inv, MessagesSafe, AllFit

\* The same for one worker that leaves the rows alone.
LEMMA OwnStep ==
  ASSUME NoneAssumption, Inv, NEW w \in Workers, NEW j \in Job, Fits(j), Set(w, j),
         UNCHANGED <<row, copies>>, frozen' = frozen
  PROVE  Inv'
  <1>1. TypeOK
    BY DEF Inv, MessagesSafe
  <1>2. /\ job' \in [Workers -> Job] /\ job'[w] = j
        /\ \A v \in Workers \ {w} : job'[v] = job[v]
    BY <1>1, SetIsTyped
  <1>3. \A v \in Workers : Fits(job'[v])
    BY <1>2 DEF Inv, AllFit
  <1> QED BY <1>1, <1>2, <1>3, QuietStep DEF TypeOK

\* About to let go, a worker keeps of what it heard all or nothing.
ReleasedJob(w) ==
  [job[w] EXCEPT !.step = "release", !.seen = {}, !.nonce = 0, !.tries = 0,
                 !.wrap = None, !.targets = {},
                 !.got = IF job[w].fresh /\ job[w].row = "main" THEN @ ELSE {}]

LEMMA ReleasedFits ==
  ASSUME ParameterAssumption, Inv, NEW w \in Workers,
         job[w].step \in {"publish", "read", "commit"}
  PROVE  /\ ReleasedJob(w) \in Job /\ Fits(ReleasedJob(w))
         /\ ToRelease(w) <=> Set(w, ReleasedJob(w))
         /\ ReleasedJob(w).step = "release" /\ ReleasedJob(w).row = job[w].row
         /\ ReleasedJob(w).owner = job[w].owner /\ ReleasedJob(w).due = job[w].due
         /\ ReleasedJob(w).lost = job[w].lost
  <1>1. 0 \in Nonces
    BY NoncesAreFinite
  <1>2. 0 \in 0 .. MaxTries
    BY DEF ParameterAssumption
  <1>3. job[w] \in Job /\ Fits(job[w])
    BY DEF Inv, MessagesSafe, TypeOK, AllFit
  <1> DEFINE kept == IF job[w].fresh /\ job[w].row = "main" THEN job[w].got ELSE {}
             j == ReleasedJob(w)
  <1>4. kept \in SUBSET Relays /\ kept \subseteq job[w].got
    BY <1>3 DEF Job
  <1>5. j = [job[w] EXCEPT !.step = "release", !.seen = {}, !.nonce = 0, !.tries = 0,
                           !.wrap = None, !.targets = {}, !.got = kept]
    BY DEF ReleasedJob
  <1> HIDE DEF kept, j
  <1>6. /\ j \in Job /\ j.step = "release" /\ j.row = job[w].row /\ j.got = kept
        /\ j.seen = {} /\ j.owner = job[w].owner /\ j.due = job[w].due
        /\ j.lost = job[w].lost
    BY <1>1, <1>2, <1>3, <1>4, <1>5 DEF Job, Steps
  <1>7. Fits(j)
    BY <1>3, <1>4, <1>6 DEF Fits
  <1>8. ToRelease(w) <=> Set(w, j)
    BY DEF ToRelease, j, ReleasedJob
  <1> QED BY <1>6, <1>7, <1>8 DEF j

-----------------------------------------------------------------------------
(* Every action keeps the invariant.                                       *)

LEMMA InitInv == ASSUME ParameterAssumption, NoneAssumption, Init PROVE Inv
  <1>1. TypeOK
    BY IdleFits DEF Init, TypeOK
  <1>2. ASSUME NEW r \in Rows PROVE ~Exists(r) /\ row[r].acked = {}
    BY <1>1, ExistsHasWrap DEF Init, Exists
  <1>3. OneWrap /\ AckIsStored /\ SelfBehindRecipient
    BY <1>2 DEF Init, OneWrap, AckIsStored, SelfBehindRecipient, Rows
  <1>4. AllFit
    BY IdleFits DEF Init, AllFit
  <1> QED BY <1>1, <1>3, <1>4 DEF Inv, MessagesSafe

LEMMA WrapInv ==
  ASSUME ParameterAssumption, NoneAssumption, Inv, NEW w \in Workers,
         Wrap(w), frozen' = frozen
  PROVE  Inv'
  <1> DEFINE j == [Idle EXCEPT !.step = "stage", !.fresh = TRUE, !.wrap = w,
                               !.targets = Relays]
  <1>1. /\ j \in Job /\ j.step = "stage" /\ j.row = "main" /\ j.wrap = w
        /\ j.got = {} /\ j.seen = {}
    BY IdleFits DEF Job, Steps
  <1>2. Set(w, j) /\ UNCHANGED <<row, copies>>
    BY DEF Wrap
  <1> HIDE DEF j
  <1>3. Fits(j)
    BY <1>1 DEF Fits
  <1> QED BY <1>1, <1>2, <1>3, OwnStep

\* A staged row has not reached any relay, and nobody else is at it.
LEMMA StageInv ==
  ASSUME ParameterAssumption, NoneAssumption, Inv, NEW w \in Workers,
         Stage(w), frozen' = frozen
  PROVE  Inv'
  <1> DEFINE r == job[w].row
  <1>1. /\ TypeOK /\ job[w] \in Job /\ r \in Rows /\ job[w].step = "stage"
        /\ Fits(job[w]) /\ copies' = copies
    BY DEF Inv, MessagesSafe, TypeOK, AllFit, Job, Stage
  <1>2. CASE StagedBefore(r)
    BY <1>2, IdleFits, OwnStep DEF Stage, End
  <1>3. CASE ~StagedBefore(r)
    <2> DEFINE new == [NoRow EXCEPT !.wrap = job[w].wrap, !.owner = w, !.ttl = Ttl]
               j == [job[w] EXCEPT !.step = "hold"]
    <2>1. /\ row' = [row EXCEPT ![r] = new] /\ Set(w, j)
      BY <1>3 DEF Stage, Goto
    <2>2. /\ new \in Row /\ new.wrap = job[w].wrap /\ new.acked = {}
          /\ job[w].wrap \in Workers
      <3>1. job[w].wrap \in Workers
        BY <1>1 DEF Fits
      <3>2. Ttl \in 0 .. Ttl
        BY DEF ParameterAssumption
      <3> QED BY <3>1, <3>2, NoncesAreFinite DEF NoRow, Row
    <2>3. /\ j \in Job /\ j.step = "hold" /\ j.row = r /\ j.wrap = job[w].wrap
          /\ j.got = job[w].got /\ j.seen = job[w].seen
      BY <1>1 DEF Job, Steps
    <2> HIDE DEF new, j
    <2>4. /\ job' \in [Workers -> Job] /\ job'[w] = j
          /\ \A v \in Workers \ {w} : job'[v] = job[v]
      BY <1>1, <2>1, <2>3, SetIsTyped
    <2>5. /\ row' \in [Rows -> Row \cup {NoRow}] /\ row'[r] = new
          /\ \A q \in Rows \ {r} : row'[q] = row[q]
      BY <1>1, <2>1, <2>2 DEF TypeOK
    <2>6. ~Exists(r) /\ row[r].acked = {} /\ row[r].wrap = None
      BY <1>1, <1>3, ExistsHasWrap DEF StagedBefore
    <2>7. \A relay \in Relays : copies[relay][r] = {}
      BY <1>1, <2>6 DEF Inv, MessagesSafe, OneWrap, TypeOK, NoneAssumption
    <2>8. TypeOK'
      BY <1>1, <2>4, <2>5 DEF TypeOK
    <2>9. OneWrap' /\ AckIsStored'
      BY <1>1, <2>2, <2>5, <2>7 DEF Inv, MessagesSafe, OneWrap, AckIsStored
    <2>10. SelfBehindRecipient'
      <3>1. CASE r = "self"
        BY <1>1, <3>1 DEF SelfBehindRecipient, Fits
      <3>2. CASE r # "self"
        <4>1. "self" \in Rows \ {r}
          BY <3>2 DEF Rows
        <4>2. row'["self"] = row["self"]
          BY <2>5, <4>1
        <4> QED BY <1>1, <4>2 DEF Inv, MessagesSafe, SelfBehindRecipient, Exists
      <3> QED BY <3>1, <3>2
    <2>11. Exists(r)'
      <3>1. new # NoRow
        BY <2>2 DEF NoRow, NoneAssumption
      <3> QED BY <2>3, <2>4, <2>5, <3>1 DEF Exists
    <2>12. ASSUME NEW v \in Workers PROVE Fits(job[v])'
      <3>1. CASE v = w
        BY <1>1, <2>3, <2>4, <2>5, <2>2, <2>11, <3>1 DEF Fits
      <3>2. CASE v # w
        <4>1. job'[v] = job[v] /\ Fits(job[v]) /\ job[v] \in Job /\ job[v].row \in Rows
          BY <2>4, <3>2 DEF Inv, AllFit, MessagesSafe, TypeOK, Job
        <4>2. CASE job[v].row = r
          <5>1. job[v].step \in {"idle", "stage"}
            BY <2>6, <4>1, <4>2 DEF Fits
          <5> QED BY <1>1, <4>1, <5>1 DEF Fits
        <4>3. CASE job[v].row # r
          <5>1. row'[job[v].row] = row[job[v].row]
            BY <2>5, <4>1, <4>3
          <5> QED BY <1>1, <4>1, <5>1 DEF Fits, Exists
        <4> QED BY <4>2, <4>3
      <3> QED BY <3>1, <3>2
    <2> QED BY <2>8, <2>9, <2>10, <2>12 DEF Inv, MessagesSafe, AllFit
  <1> QED BY <1>2, <1>3

\* A claim is of a saved row, and is for what the row has.
LEMMA ClaimInv ==
  ASSUME ParameterAssumption, NoneAssumption, Inv, NEW w \in Workers,
         NEW r \in Rows, NEW replay \in BOOLEAN, Claim(w, r, replay), frozen' = frozen
  PROVE  Inv'
  <1> DEFINE targets == IF replay THEN RelaysOf(r) ELSE RelaysOf(r) \ row[r].acked
             j == [Idle EXCEPT !.step = "hold", !.row = r, !.wrap = row[r].wrap,
                               !.targets = targets]
  <1>1. TypeOK /\ Exists(r) /\ copies' = copies
    BY DEF Inv, MessagesSafe, Claim, Claimable
  <1>2. row[r] \in Row /\ row[r].wrap \in Workers
    BY <1>1, ExistsHasWrap
  <1>3. targets \in SUBSET Relays
    BY DEF RelaysOf, ParameterAssumption
  <1>4. Set(w, j) /\ row' = [row EXCEPT ![r].owner = w, ![r].ttl = Ttl]
    BY DEF Claim
  <1> HIDE DEF targets
  <1>5. /\ j \in Job /\ j.step = "hold" /\ j.row = r /\ j.wrap = row[r].wrap
        /\ j.got = {} /\ j.seen = {}
    BY <1>2, <1>3, IdleFits DEF Job, Steps
  <1> HIDE DEF j
  <1>6. /\ job' \in [Workers -> Job] /\ job'[w] = j
        /\ \A v \in Workers \ {w} : job'[v] = job[v]
    BY <1>1, <1>4, <1>5, SetIsTyped
  <1>7. /\ row' \in [Rows -> Row \cup {NoRow}]
        /\ \A q \in Rows : /\ row'[q].wrap = row[q].wrap /\ row'[q].acked = row[q].acked
                           /\ row'[q].nonce = row[q].nonce
    <2> DEFINE new == [row[r] EXCEPT !.owner = w, !.ttl = Ttl]
    <2>1. row' = [row EXCEPT ![r] = new]
      BY <1>4
    <2>2. /\ new \in Row /\ new.wrap = row[r].wrap /\ new.acked = row[r].acked
          /\ new.nonce = row[r].nonce
      <3>1. Ttl \in 0 .. Ttl
        BY DEF ParameterAssumption
      <3> QED BY <1>2, <3>1 DEF Row
    <2> HIDE DEF new
    <2> QED BY <1>1, <2>1, <2>2 DEF TypeOK
  <1>8. Fits(j)
    <2>1. r = "self" => \E relay \in Relays : copies[relay]["main"] # {}
      BY <1>1 DEF Inv, MessagesSafe, SelfBehindRecipient
    <2> QED BY <1>1, <1>5, <2>1 DEF Fits
  <1>9. \A v \in Workers : Fits(job'[v])
    BY <1>6, <1>8 DEF Inv, AllFit
  <1> QED BY <1>1, <1>6, <1>7, <1>9, QuietStep DEF TypeOK

LEMMA HoldInv ==
  ASSUME ParameterAssumption, NoneAssumption, Inv, NEW w \in Workers,
         Hold(w), frozen' = frozen
  PROVE  Inv'
  <1> DEFINE r == job[w].row
             j == [job[w] EXCEPT !.step = "publish", !.owner = row[r].owner, !.due = FALSE]
  <1>1. /\ TypeOK /\ job[w] \in Job /\ r \in Rows /\ Fits(job[w]) /\ job[w].step = "hold"
        /\ UNCHANGED <<row, copies>>
    BY DEF Inv, MessagesSafe, TypeOK, AllFit, Job, Hold
  <1>2. CASE row[r].owner = None
    BY <1>1, <1>2, IdleFits, OwnStep DEF Hold, End
  <1>3. CASE row[r].owner # None
    <2>1. Set(w, j)
      BY <1>3 DEF Hold
    <2>2. row[r].owner \in Workers \cup {None}
      BY <1>1, ExistsHasWrap DEF Fits, Row
    <2>3. /\ j \in Job /\ j.step = "publish" /\ j.row = r /\ j.wrap = job[w].wrap
          /\ j.got = job[w].got /\ j.seen = job[w].seen
      BY <1>1, <2>2 DEF Job, Steps
    <2> HIDE DEF j
    <2>4. Fits(j)
      BY <1>1, <2>3 DEF Fits
    <2> QED BY <1>1, <2>1, <2>3, <2>4, OwnStep
  <1> QED BY <1>2, <1>3

LEMMA HeartbeatInv ==
  ASSUME ParameterAssumption, NoneAssumption, Inv, NEW w \in Workers,
         Heartbeat(w), frozen' = frozen
  PROVE  Inv'
  <1> DEFINE r == job[w].row
             j == [job[w] EXCEPT !.due = FALSE]
             gone == [job[w] EXCEPT !.due = FALSE, !.lost = TRUE]
  <1>1. /\ TypeOK /\ job[w] \in Job /\ r \in Rows /\ Fits(job[w])
        /\ Holding(w) /\ copies' = copies
    BY DEF Inv, MessagesSafe, TypeOK, AllFit, Job, Heartbeat
  <1>2. /\ j \in Job /\ gone \in Job /\ Fits(j) /\ Fits(gone)
    <2>1. /\ j \in Job /\ j.step = job[w].step /\ j.row = r /\ j.wrap = job[w].wrap
          /\ j.got = job[w].got /\ j.seen = job[w].seen /\ j.nonce = job[w].nonce
      BY <1>1 DEF Job
    <2>2. /\ gone \in Job /\ gone.step = job[w].step /\ gone.row = r
          /\ gone.wrap = job[w].wrap
          /\ gone.got = job[w].got /\ gone.seen = job[w].seen /\ gone.nonce = job[w].nonce
      BY <1>1 DEF Job
    <2> HIDE DEF j, gone
    <2> QED BY <1>1, <2>1, <2>2 DEF Fits
  <1>3. CASE row' = row
    <2>1. Set(w, j) \/ Set(w, gone)
      <3>1. CASE job[w].lost
        BY <3>1 DEF Heartbeat
      <3>2. CASE ~job[w].lost /\ row[r].owner = job[w].owner
        BY <3>2 DEF Heartbeat
      <3>3. CASE ~job[w].lost /\ row[r].owner # job[w].owner
        BY <3>3 DEF Heartbeat
      <3> QED BY <3>1, <3>2, <3>3
    <2> HIDE DEF j, gone
    <2> QED BY <1>1, <1>2, <1>3, <2>1, OwnStep
  <1>4. CASE row' # row
    <2>1. row' = [row EXCEPT ![r] = Renewed(r)] /\ Set(w, j)
      <3>1. ~job[w].lost
        BY <1>4 DEF Heartbeat
      <3>2. row[r].owner = job[w].owner
        BY <1>4, <3>1 DEF Heartbeat
      <3> QED BY <3>1, <3>2 DEF Heartbeat
    <2> HIDE DEF j
    <2>2. /\ Renewed(r) \in Row /\ Renewed(r).wrap = row[r].wrap
          /\ Renewed(r).acked = row[r].acked /\ Renewed(r).nonce = row[r].nonce
      <3>1. Exists(r)
        BY <1>1 DEF Fits, Holding
      <3>2. row[r] \in Row
        BY <1>1, <3>1, ExistsHasWrap
      <3>3. Ttl \in 0 .. Ttl
        BY DEF ParameterAssumption
      <3> QED BY <3>2, <3>3 DEF Row, Renewed
    <2>3. /\ row' \in [Rows -> Row \cup {NoRow}]
          /\ \A q \in Rows : /\ row'[q].wrap = row[q].wrap /\ row'[q].acked = row[q].acked
                             /\ row'[q].nonce = row[q].nonce
      BY <1>1, <2>1, <2>2 DEF TypeOK
    <2>4. /\ job' \in [Workers -> Job] /\ job'[w] = j
          /\ \A v \in Workers \ {w} : job'[v] = job[v]
      BY <1>1, <1>2, <2>1, SetIsTyped
    <2>5. \A v \in Workers : Fits(job'[v])
      BY <1>2, <2>4 DEF Inv, AllFit
    <2> QED BY <1>1, <2>3, <2>4, <2>5, QuietStep DEF TypeOK
  <1> QED BY <1>3, <1>4

\* What relays receive is what the row has, and what is heard they received.
LEMMA PublishInv ==
  ASSUME ParameterAssumption, NoneAssumption, Inv, NEW w \in Workers,
         Publish(w), frozen' = frozen
  PROVE  Inv'
  <1> DEFINE r == job[w].row
  <1>1. /\ TypeOK /\ job[w] \in Job /\ r \in Rows /\ Fits(job[w])
        /\ job[w].step = "publish" /\ row' = row
    BY DEF Inv, MessagesSafe, TypeOK, AllFit, Job, Publish
  <1>2. CASE ToRelease(w) /\ UNCHANGED copies
    BY <1>1, <1>2, ReleasedFits, OwnStep
  <1>3. CASE \E targets \in SUBSET job[w].targets :
               /\ ~job[w].fresh \/ targets = job[w].targets
               /\ targets # {} /\ ~job[w].lost
               /\ \E reached \in SUBSET targets : \E heard \in SUBSET reached :
                    /\ copies' = [relay \in Relays |->
                         IF relay \in reached
                         THEN [copies[relay] EXCEPT ![r] = @ \cup {job[w].wrap}]
                         ELSE copies[relay]]
                    /\ Set(w, [job[w] EXCEPT !.step = "read", !.targets = {},
                                             !.wrap = None, !.got = heard])
    <2>1. PICK reached \in SUBSET job[w].targets : \E heard \in SUBSET reached :
            /\ copies' = [relay \in Relays |->
                 IF relay \in reached
                 THEN [copies[relay] EXCEPT ![r] = @ \cup {job[w].wrap}]
                 ELSE copies[relay]]
            /\ Set(w, [job[w] EXCEPT !.step = "read", !.targets = {},
                                     !.wrap = None, !.got = heard])
      BY <1>3
    <2>2. PICK heard \in SUBSET reached :
            Set(w, [job[w] EXCEPT !.step = "read", !.targets = {},
                                  !.wrap = None, !.got = heard])
      BY <2>1
    <2> DEFINE j == [job[w] EXCEPT !.step = "read", !.targets = {},
                                   !.wrap = None, !.got = heard]
    <2>3. reached \subseteq Relays /\ heard \subseteq Relays
      BY <1>1, <2>1, <2>2 DEF Job
    <2>4. /\ j \in Job /\ j.step = "read" /\ j.row = r /\ j.got = heard
          /\ j.seen = job[w].seen
      BY <1>1, <2>3 DEF Job, Steps
    <2>5. Set(w, j)
      BY <2>2
    <2> HIDE DEF j
    <2>6. /\ job' \in [Workers -> Job] /\ job'[w] = j
          /\ \A v \in Workers \ {w} : job'[v] = job[v]
      BY <1>1, <2>4, <2>5, SetIsTyped
    <2>7. job[w].wrap = row[r].wrap /\ job[w].wrap \in Workers
      BY <1>1, ExistsHasWrap DEF Fits
    <2>8. /\ copies' \in [Relays -> [Rows -> SUBSET Workers]]
          /\ \A relay \in Relays, q \in Rows :
               copies'[relay][q] = IF relay \in reached /\ q = r
                                   THEN copies[relay][q] \cup {row[q].wrap}
                                   ELSE copies[relay][q]
      <3> SUFFICES ASSUME NEW relay \in Relays
                   PROVE  /\ copies'[relay] \in [Rows -> SUBSET Workers]
                          /\ \A q \in Rows :
                               copies'[relay][q] = IF relay \in reached /\ q = r
                                                   THEN copies[relay][q] \cup {row[q].wrap}
                                                   ELSE copies[relay][q]
        BY <2>1
      <3>1. copies[relay] \in [Rows -> SUBSET Workers]
        BY <1>1 DEF TypeOK
      <3>2. CASE relay \in reached
        <4>1. copies'[relay] = [copies[relay] EXCEPT ![r] = @ \cup {job[w].wrap}]
          BY <2>1, <3>2
        <4> QED BY <1>1, <2>7, <3>1, <3>2, <4>1
      <3>3. CASE relay \notin reached
        <4>1. copies'[relay] = copies[relay]
          BY <2>1, <3>3
        <4> QED BY <3>1, <3>3, <4>1
      <3> QED BY <3>2, <3>3
    <2>9. \A relay \in Relays, q \in Rows :
            copies[relay][q] # {} => copies'[relay][q] # {}
      BY <2>8
    <2>10. \A relay \in reached : copies'[relay][r] # {}
      BY <1>1, <2>3, <2>8
    <2>11. TypeOK'
      BY <1>1, <2>6, <2>8 DEF TypeOK
    <2>12. OneWrap'
      <3>1. \A relay \in Relays, q \in Rows : copies[relay][q] \subseteq {row[q].wrap}
        BY DEF Inv, MessagesSafe, OneWrap
      <3>2. ASSUME NEW relay \in Relays, NEW q \in Rows
            PROVE  copies'[relay][q] \subseteq {row[q].wrap}
        <4>1. copies[relay][q] \subseteq {row[q].wrap}
          BY <3>1
        <4>2. \/ copies'[relay][q] = copies[relay][q] \cup {row[q].wrap}
              \/ copies'[relay][q] = copies[relay][q]
          BY <2>8
        <4> QED BY <4>1, <4>2
      <3> QED BY <1>1, <3>2 DEF OneWrap
    <2>13. AckIsStored'
      <3>1. \A q \in Rows : row[q].acked \subseteq Relays
        BY <1>1, ExistsHasWrap DEF Row
      <3> QED BY <1>1, <2>9, <3>1 DEF Inv, MessagesSafe, AckIsStored
    <2>14. SelfBehindRecipient'
      <3>1. "main" \in Rows
        BY DEF Rows
      <3> QED BY <1>1, <2>9, <3>1 DEF Inv, MessagesSafe, SelfBehindRecipient, Exists
    <2>15. ASSUME NEW v \in Workers PROVE Fits(job[v])'
      <3>1. "main" \in Rows
        BY DEF Rows
      <3>2. CASE v = w
        <4>1. \A relay \in job[w].seen : relay \in Relays /\ copies[relay][r] # {}
          BY <1>1 DEF Fits, Job
        <4> QED BY <1>1, <2>2, <2>3, <2>4, <2>6, <2>9, <2>10, <3>1, <3>2, <4>1
                DEF Fits, Exists
      <3>3. CASE v # w
        <4>1. job'[v] = job[v] /\ Fits(job[v]) /\ job[v] \in Job
          BY <1>1, <2>6, <3>3 DEF Inv, AllFit, TypeOK
        <4>2. /\ job[v].row \in Rows
              /\ \A relay \in job[v].got \cup job[v].seen : relay \in Relays
          BY <4>1 DEF Job
        <4> QED BY <1>1, <2>9, <3>1, <4>1, <4>2 DEF Fits, Exists
      <3> QED BY <3>2, <3>3
    <2> QED BY <2>11, <2>12, <2>13, <2>14, <2>15 DEF Inv, MessagesSafe, AllFit
  <1> QED BY <1>2, <1>3 DEF Publish

LEMMA RecordReadInv ==
  ASSUME ParameterAssumption, NoneAssumption, Inv, NEW w \in Workers,
         RecordRead(w), frozen' = frozen
  PROVE  Inv'
  <1> DEFINE r == job[w].row
             j == [job[w] EXCEPT !.step = "commit", !.seen = row[r].acked,
                                 !.nonce = row[r].nonce]
  <1>1. /\ TypeOK /\ job[w] \in Job /\ r \in Rows /\ Fits(job[w])
        /\ job[w].step = "read" /\ UNCHANGED <<row, copies>> /\ Set(w, j)
    BY DEF Inv, MessagesSafe, TypeOK, AllFit, Job, RecordRead
  <1>2. row[r] \in Row
    BY <1>1, ExistsHasWrap DEF Fits
  <1>3. /\ j \in Job /\ j.step = "commit" /\ j.row = r /\ j.seen = row[r].acked
        /\ j.nonce = row[r].nonce /\ j.got = job[w].got
    BY <1>1, <1>2 DEF Job, Row, Steps
  <1> HIDE DEF j
  <1>4. Fits(j)
    BY <1>1, <1>3 DEF Fits, Inv, MessagesSafe, AckIsStored
  <1> QED BY <1>1, <1>3, <1>4, OwnStep

\* A commit merges what was heard into what the row still has, under a revision that
\* no other worker has read.
LEMMA RecordCommitInv ==
  ASSUME ParameterAssumption, NoneAssumption, Inv, NEW w \in Workers,
         RecordCommit(w), frozen' = frozen
  PROVE  Inv' /\ \A r \in Rows : row[r].acked \subseteq row'[r].acked
  <1> DEFINE r == job[w].row
             again == [job[w] EXCEPT !.step = "read", !.tries = @ + 1]
  <1>1. /\ TypeOK /\ job[w] \in Job /\ r \in Rows /\ Fits(job[w])
        /\ job[w].step = "commit" /\ copies' = copies
    BY DEF Inv, MessagesSafe, TypeOK, AllFit, Job, RecordCommit
  <1>2. CASE ~SameRevision(w) /\ ToRelease(w) /\ row' = row
    BY <1>1, <1>2, ReleasedFits, OwnStep
  <1>3. CASE ~SameRevision(w) /\ job[w].tries + 1 < MaxTries /\ Set(w, again) /\ row' = row
    <2>1. job[w].tries \in 0 .. MaxTries /\ MaxTries \in Nat
      BY <1>1 DEF Job, ParameterAssumption
    <2>2. job[w].tries + 1 \in 0 .. MaxTries
      BY <1>3, <2>1
    <2>3. /\ again \in Job /\ again.step = "read" /\ again.row = r
          /\ again.got = job[w].got /\ again.seen = job[w].seen
      BY <1>1, <2>2 DEF Job, Steps
    <2> HIDE DEF again
    <2>4. Fits(again)
      BY <1>1, <2>3 DEF Fits
    <2> QED BY <1>1, <1>3, <2>3, <2>4, OwnStep
  <1>4. CASE SameRevision(w)
    <2> DEFINE n == FreshNonce(w, r)
               j == ReleasedJob(w)
               new == [row[r] EXCEPT !.acked = Merged(w), !.nonce = n]
    <2>1. row' = [row EXCEPT ![r] = new] /\ ToRelease(w)
      BY <1>4 DEF RecordCommit
    <2>2. /\ j \in Job /\ Fits(j) /\ Set(w, j) /\ j.step = "release" /\ j.row = r
      BY <1>1, <2>1, ReleasedFits
    <2>3. row[r] \in Row
      BY <1>1, ExistsHasWrap DEF Fits
    <2>4. n \in Nonces
      BY <1>1, FreshNonceIsFresh
    <2>5. Merged(w) \in SUBSET Relays /\ row[r].acked \subseteq Merged(w)
      BY <1>1, <1>4 DEF Merged, SameRevision, Job, Fits
    <2> HIDE DEF n
    <2>6. /\ new \in Row /\ new.wrap = row[r].wrap /\ new.acked = Merged(w)
          /\ new.nonce = n
      BY <2>3, <2>4, <2>5 DEF Row
    <2> HIDE DEF new, j
    <2>7. /\ row' \in [Rows -> Row \cup {NoRow}] /\ row'[r] = new
          /\ \A q \in Rows \ {r} : row'[q] = row[q]
      BY <1>1, <2>1, <2>6 DEF TypeOK
    <2>8. /\ job' \in [Workers -> Job] /\ job'[w] = j
          /\ \A v \in Workers \ {w} : job'[v] = job[v]
      BY <1>1, <2>2, SetIsTyped
    <2>9. Exists(r) /\ \A q \in Rows : Exists(q)' <=> Exists(q)
      <3>1. Exists(r) /\ new # NoRow
        BY <1>1, <2>3, <2>6, ExistsHasWrap DEF Row, NoneAssumption
      <3> QED BY <1>1, <2>7, <3>1 DEF Exists
    <2>10. TypeOK'
      BY <1>1, <2>7, <2>8 DEF TypeOK
    <2>11. OneWrap'
      BY <1>1, <2>6, <2>7 DEF Inv, MessagesSafe, OneWrap
    <2>12. AckIsStored'
      <3>1. \A relay \in Merged(w) : copies[relay][r] # {}
        BY <1>1 DEF Merged, Fits
      <3> QED BY <1>1, <2>6, <2>7, <3>1 DEF Inv, MessagesSafe, AckIsStored
    <2>13. SelfBehindRecipient'
      <3>1. "self" \in Rows
        BY DEF Rows
      <3> QED BY <1>1, <2>9, <3>1 DEF Inv, MessagesSafe, SelfBehindRecipient
    <2>14. ASSUME NEW v \in Workers PROVE Fits(job[v])'
      <3>1. CASE v = w
        BY <1>1, <2>2, <2>8, <2>9, <3>1 DEF Fits
      <3>2. CASE v # w
        <4>1. job'[v] = job[v] /\ Fits(job[v]) /\ job[v] \in Job /\ job[v].row \in Rows
          BY <1>1, <2>8, <3>2 DEF Inv, AllFit, TypeOK, Job
        <4>2. CASE job[v].row = r
          <5>1. job[v].step = "commit" => job[v].nonce # n
            BY <1>1, <3>2, <4>2, FreshNonceIsFresh DEF n
          <5>2. row'[r].wrap = row[r].wrap /\ row'[r].nonce = n
            BY <2>6, <2>7
          <5> QED BY <1>1, <2>9, <4>1, <4>2, <5>1, <5>2 DEF Fits
        <4>3. CASE job[v].row # r
          <5>1. row'[job[v].row] = row[job[v].row]
            BY <2>7, <4>1, <4>3
          <5> QED BY <1>1, <4>1, <5>1 DEF Fits, Exists
        <4> QED BY <4>2, <4>3
      <3> QED BY <3>1, <3>2
    <2>15. Inv'
      BY <2>10, <2>11, <2>12, <2>13, <2>14 DEF Inv, MessagesSafe, AllFit
    <2>16. \A q \in Rows : row[q].acked \subseteq row'[q].acked
      BY <2>5, <2>6, <2>7
    <2> QED BY <2>15, <2>16
  <1>5. SameRevision(w) \/ row' = row
    BY DEF RecordCommit
  <1> QED
    <2>1. CASE SameRevision(w)
      BY <1>4, <2>1
    <2>2. CASE ~SameRevision(w)
      <3>1. CASE job[w].tries + 1 < MaxTries
        BY <1>3, <2>2, <3>1 DEF RecordCommit
      <3>2. CASE ~(job[w].tries + 1 < MaxTries)
        BY <1>2, <2>2, <3>2 DEF RecordCommit
      <3>3. Inv' /\ row' = row
        BY <1>5, <2>2, <3>1, <3>2
      <3> QED BY <3>3
    <2> QED BY <2>1, <2>2

\* The sender's own copy is next only when a relay was heard to have the message.
LEMMA ReleaseInv ==
  ASSUME ParameterAssumption, NoneAssumption, Inv, NEW w \in Workers,
         Release(w), frozen' = frozen
  PROVE  Inv'
  <1> DEFINE r == job[w].row
             own == [Idle EXCEPT !.step = "stage", !.fresh = TRUE, !.row = "self",
                                 !.wrap = w, !.targets = SelfRelays]
             new == [row[r] EXCEPT !.owner = None, !.ttl = 0]
  <1>1. /\ TypeOK /\ job[w] \in Job /\ r \in Rows /\ Fits(job[w])
        /\ job[w].step = "release" /\ copies' = copies
    BY DEF Inv, MessagesSafe, TypeOK, AllFit, Job, Release
  <1>2. row[r] \in Row
    BY <1>1, ExistsHasWrap DEF Fits
  <1>3. row' = row \/ row' = [row EXCEPT ![r] = new]
    BY DEF Release
  <1>4. /\ new \in Row /\ new.wrap = row[r].wrap /\ new.acked = row[r].acked
        /\ new.nonce = row[r].nonce
    <2>1. 0 \in 0 .. Ttl
      BY DEF ParameterAssumption
    <2> QED BY <1>2, <2>1 DEF Row
  <1> HIDE DEF new
  <1>5. /\ row' \in [Rows -> Row \cup {NoRow}]
        /\ \A q \in Rows : /\ row'[q].wrap = row[q].wrap /\ row'[q].acked = row[q].acked
                           /\ row'[q].nonce = row[q].nonce
    <2>1. CASE row' = row
      BY <1>1, <2>1 DEF TypeOK
    <2>2. CASE row' = [row EXCEPT ![r] = new]
      BY <1>1, <1>4, <2>2 DEF TypeOK
    <2> QED BY <1>3, <2>1, <2>2
  <1>6. own \in Job /\ own.step = "stage" /\ own.row = "self" /\ own.wrap = w
        /\ own.got = {} /\ own.seen = {}
    <2>1. SelfRelays \subseteq Relays
      BY DEF ParameterAssumption
    <2> QED BY <2>1, IdleFits DEF Job, Steps, Rows
  <1>7. PICK j \in {Idle, own} : Set(w, j) /\ (j = own => Proceeds(w))
    <2>1. Idle # own
      BY <1>6, IdleFits
    <2>2. CASE End(w)
      BY <2>1, <2>2 DEF End
    <2>3. CASE Proceeds(w) /\ Set(w, own)
      BY <2>3
    <2> QED BY <2>2, <2>3 DEF Release
  <1> HIDE DEF own
  <1>8. Proceeds(w) => Fits(own)
    <2> SUFFICES ASSUME Proceeds(w) PROVE Fits(own)
      OBVIOUS
    <2>1. \E relay \in Relays : copies[relay]["main"] # {}
      BY <1>1 DEF Proceeds, Fits, Job
    <2> QED BY <1>6, <2>1 DEF Fits
  <1>9. j \in Job /\ Fits(j)
    BY <1>6, <1>7, <1>8, IdleFits
  <1>10. /\ job' \in [Workers -> Job] /\ job'[w] = j
         /\ \A v \in Workers \ {w} : job'[v] = job[v]
    BY <1>1, <1>7, <1>9, SetIsTyped
  <1>11. \A v \in Workers : Fits(job'[v])
    BY <1>9, <1>10 DEF Inv, AllFit
  <1> QED BY <1>1, <1>5, <1>10, <1>11, QuietStep DEF TypeOK

\* Time passes for claims and heartbeats alone.
LEMMA TickInv ==
  ASSUME ParameterAssumption, NoneAssumption, Inv, Tick
  PROVE  Inv'
  <1>1. TypeOK /\ frozen' = frozen /\ copies' = copies
    BY DEF Inv, MessagesSafe, Tick
  <1>2. /\ row' \in [Rows -> Row \cup {NoRow}]
        /\ \A q \in Rows : /\ row'[q].wrap = row[q].wrap /\ row'[q].acked = row[q].acked
                           /\ row'[q].nonce = row[q].nonce
    <2> SUFFICES ASSUME NEW q \in Rows
                 PROVE  /\ row'[q] \in Row \cup {NoRow}
                        /\ row'[q].wrap = row[q].wrap /\ row'[q].acked = row[q].acked
                        /\ row'[q].nonce = row[q].nonce
      BY DEF Tick
    <2>1. row'[q] = IF row[q].ttl > 0 THEN [row[q] EXCEPT !.ttl = @ - 1] ELSE row[q]
      BY DEF Tick
    <2>2. CASE row[q].ttl > 0
      <3>1. row[q] \in Row
        BY <1>1, <2>2, ExistsHasWrap
      <3>2. row[q].ttl - 1 \in 0 .. Ttl
        BY <2>2, <3>1 DEF Row, ParameterAssumption
      <3> QED BY <2>1, <2>2, <3>1, <3>2 DEF Row
    <2>3. CASE ~(row[q].ttl > 0)
      BY <1>1, <2>1, <2>3 DEF TypeOK
    <2> QED BY <2>2, <2>3
  <1>3. ASSUME NEW v \in Workers PROVE job'[v] \in Job /\ Fits(job'[v])
    <2> DEFINE due == Holding(v)
               missed == job[v].missed \/ v \in frozen
    <2>1. job[v] \in Job /\ Fits(job[v])
      BY <1>1 DEF Inv, AllFit, TypeOK
    <2>2. due \in BOOLEAN /\ missed \in BOOLEAN
      BY <2>1 DEF Job, Holding
    <2>3. job'[v] = [job[v] EXCEPT !.due = due, !.missed = missed]
      BY DEF Tick
    <2> HIDE DEF due, missed
    <2>4. /\ job'[v] \in Job /\ job'[v].step = job[v].step /\ job'[v].row = job[v].row
          /\ job'[v].wrap = job[v].wrap /\ job'[v].got = job[v].got
          /\ job'[v].seen = job[v].seen /\ job'[v].nonce = job[v].nonce
      BY <2>1, <2>2, <2>3 DEF Job
    <2> QED BY <2>1, <2>4 DEF Fits
  <1>4. job' \in [Workers -> Job]
    BY <1>3 DEF Tick
  <1> QED BY <1>1, <1>2, <1>3, <1>4, QuietStep DEF TypeOK

\* The rest lets go of a record, or freezes a tab.
LEMMA NextInv == ASSUME ParameterAssumption, NoneAssumption, Inv, Next PROVE Inv'
  <1>1. ASSUME NEW w \in Workers, Worker(w) PROVE Inv'
    <2>1. frozen' = frozen
      BY <1>1 DEF Worker
    <2>2. CASE Wrap(w)
      BY <2>1, <2>2, WrapInv
    <2>3. CASE Stage(w)
      BY <2>1, <2>3, StageInv
    <2>4. CASE Hold(w)
      BY <2>1, <2>4, HoldInv
    <2>5. CASE Heartbeat(w)
      BY <2>1, <2>5, HeartbeatInv
    <2>6. CASE Publish(w)
      BY <2>1, <2>6, PublishInv
    <2>7. CASE RecordRead(w)
      BY <2>1, <2>7, RecordReadInv
    <2>8. CASE RecordCommit(w)
      BY <2>1, <2>8, RecordCommitInv
    <2>9. CASE Release(w)
      BY <2>1, <2>9, ReleaseInv
    <2>10. CASE Crash(w)
      BY <2>1, <2>10, IdleFits, OwnStep DEF Crash, End
    <2>11. CASE \E r \in Rows, replay \in BOOLEAN : Claim(w, r, replay)
      BY <2>1, <2>11, ClaimInv
    <2> QED BY <1>1, <2>2, <2>3, <2>4, <2>5, <2>6, <2>7, <2>8, <2>9, <2>10, <2>11
            DEF Worker
  <1>2. ASSUME NEW w \in Workers, Freeze(w) \/ Thaw(w) PROVE Inv'
    <2>1. /\ row' = row /\ job' = job /\ copies' = copies /\ frozen' \subseteq Workers
      BY <1>2 DEF Freeze, Thaw, Inv, MessagesSafe, TypeOK
    <2> QED BY <2>1, QuietStep DEF Inv, MessagesSafe, TypeOK, AllFit
  <1>3. CASE Tick
    BY <1>3, TickInv
  <1> QED BY <1>1, <1>2, <1>3 DEF Next

LEMMA StutterInv == ASSUME Inv, UNCHANGED vars PROVE Inv'
  <1>1. row' = row /\ job' = job /\ frozen' = frozen /\ copies' = copies
    BY DEF vars
  <1>2. TypeOK' /\ OneWrap' /\ AckIsStored' /\ SelfBehindRecipient'
    BY <1>1 DEF Inv, MessagesSafe, TypeOK, OneWrap, AckIsStored, SelfBehindRecipient,
               Exists
  <1>3. AllFit'
    BY <1>1 DEF Inv, AllFit, Fits, Exists
  <1> QED BY <1>2, <1>3 DEF Inv, MessagesSafe

LEMMA AlwaysInv == ASSUME ParameterAssumption, NoneAssumption PROVE Spec => []Inv
  <1>1. Init => Inv
    BY InitInv
  <1>2. Inv /\ [Next]_vars => Inv'
    BY NextInv, StutterInv
  <1> QED BY <1>1, <1>2, PTL DEF Spec

-----------------------------------------------------------------------------
(* The theorems.                                                           *)

\* However many tabs send, retry, freeze and go away: relays see the one ciphertext
\* that was staged (stagePrivateDelivery), an acknowledgement on record is a relay
\* that has the message, and the sender's own copy comes behind the recipient's.
THEOREM MessagesAreSafe ==
  ASSUME ParameterAssumption, NoneAssumption PROVE Spec => []MessagesSafe
  <1>1. Inv => MessagesSafe
    BY DEF Inv
  <1> QED BY <1>1, AlwaysInv, PTL

\* recordPrivateDelivery merges: no acknowledgement on record is lost to a tab that
\* read the row before.
THEOREM AcksAreKept ==
  ASSUME ParameterAssumption, NoneAssumption PROVE Spec => AckKept
  <1>1. Inv /\ [Next]_vars => [\A r \in Rows : row[r].acked \subseteq row'[r].acked]_vars
    <2> SUFFICES ASSUME Inv, Next
                 PROVE  \A r \in Rows : row[r].acked \subseteq row'[r].acked
      OBVIOUS
    <2>1. TypeOK
      BY DEF Inv, MessagesSafe
    <2>2. CASE \E w \in Workers : RecordCommit(w) /\ frozen' = frozen
      BY <2>2, RecordCommitInv
    <2>3. CASE \E w \in Workers : Stage(w)
      <3>1. PICK w \in Workers : Stage(w)
        BY <2>3
      <3>2. job[w].row \in Rows
        BY <2>1 DEF TypeOK, Job
      <3>3. CASE StagedBefore(job[w].row)
        BY <3>1, <3>3 DEF Stage
      <3>4. CASE ~StagedBefore(job[w].row)
        <4>1. row[job[w].row].acked = {}
          BY <2>1, <3>2, <3>4, ExistsHasWrap DEF StagedBefore
        <4>2. \A r \in Rows \ {job[w].row} : row'[r] = row[r]
          BY <2>1, <3>1, <3>4 DEF Stage, TypeOK
        <4> QED BY <4>1, <4>2
      <3> QED BY <3>3, <3>4
    <2>4. CASE \E w \in Workers, r \in Rows, replay \in BOOLEAN : Claim(w, r, replay)
      <3>1. PICK w \in Workers, r \in Rows, replay \in BOOLEAN : Claim(w, r, replay)
        BY <2>4
      <3>2. row[r] \in Row
        BY <2>1, <3>1, ExistsHasWrap DEF Claim, Claimable
      <3>3. row' = [row EXCEPT ![r].owner = w, ![r].ttl = Ttl]
        BY <3>1 DEF Claim
      <3>4. row'[r].acked = row[r].acked /\ \A q \in Rows \ {r} : row'[q] = row[q]
        BY <2>1, <3>2, <3>3 DEF TypeOK, Row
      <3> QED BY <3>4
    <2>5. CASE \E w \in Workers : Heartbeat(w)
      <3>1. PICK w \in Workers : Heartbeat(w)
        BY <2>5
      <3>2. row' = row \/ row' = [row EXCEPT ![job[w].row] = Renewed(job[w].row)]
        BY <3>1 DEF Heartbeat
      <3>3. Renewed(job[w].row).acked = row[job[w].row].acked
        <4>1. job[w].row \in Rows /\ Exists(job[w].row)
          BY <2>1, <3>1 DEF TypeOK, Job, Inv, AllFit, Fits, Heartbeat, Holding
        <4>2. row[job[w].row] \in Row
          BY <2>1, <4>1, ExistsHasWrap
        <4> QED BY <4>2 DEF Renewed, Row
      <3> QED BY <2>1, <3>2, <3>3 DEF TypeOK
    <2>6. CASE \E w \in Workers : Release(w)
      <3>1. PICK w \in Workers : Release(w)
        BY <2>6
      <3>2. job[w].row \in Rows /\ Exists(job[w].row)
        BY <2>1, <3>1 DEF TypeOK, Job, Inv, AllFit, Fits, Release
      <3>3. row[job[w].row] \in Row
        BY <2>1, <3>2, ExistsHasWrap
      <3>4. \/ row' = row
            \/ row' = [row EXCEPT ![job[w].row].owner = None, ![job[w].row].ttl = 0]
        BY <3>1 DEF Release
      <3>5. CASE row' = [row EXCEPT ![job[w].row].owner = None, ![job[w].row].ttl = 0]
        <4>1. /\ row'[job[w].row].acked = row[job[w].row].acked
              /\ \A q \in Rows \ {job[w].row} : row'[q] = row[q]
          BY <2>1, <3>2, <3>3, <3>5 DEF TypeOK, Row
        <4> QED BY <4>1
      <3> QED BY <3>4, <3>5
    <2>7. CASE Tick
      <3> SUFFICES ASSUME NEW q \in Rows PROVE row[q].acked \subseteq row'[q].acked
        OBVIOUS
      <3>1. row'[q] = IF row[q].ttl > 0 THEN [row[q] EXCEPT !.ttl = @ - 1] ELSE row[q]
        BY <2>7 DEF Tick
      <3>2. CASE row[q].ttl > 0
        <4>1. row[q] \in Row
          BY <2>1, <3>2, ExistsHasWrap
        <4> QED BY <3>1, <3>2, <4>1 DEF Row
      <3>3. CASE ~(row[q].ttl > 0)
        BY <3>1, <3>3
      <3> QED BY <3>2, <3>3
    <2>8. CASE row' = row
      BY <2>8
    <2>9. \/ \E w \in Workers : RecordCommit(w) /\ frozen' = frozen
          \/ \E w \in Workers : Stage(w)
          \/ \E w \in Workers, r \in Rows, replay \in BOOLEAN : Claim(w, r, replay)
          \/ \E w \in Workers : Heartbeat(w)
          \/ \E w \in Workers : Release(w)
          \/ Tick
          \/ row' = row
      BY DEF Next, Worker, Wrap, Hold, Publish, RecordRead, Crash, Freeze, Thaw
    <2> QED BY <2>2, <2>3, <2>4, <2>5, <2>6, <2>7, <2>8, <2>9
  <1> QED BY <1>1, AlwaysInv, PTL DEF Spec, AckKept

-----------------------------------------------------------------------------
(* While no tab freezes.                                                   *)

AtRow == {"hold", "publish", "read", "commit", "release"}

\* Whoever is about to hold a row, or holds it, owns it; its claim has the full term
\* but for the heartbeat that is due.
Owns(w) ==
  /\ job[w].step \in AtRow =>
       /\ row[job[w].row].owner = w
       /\ row[job[w].row].ttl = IF job[w].due THEN Ttl - 1 ELSE Ttl
       /\ job[w].step # "hold" => job[w].owner = w
  /\ job[w].step # "idle" => ~job[w].lost
  /\ job[w].step \in {"stage", "hold"} => ~job[w].due

Owning == frozen = {} /\ \A w \in Workers : Owns(w)

\* Two workers are never at one row.
LEMMA OwnersApart ==
  ASSUME Owning, NEW v \in Workers, NEW w \in Workers,
         job[v].step \in AtRow, job[w].step \in AtRow, job[v].row = job[w].row
  PROVE  v = w
  BY DEF Owning, Owns

\* A step of one worker that owns what it is at afterwards, and that leaves the claims
\* of the others.
LEMMA OwnersStep ==
  ASSUME TypeOK, Owning, NEW w \in Workers, NEW j \in Job, Set(w, j), frozen' = frozen,
         Owns(w)',
         \A v \in Workers \ {w} : job[v].step \in AtRow =>
           /\ row'[job[v].row].owner = row[job[v].row].owner
           /\ row'[job[v].row].ttl = row[job[v].row].ttl
  PROVE  Owning'
  <1>1. \A v \in Workers \ {w} : job'[v] = job[v]
    BY SetIsTyped
  <1>2. ASSUME NEW v \in Workers \ {w} PROVE Owns(v)'
    BY <1>1 DEF Owning, Owns
  <1> QED BY <1>2 DEF Owning

\* Leaving a row, or going on at it, without touching its claim.
LEMMA OwnerGoesOn ==
  ASSUME TypeOK, Owning, NEW w \in Workers, NEW j \in Job, Set(w, j), frozen' = frozen,
         \A q \in Rows : row'[q].owner = row[q].owner /\ row'[q].ttl = row[q].ttl,
         \/ j.step = "idle"
         \/ j.step = "stage" /\ ~j.lost /\ ~j.due
         \/ /\ j.step \in AtRow \ {"hold"} /\ job[w].step \in AtRow \ {"hold"}
            /\ j.row = job[w].row /\ j.owner = job[w].owner
            /\ j.due = job[w].due /\ j.lost = job[w].lost
  PROVE  Owning'
  <1>1. job'[w] = j
    BY SetIsTyped
  <1>2. \A v \in Workers : job[v].row \in Rows
    BY DEF TypeOK, Job
  <1>3. Owns(w) /\ j.step # "hold"
    BY DEF Owning, AtRow
  <1>4. Owns(w)'
    <2>1. CASE j.step = "idle"
      BY <1>1, <2>1 DEF Owns, AtRow
    <2>2. CASE j.step = "stage" /\ ~j.lost /\ ~j.due
      BY <1>1, <2>2 DEF Owns, AtRow
    <2>3. CASE /\ j.step \in AtRow \ {"hold"} /\ job[w].step \in AtRow \ {"hold"}
               /\ j.row = job[w].row /\ j.owner = job[w].owner
               /\ j.due = job[w].due /\ j.lost = job[w].lost
      <3>1. j.step # "stage" /\ j.step # "idle" /\ job[w].step # "idle"
        BY <2>3 DEF AtRow
      <3> QED BY <1>1, <1>2, <1>3, <2>3, <3>1 DEF Owns
    <2> QED BY <2>1, <2>2, <2>3
  <1> QED BY <1>2, <1>4, OwnersStep

LEMMA OwningInit == ASSUME ParameterAssumption, Init PROVE Owning
  BY IdleFits DEF Init, Owning, Owns, AtRow

LEMMA OwningNext ==
  ASSUME ParameterAssumption, NoneAssumption, Inv, Owning, AttentiveNext PROVE Owning'
  <1>1. /\ TypeOK /\ frozen = {} /\ frozen' = {}
        /\ \A w \in Workers : job[w] \in Job /\ job[w].row \in Rows /\ Fits(job[w]) /\ Owns(w)
    BY DEF Inv, MessagesSafe, TypeOK, Owning, AttentiveNext, Job, AllFit
  <1>2. Ttl \in Nat /\ Ttl > 1 /\ Ttl - 1 # Ttl
    BY DEF ParameterAssumption
  <1>3. ASSUME NEW w \in Workers, Worker(w) PROVE Owning'
    <2> DEFINE r == job[w].row
    <2>1. /\ job[w] \in Job /\ r \in Rows /\ Fits(job[w]) /\ Owns(w) /\ frozen' = frozen
      BY <1>1
    <2>2. CASE Wrap(w)
      <3> DEFINE j == [Idle EXCEPT !.step = "stage", !.fresh = TRUE, !.wrap = w,
                                   !.targets = Relays]
      <3>1. j \in Job /\ j.step = "stage" /\ ~j.lost /\ ~j.due
        BY IdleFits DEF Job, Steps, Idle
      <3>2. Set(w, j) /\ row' = row
        BY <2>2 DEF Wrap
      <3> HIDE DEF j
      <3> QED BY <1>1, <2>1, <3>1, <3>2, OwnerGoesOn
    <2>3. CASE Stage(w)
      <3>1. CASE StagedBefore(r)
        <4>1. Set(w, Idle) /\ row' = row
          BY <2>3, <3>1 DEF Stage, End
        <4> QED BY <1>1, <2>1, <4>1, IdleFits, OwnerGoesOn
      <3>2. CASE ~StagedBefore(r)
        <4> DEFINE new == [NoRow EXCEPT !.wrap = job[w].wrap, !.owner = w, !.ttl = Ttl]
                   j == [job[w] EXCEPT !.step = "hold"]
        <4>1. row' = [row EXCEPT ![r] = new] /\ Set(w, j)
          BY <2>3, <3>2 DEF Stage, Goto
        <4>2. new.owner = w /\ new.ttl = Ttl
          BY DEF NoRow
        <4>3. /\ j \in Job /\ j.step = "hold" /\ j.row = r /\ j.due = job[w].due
              /\ j.lost = job[w].lost
          BY <2>1 DEF Job, Steps
        <4> HIDE DEF new, j
        <4>4. row'[r] = new /\ \A q \in Rows \ {r} : row'[q] = row[q]
          BY <1>1, <2>1, <4>1 DEF TypeOK
        <4>5. job'[w] = j
          BY <1>1, <4>1, <4>3, SetIsTyped
        <4>6. Owns(w)'
          BY <2>1, <2>3, <4>2, <4>3, <4>4, <4>5 DEF Owns, Stage
        <4>7. \A v \in Workers : job[v].step \in AtRow => job[v].row # r
          BY <1>1, <3>2 DEF Fits, AtRow, StagedBefore
        <4> QED BY <1>1, <2>1, <4>1, <4>3, <4>4, <4>6, <4>7, OwnersStep
      <3> QED BY <3>1, <3>2
    <2>4. CASE Hold(w)
      <3>1. row[r].owner = w /\ w # None
        BY <2>1, <2>4 DEF Owns, Hold, AtRow, NoneAssumption
      <3> DEFINE j == [job[w] EXCEPT !.step = "publish", !.owner = w, !.due = FALSE]
      <3>2. Set(w, j) /\ row' = row
        BY <2>4, <3>1 DEF Hold
      <3>3. /\ j \in Job /\ j.step = "publish" /\ j.row = r /\ j.owner = w /\ ~j.due
            /\ j.lost = job[w].lost
        BY <2>1 DEF Job, Steps
      <3> HIDE DEF j
      <3>4. job'[w] = j
        BY <1>1, <3>2, <3>3, SetIsTyped
      <3>5. Owns(w)'
        BY <2>1, <2>4, <3>1, <3>2, <3>3, <3>4 DEF Owns, Hold, AtRow
      <3> QED BY <1>1, <2>1, <3>2, <3>3, <3>5, OwnersStep
    <2>5. CASE Heartbeat(w)
      <3>1. /\ ~job[w].lost /\ row[r].owner = w /\ job[w].owner = w /\ job[w].due
            /\ job[w].step \in AtRow \ {"hold"}
        BY <2>1, <2>5 DEF Owns, Heartbeat, Holding, AtRow
      <3> DEFINE j == [job[w] EXCEPT !.due = FALSE]
      <3>2. Set(w, j) /\ row' = [row EXCEPT ![r] = Renewed(r)]
        BY <2>5, <3>1 DEF Heartbeat
      <3>3. /\ j \in Job /\ j.step = job[w].step /\ j.row = r /\ j.owner = w /\ ~j.due
            /\ ~j.lost
        BY <2>1, <3>1 DEF Job
      <3> HIDE DEF j
      <3>4. job'[w] = j
        BY <1>1, <3>2, <3>3, SetIsTyped
      <3>5. Renewed(r).owner = w /\ Renewed(r).ttl = Ttl
        <4>1. Exists(r)
          BY <2>1, <3>1 DEF Fits, AtRow
        <4>2. row[r] \in Row
          BY <1>1, <2>1, <4>1, ExistsHasWrap
        <4> QED BY <3>1, <4>2 DEF Renewed, Row
      <3>6. row'[r] = Renewed(r) /\ \A q \in Rows \ {r} : row'[q] = row[q]
        BY <1>1, <2>1, <3>2 DEF TypeOK
      <3>7. Owns(w)'
        BY <3>1, <3>3, <3>4, <3>5, <3>6 DEF Owns, AtRow
      <3>8. \A v \in Workers \ {w} : job[v].step \in AtRow => job[v].row # r
        BY <3>1, OwnersApart
      <3> QED BY <1>1, <2>1, <3>2, <3>3, <3>6, <3>7, <3>8, OwnersStep
    <2>6. CASE Publish(w)
      <3>1. CASE ToRelease(w)
        <4>1. /\ ReleasedJob(w) \in Job /\ Set(w, ReleasedJob(w))
              /\ ReleasedJob(w).step = "release" /\ ReleasedJob(w).row = r
              /\ ReleasedJob(w).owner = job[w].owner /\ ReleasedJob(w).due = job[w].due
              /\ ReleasedJob(w).lost = job[w].lost
          BY <2>6, <3>1, ReleasedFits DEF Publish
        <4> QED BY <1>1, <2>1, <2>6, <4>1, OwnerGoesOn DEF Publish, AtRow
      <3>2. CASE \E heard \in SUBSET Relays :
                   Set(w, [job[w] EXCEPT !.step = "read", !.targets = {},
                                         !.wrap = None, !.got = heard])
        <4>1. PICK heard \in SUBSET Relays :
                Set(w, [job[w] EXCEPT !.step = "read", !.targets = {},
                                      !.wrap = None, !.got = heard])
          BY <3>2
        <4> DEFINE j == [job[w] EXCEPT !.step = "read", !.targets = {},
                                       !.wrap = None, !.got = heard]
        <4>2. /\ j \in Job /\ j.step = "read" /\ j.row = r /\ j.owner = job[w].owner
              /\ j.due = job[w].due /\ j.lost = job[w].lost
          BY <2>1 DEF Job, Steps
        <4>3. Set(w, j) /\ row' = row /\ job[w].step = "publish"
          BY <2>6, <4>1 DEF Publish
        <4> HIDE DEF j
        <4> QED BY <1>1, <2>1, <4>2, <4>3, OwnerGoesOn DEF AtRow
      <3>3. ToRelease(w) \/ \E heard \in SUBSET Relays :
                   Set(w, [job[w] EXCEPT !.step = "read", !.targets = {},
                                         !.wrap = None, !.got = heard])
        <4>1. job[w].targets \subseteq Relays
          BY <2>1 DEF Job
        <4> QED BY <2>6, <4>1 DEF Publish
      <3> QED BY <3>1, <3>2, <3>3
    <2>7. CASE RecordRead(w)
      <3> DEFINE j == [job[w] EXCEPT !.step = "commit", !.seen = row[r].acked,
                                     !.nonce = row[r].nonce]
      <3>1. Set(w, j) /\ row' = row /\ job[w].step = "read"
        BY <2>7 DEF RecordRead
      <3>2. row[r] \in Row
        BY <1>1, <2>1, <3>1, ExistsHasWrap DEF Fits
      <3>3. /\ j \in Job /\ j.step = "commit" /\ j.row = r /\ j.owner = job[w].owner
            /\ j.due = job[w].due /\ j.lost = job[w].lost
        BY <2>1, <3>2 DEF Job, Row, Steps
      <3> HIDE DEF j
      <3> QED BY <1>1, <2>1, <3>1, <3>3, OwnerGoesOn DEF AtRow
    <2>8. CASE RecordCommit(w)
      <3>1. /\ ReleasedJob(w) \in Job /\ (ToRelease(w) <=> Set(w, ReleasedJob(w)))
            /\ ReleasedJob(w).step = "release" /\ ReleasedJob(w).row = r
            /\ ReleasedJob(w).owner = job[w].owner /\ ReleasedJob(w).due = job[w].due
            /\ ReleasedJob(w).lost = job[w].lost
        BY <2>8, ReleasedFits DEF RecordCommit
      <3> DEFINE again == [job[w] EXCEPT !.step = "read", !.tries = @ + 1]
      <3>2. job[w].step = "commit" /\ row[r] \in Row
        BY <1>1, <2>1, <2>8, ExistsHasWrap DEF Fits, RecordCommit
      <3>3. job[w].tries + 1 < MaxTries =>
              /\ again \in Job /\ again.step = "read" /\ again.row = r
              /\ again.owner = job[w].owner /\ again.due = job[w].due
              /\ again.lost = job[w].lost
        <4>1. job[w].tries \in 0 .. MaxTries /\ MaxTries \in Nat
          BY <2>1 DEF Job, ParameterAssumption
        <4>2. job[w].tries + 1 < MaxTries => job[w].tries + 1 \in 0 .. MaxTries
          BY <4>1
        <4> QED BY <2>1, <4>2 DEF Job, Steps
      <3>4. \A q \in Rows : row'[q].owner = row[q].owner /\ row'[q].ttl = row[q].ttl
        <4>1. CASE SameRevision(w)
          <5>1. row' = [row EXCEPT ![r].acked = Merged(w), ![r].nonce = FreshNonce(w, r)]
            BY <2>8, <4>1 DEF RecordCommit
          <5> QED BY <1>1, <2>1, <3>2, <5>1 DEF TypeOK, Row
        <4>2. CASE ~SameRevision(w)
          BY <2>8, <4>2 DEF RecordCommit
        <4> QED BY <4>1, <4>2
      <3>5. ToRelease(w) \/ (job[w].tries + 1 < MaxTries /\ Set(w, again))
        BY <2>8 DEF RecordCommit
      <3> HIDE DEF again
      <3>6. CASE ToRelease(w)
        BY <1>1, <2>1, <3>1, <3>2, <3>4, <3>6, OwnerGoesOn DEF AtRow
      <3>7. CASE job[w].tries + 1 < MaxTries /\ Set(w, again)
        BY <1>1, <2>1, <3>2, <3>3, <3>4, <3>7, OwnerGoesOn DEF AtRow
      <3> QED BY <3>5, <3>6, <3>7
    <2>9. CASE Release(w)
      <3> DEFINE own == [Idle EXCEPT !.step = "stage", !.fresh = TRUE, !.row = "self",
                                     !.wrap = w, !.targets = SelfRelays]
      <3>1. own \in Job /\ own.step = "stage" /\ ~own.lost /\ ~own.due
        <4>1. SelfRelays \subseteq Relays
          BY DEF ParameterAssumption
        <4> QED BY <4>1, IdleFits DEF Job, Steps, Rows, Idle
      <3>2. PICK j \in {Idle, own} : Set(w, j)
        BY <2>9 DEF Release, End
      <3> HIDE DEF own
      <3>3. j \in Job /\ (j.step = "idle" \/ (j.step = "stage" /\ ~j.lost /\ ~j.due))
        BY <3>1, <3>2, IdleFits
      <3>4. job'[w] = j
        BY <1>1, <3>2, <3>3, SetIsTyped
      <3>5. Owns(w)'
        BY <3>3, <3>4 DEF Owns, AtRow
      <3>6. \A v \in Workers \ {w} : job[v].step \in AtRow => job[v].row # r
        BY <2>9, OwnersApart DEF Release, AtRow
      <3>7. \A q \in Rows \ {r} : row'[q] = row[q]
        BY <1>1, <2>9 DEF Release, TypeOK
      <3> QED BY <1>1, <2>1, <3>2, <3>3, <3>5, <3>6, <3>7, OwnersStep
    <2>10. CASE Crash(w)
      <3>1. Set(w, Idle) /\ row' = row
        BY <2>10 DEF Crash, End
      <3> QED BY <1>1, <2>1, <3>1, IdleFits, OwnerGoesOn
    <2>11. ASSUME NEW q \in Rows, NEW replay \in BOOLEAN, Claim(w, q, replay)
           PROVE  Owning'
      <3> DEFINE targets == IF replay THEN RelaysOf(q) ELSE RelaysOf(q) \ row[q].acked
                 j == [Idle EXCEPT !.step = "hold", !.row = q, !.wrap = row[q].wrap,
                                   !.targets = targets]
      <3>1. /\ Set(w, j) /\ row' = [row EXCEPT ![q].owner = w, ![q].ttl = Ttl]
            /\ Exists(q) /\ ~Claimed(q)
        BY <2>11 DEF Claim, Claimable
      <3>2. row[q] \in Row /\ row[q].wrap \in Workers
        BY <1>1, <3>1, ExistsHasWrap
      <3>3. targets \in SUBSET Relays
        BY DEF RelaysOf, ParameterAssumption
      <3> HIDE DEF targets
      <3>4. j \in Job /\ j.step = "hold" /\ j.row = q /\ ~j.lost /\ ~j.due
        BY <3>2, <3>3, IdleFits DEF Job, Steps, Idle
      <3> HIDE DEF j
      <3>5. job'[w] = j
        BY <1>1, <3>1, <3>4, SetIsTyped
      <3>6. /\ row'[q].owner = w /\ row'[q].ttl = Ttl
            /\ \A p \in Rows \ {q} : row'[p] = row[p]
        BY <1>1, <3>1, <3>2 DEF TypeOK, Row
      <3>7. Owns(w)'
        BY <3>4, <3>5, <3>6 DEF Owns
      <3>8. \A v \in Workers : job[v].step \in AtRow => job[v].row # q
        <4> SUFFICES ASSUME NEW v \in Workers, job[v].step \in AtRow, job[v].row = q
                     PROVE  FALSE
          OBVIOUS
        <4>1. row[q].ttl = Ttl - 1 \/ row[q].ttl = Ttl
          BY <1>1 DEF Owns
        <4> QED BY <1>2, <3>1, <4>1 DEF Claimed
      <3> QED BY <1>1, <2>1, <3>1, <3>4, <3>6, <3>7, <3>8, OwnersStep
    <2> QED BY <1>3, <2>2, <2>3, <2>4, <2>5, <2>6, <2>7, <2>8, <2>9, <2>10, <2>11
            DEF Worker
  <1>4. CASE Tick
    <2>1. \A w \in Workers : job[w].step # "hold" /\ ~job[w].due
      BY <1>1, <1>4 DEF Tick
    <2> SUFFICES ASSUME NEW w \in Workers PROVE Owns(w)'
      BY <1>1 DEF Owning
    <2> DEFINE missed == job[w].missed \/ w \in frozen
    <2>2. job'[w] = [job[w] EXCEPT !.due = Holding(w), !.missed = missed]
      BY <1>4 DEF Tick
    <2>3. Holding(w) \in BOOLEAN /\ missed \in BOOLEAN
      BY <1>1 DEF Holding, Job
    <2> HIDE DEF missed
    <2>4. /\ job'[w].step = job[w].step /\ job'[w].row = job[w].row
          /\ job'[w].owner = job[w].owner /\ job'[w].lost = job[w].lost
          /\ job'[w].due = Holding(w)
      BY <1>1, <2>2, <2>3 DEF Job
    <2>5. CASE job[w].step \in AtRow
      <3> DEFINE r == job[w].row
      <3>1. /\ row[r].owner = w /\ row[r].ttl = Ttl /\ r \in Rows /\ Exists(r)
            /\ job[w].owner = w
        BY <1>1, <2>1, <2>5 DEF Owns, Fits, AtRow
      <3>2. row[r] \in Row
        BY <1>1, <3>1, ExistsHasWrap
      <3>3. row'[r].owner = w /\ row'[r].ttl = Ttl - 1
        <4>1. row'[r] = IF row[r].ttl > 0 THEN [row[r] EXCEPT !.ttl = @ - 1] ELSE row[r]
          BY <1>4, <3>1 DEF Tick
        <4>2. row[r].ttl > 0
          BY <1>2, <3>1
        <4> QED BY <3>1, <3>2, <4>1, <4>2 DEF Row
      <3>4. Holding(w)
        BY <2>1, <2>5 DEF Holding, AtRow
      <3> QED BY <1>1, <2>1, <2>4, <3>1, <3>3, <3>4, <2>5 DEF Owns, AtRow
    <2>6. CASE job[w].step \notin AtRow
      BY <1>1, <2>4, <2>6 DEF Owns, AtRow, Holding
    <2> QED BY <2>5, <2>6
  <1>5. ASSUME NEW w \in Workers, Freeze(w) \/ Thaw(w) PROVE Owning'
    BY <1>1, <1>5 DEF Freeze, Thaw
  <1> QED BY <1>3, <1>4, <1>5 DEF AttentiveNext, Next

LEMMA OwningStutters == ASSUME Owning, UNCHANGED vars PROVE Owning'
  BY DEF vars, Owning, Owns

\* holdPrivateDeliveryClaim, while the browser freezes no tab: one worker at a time is
\* on a row, and "Keep a staged multi-leg send owned until its entire publish attempt
\* exits" holds.
THEOREM OwnedToTheEnd ==
  ASSUME ParameterAssumption, NoneAssumption
  PROVE  AttentiveSpec => [](OneHolder /\ OwnedUntilExit)
  <1>1. Init => Inv /\ Owning
    BY InitInv, OwningInit
  <1>2. Inv /\ Owning /\ [AttentiveNext]_vars => Inv' /\ Owning'
    BY NextInv, StutterInv, OwningNext, OwningStutters DEF AttentiveNext
  <1>3. Inv /\ Owning => OneHolder /\ OwnedUntilExit
    <2> SUFFICES ASSUME Inv, Owning PROVE OneHolder /\ OwnedUntilExit
      OBVIOUS
    <2>1. ASSUME NEW w \in Workers, Holding(w)
          PROVE  job[w].step \in AtRow \ {"hold"}
      BY <2>1 DEF Holding, AtRow
    <2>2. OneHolder
      BY <2>1, OwnersApart DEF OneHolder
    <2>3. OwnedUntilExit
      <3> SUFFICES ASSUME NEW w \in Workers, Holding(w)
                   PROVE  row[job[w].row].owner = job[w].owner /\ Claimed(job[w].row)
        BY DEF OwnedUntilExit
      <3>1. /\ row[job[w].row].owner = w /\ job[w].owner = w
            /\ row[job[w].row].ttl = Ttl - 1 \/ row[job[w].row].ttl = Ttl
        BY <2>1 DEF Owning, Owns
      <3>2. Ttl - 1 > 0 /\ Ttl > 0
        BY DEF ParameterAssumption
      <3> QED BY <3>1, <3>2 DEF Claimed
    <2> QED BY <2>2, <2>3
  <1> QED BY <1>1, <1>2, <1>3, PTL DEF AttentiveSpec

-----------------------------------------------------------------------------
(* The inductive invariant of InboxCutover, with each tab's job as plan.    *)

\* An instance has operators of FiniteSets of its own; they are the same ones.
LEMMA SameFinite ==
  \A S : Inbox!IsFiniteSet(S) <=> IsFiniteSet(S)
BY DEF Inbox!IsFiniteSet, IsFiniteSet

LEMMA SameCardinality ==
  \A S : Inbox!Cardinality(S) = Cardinality(S)
BY DEF Inbox!Cardinality, Cardinality

\* Relay r has had declaration e.
Had(past, e, r) == <<e, r>> \in past \/ (e = Inbox!Genesis /\ r \in Shared)

\* An attempt counts only what a relay had.
AttemptOK(past, y, e) ==
  /\ y.seen \subseteq y.done /\ y.done \subseteq y.plan
  /\ \A r \in y.seen : Had(past, e, r)

\* Grace begins when a relay had the replacement, which a device of the account signed.
CutoverOK(past, c) ==
  /\ c.ev.by \in Devices
  /\ \A y \in c.tries : AttemptOK(past, y, c.ev)
  /\ c.phase # "awaiting" => \E r \in Shared : Had(past, c.ev, r)

\* The pending delivery is of the current declaration and what it read back is true;
\* every cutover is of a declaration that was current once.
EvidenceOK(past, known) ==
  /\ known \in Inbox!Evidence
  /\ known.pend # None => /\ known.pend.ev = known.cur
                          /\ \A r \in Inbox!Observed(known.pend) : Had(past, known.cur, r)
  /\ \A a, b \in known.recs : a.ev = b.ev => a = b
  /\ \A c \in known.recs : CutoverOK(past, c) /\ (c.ev = known.cur \/ Inbox!Newer(known.cur, c.ev))

\* What a tab holds was true when it was read, and stays so.
JobOK(past, j) ==
  /\ j.st = "signed" /\ j.changed => j.ev \in Inbox!Declaration /\ j.ev.by \in Devices
  /\ j.st \in {"publishing", "confirming", "answered"} =>
       /\ j.ev \in Inbox!Declaration
       /\ \A o \in j.out : o[2] = "observed" => Had(past, j.ev, o[1])
  /\ j.st = "fetched" => /\ IsFiniteSet(j.got) /\ j.got # {}
                         /\ \A g \in j.got : Had(past, g[1], g[2])
  /\ j.st = "checked" => j.plan = {}

\* A replaced inbox has its cutover, unless the owner removed it.
OwedOK(known, owing) ==
  \A o \in owing : \E c \in known.recs : c.ev = o.ev /\ o.inbox \in c.old \ c.blocked

RelaysOK(past, now) == \A r \in Inbox!AllRelays : now[r] # None => Had(past, now[r], r)

IInv ==
  /\ Inbox!TypeOK
  /\ \A d \in Devices : EvidenceOK(took, db[d]) /\ OwedOK(db[d], owed[d])
  /\ \A t \in Tabs : JobOK(took, plan[t])
  /\ RelaysOK(took, held)

-----------------------------------------------------------------------------
(* What evidence may become.                                               *)

\* The same cutover, maybe further.
SameChange(x, c) == x.ev = c.ev /\ x.old = c.old /\ x.blocked = c.blocked

\* Nothing is taken back of a delivery that is not over.
Keeps(p, q) ==
  \/ q = None
  \/ /\ p # None /\ q.ev = p.ev /\ q.plan = p.plan
     /\ p.acked \subseteq q.acked /\ Inbox!Observed(p) \subseteq Inbox!Observed(q)

\* Evidence b comes after evidence a: nothing is lost but a delivery that is over.
Follows(a, b) ==
  /\ b.cur = a.cur \/ Inbox!Newer(b.cur, a.cur)
  /\ b.excl = a.excl
  /\ Keeps(a.pend, b.pend)
  /\ \A c \in a.recs : \E x \in b.recs : SameChange(x, c)

(* Natural numbers: a set with 0 and every successor has them all.         *)

Below == {ss \in Nat \X Nat : ss[1] < ss[2]}

LEMMA Least ==
  ASSUME NEW T, T \subseteq Nat, T # {}
  PROVE  \E x \in T : \A y \in T : x <= y
<1>1. IsWellFoundedOn(Below, Nat)
  BY NatLessThanWellFounded DEF OpToRel, Below
<1>2. PICK x \in T : \A y \in T : ~ (<<y, x>> \in Below)
  BY <1>1, WFMin
<1>3. ASSUME NEW y \in T PROVE x <= y
  <2>1. x \in Nat /\ y \in Nat
    OBVIOUS
  <2>2. <<y, x>> \in Nat \X Nat /\ <<y, x>>[1] = y /\ <<y, x>>[2] = x
    BY <2>1
  <2>3. ~ (y < x)
    BY <1>2, <2>2 DEF Below
  <2> QED
    BY <2>1, <2>3
<1> QED
  BY <1>3

LEMMA Induct ==
  ASSUME NEW S, 0 \in S, \A n \in Nat : n \in S => n + 1 \in S
  PROVE  \A n \in Nat : n \in S
<1> DEFINE T == {n \in Nat : n \notin S}
<1> SUFFICES ASSUME T # {} PROVE FALSE
  OBVIOUS
<1>1. PICK x \in T : \A y \in T : x <= y
  <2> HIDE DEF T
  <2>1. T \subseteq Nat
    BY DEF T
  <2> QED
    BY <2>1, Least
<1>2. x \in Nat /\ x # 0 /\ x - 1 \in Nat /\ x - 1 \notin T
  BY <1>1
<1> QED
  BY <1>1, <1>2

-----------------------------------------------------------------------------
-----------------------------------------------------------------------------
(* The order of declarations.                                              *)

LEMMA NewerThan ==
  ASSUME Inbox!CutoverAssumption, NEW a \in Inbox!Declaration, NEW b \in Inbox!Declaration
  PROVE  /\ Inbox!Newer(a, b) => a # b /\ ~ Inbox!Newer(b, a)
         /\ \A c \in Inbox!Declaration : Inbox!Newer(a, b) /\ Inbox!Newer(b, c) => Inbox!Newer(a, c)
<1>1. \A x \in Inbox!Declaration : x.at \in Nat /\ x.by \in Devices \cup {Other} /\ Order[x.by] \in Nat
  BY DEF Inbox!CutoverAssumption, Inbox!Declaration
<1> QED
  BY <1>1 DEF Inbox!Newer

LEMMA GenesisIs ==
  ASSUME Inbox!CutoverAssumption
  PROVE  /\ Inbox!Genesis \in Inbox!Declaration /\ Inbox!Genesis.by = Other
         /\ None \notin Inbox!Declaration /\ None \notin Inbox!Delivery
BY DEF Inbox!CutoverAssumption, Inbox!Genesis, Inbox!Declaration

-----------------------------------------------------------------------------
(* A cutover's attempts.                                                   *)

LEMMA WithTries ==
  ASSUME NEW past, NEW c \in Inbox!Cutover, CutoverOK(past, c), NEW T, \A y \in T : y \in Inbox!Attempt /\ AttemptOK(past, y, c.ev)
  PROVE  LET x == [c EXCEPT !.tries = T]
         IN x \in Inbox!Cutover /\ CutoverOK(past, x) /\ SameChange(x, c) /\ x.tries = T
<1>1. T \subseteq Inbox!Attempt
  OBVIOUS
<1> QED
  BY <1>1 DEF Inbox!Cutover, CutoverOK, SameChange

\* An answer of a relay that had the replacement may begin the grace.
LEMMA AnsweredOK ==
  ASSUME NEW past, NEW c \in Inbox!Cutover, CutoverOK(past, c), NEW seen, NEW absent,
         \A r \in seen : Had(past, c.ev, r)
  PROVE  LET x == Inbox!Answered(c, seen, absent)
         IN x \in Inbox!Cutover /\ CutoverOK(past, x) /\ SameChange(x, c)
<1> DEFINE told(y) == [y EXCEPT !.done = @ \cup (y.plan \cap (seen \cup absent)),
                                !.seen = @ \cup (y.plan \cap seen)]
           T == {told(y) : y \in c.tries}
           x == [c EXCEPT !.tries = T]
<1>1. ASSUME NEW y \in c.tries PROVE told(y) \in Inbox!Attempt /\ AttemptOK(past, told(y), c.ev)
  <2>1. y \in Inbox!Attempt /\ AttemptOK(past, y, c.ev)
    BY DEF Inbox!Cutover, CutoverOK
  <2>2. /\ told(y).plan = y.plan
        /\ told(y).done = y.done \cup (y.plan \cap (seen \cup absent))
        /\ told(y).seen = y.seen \cup (y.plan \cap seen)
        /\ told(y) \in Inbox!Attempt
    BY <2>1 DEF Inbox!Attempt
  <2> QED
    BY <2>1, <2>2 DEF AttemptOK
<1>2. x \in Inbox!Cutover /\ CutoverOK(past, x) /\ SameChange(x, c) /\ x.tries = T
  <2>1. \A y \in T : y \in Inbox!Attempt /\ AttemptOK(past, y, c.ev)
    BY <1>1
  <2> HIDE DEF T
  <2> QED
    BY <2>1, WithTries
<1> HIDE DEF T, x
<1>3. Inbox!Answered(c, seen, absent) = Inbox!Advance(x)
  BY DEF Inbox!Answered, x, T
<1>4. CASE x.phase = "awaiting" /\ Inbox!Complete(x)
  <2>1. PICK y \in x.tries : y.seen # {}
    BY <1>4 DEF Inbox!Complete
  <2>2. y \in Inbox!Attempt /\ AttemptOK(past, y, x.ev)
    BY <1>2, <2>1 DEF Inbox!Cutover, CutoverOK
  <2>3. \E r \in Shared : Had(past, x.ev, r)
    BY <2>1, <2>2 DEF Inbox!Attempt, AttemptOK
  <2> QED
    BY <1>2, <1>3, <1>4, <2>3 DEF Inbox!Advance, Inbox!Cutover, CutoverOK, SameChange
<1>5. CASE ~ (x.phase = "awaiting" /\ Inbox!Complete(x))
  BY <1>2, <1>3, <1>5 DEF Inbox!Advance
<1> QED
  BY <1>4, <1>5

LEMMA CountedOK ==
  ASSUME NEW past, NEW known, EvidenceOK(past, known), NEW c \in known.recs,
         NEW e \in Inbox!Declaration, NEW src, \A r \in src : Had(past, e, r)
  PROVE  LET x == Inbox!Counted(known, e, src, c)
         IN x \in Inbox!Cutover /\ CutoverOK(past, x) /\ SameChange(x, c)
<1>1. c \in Inbox!Cutover /\ CutoverOK(past, c)
  BY DEF EvidenceOK, Inbox!Evidence
<1>2. CASE c.ev # e \/ c.phase # "awaiting"
  BY <1>1, <1>2 DEF Inbox!Counted, SameChange
<1>3. CASE c.ev = e /\ c.phase = "awaiting"
  <2> DEFINE p == known.pend
             T == {y \in c.tries : y.plan = p.conf}
             planned == [c EXCEPT !.tries = T]
             told == Inbox!Answered(planned, Inbox!Observed(p) \ c.blocked, Inbox!Absent(p) \ c.blocked)
             own == IF Inbox!Mine(known, e) THEN told.tries ELSE {}
             rest == {y \in c.tries : ~ Inbox!Mine(known, e) \/ y.plan # p.conf}
             x == [c EXCEPT !.tries = own \cup rest]
  <2>1. \A y \in c.tries : y \in Inbox!Attempt /\ AttemptOK(past, y, c.ev)
    BY <1>1 DEF Inbox!Cutover, CutoverOK
  <2>2. Inbox!Mine(known, e) => /\ told \in Inbox!Cutover /\ CutoverOK(past, told) /\ SameChange(told, c)
    <3> SUFFICES ASSUME Inbox!Mine(known, e)
                 PROVE  told \in Inbox!Cutover /\ CutoverOK(past, told) /\ SameChange(told, c)
      OBVIOUS
    <3>1. planned \in Inbox!Cutover /\ CutoverOK(past, planned) /\ SameChange(planned, c)
      <4>1. \A y \in T : y \in Inbox!Attempt /\ AttemptOK(past, y, c.ev)
        BY <2>1
      <4> HIDE DEF T
      <4> QED
        BY <1>1, <4>1, WithTries
    <3>2. \A r \in Inbox!Observed(p) \ c.blocked : Had(past, planned.ev, r)
      BY <1>3, <3>1 DEF Inbox!Mine, EvidenceOK, SameChange
    <3> HIDE DEF planned
    <3>3. told \in Inbox!Cutover /\ CutoverOK(past, told) /\ SameChange(told, planned)
      BY <3>1, <3>2, AnsweredOK
    <3> QED
      BY <3>1, <3>3 DEF SameChange
  <2>3. \A y \in own \cup rest : y \in Inbox!Attempt /\ AttemptOK(past, y, c.ev)
    <3> HIDE DEF told
    <3> QED
      BY <2>1, <2>2 DEF Inbox!Cutover, CutoverOK, SameChange
  <2> HIDE DEF own, rest
  <2>4. x \in Inbox!Cutover /\ CutoverOK(past, x) /\ SameChange(x, c)
    BY <1>1, <2>3, WithTries
  <2>5. \A r \in (src \cap Shared) \ c.blocked : Had(past, x.ev, r)
    BY <1>3, <2>4 DEF SameChange
  <2>6. Inbox!Counted(known, e, src, c) = Inbox!Answered(x, (src \cap Shared) \ c.blocked, {})
    BY <1>3 DEF Inbox!Counted, own, rest
  <2> HIDE DEF x
  <2>7. LET z == Inbox!Answered(x, (src \cap Shared) \ c.blocked, {})
        IN z \in Inbox!Cutover /\ CutoverOK(past, z) /\ SameChange(z, x)
    BY <2>4, <2>5, AnsweredOK
  <2> QED
    BY <2>4, <2>6, <2>7 DEF SameChange
<1> QED
  BY <1>2, <1>3

-----------------------------------------------------------------------------
(* Evidence that is merged.                                                *)

\* Records that are those of row, each maybe further, are as good.
LEMMA RecordsKept ==
  ASSUME Inbox!CutoverAssumption, NEW past, NEW known, EvidenceOK(past, known), NEW e \in Inbox!Declaration, NEW src,
         \A r \in src : Had(past, e, r)
  PROVE  LET recs == Inbox!Recounted(known, e, src)
         IN /\ recs \subseteq Inbox!Cutover
            /\ \A a, b \in recs : a.ev = b.ev => a = b
            /\ \A x \in recs : CutoverOK(past, x) /\ (x.ev = known.cur \/ Inbox!Newer(known.cur, x.ev))
            /\ \A c \in known.recs : \E x \in recs : SameChange(x, c)
<1>1. \A c \in known.recs :
        LET x == Inbox!Counted(known, e, src, c)
        IN x \in Inbox!Cutover /\ CutoverOK(past, x) /\ SameChange(x, c)
  BY CountedOK
<1> QED
  BY <1>1 DEF EvidenceOK, SameChange, Inbox!Recounted

LEMMA MergedOK ==
  ASSUME Inbox!CutoverAssumption, NEW past, NEW known, EvidenceOK(past, known), NEW e \in Inbox!Declaration, NEW src,
         \A r \in src : Had(past, e, r)
  PROVE  EvidenceOK(past, Inbox!Merged(known, e, src)) /\ Follows(known, Inbox!Merged(known, e, src))
<1> DEFINE recs == Inbox!Recounted(known, e, src)
           new == Inbox!Merged(known, e, src)
<1>1. /\ recs \subseteq Inbox!Cutover
      /\ \A a, b \in recs : a.ev = b.ev => a = b
      /\ \A x \in recs : CutoverOK(past, x) /\ (x.ev = known.cur \/ Inbox!Newer(known.cur, x.ev))
      /\ \A c \in known.recs : \E x \in recs : SameChange(x, c)
  BY RecordsKept
<1>2. /\ known \in Inbox!Evidence /\ None \notin Inbox!Delivery
      /\ known.cur \in Inbox!Declaration /\ known.usable \in Inbox!Declaration
  BY GenesisIs DEF EvidenceOK, Inbox!Evidence
<1>3. CASE Inbox!Newer(e, known.cur)
  <2>1. /\ new \in Inbox!Evidence /\ new.cur = e /\ new.pend = None /\ new.recs = recs
        /\ new.excl = known.excl
    <3> HIDE DEF recs
    <3>1. new = [known EXCEPT !.cur = e, !.pend = None, !.recs = recs,
                   !.shared = src \cap Shared # {},
                   !.usable = IF e.to # {} THEN e ELSE @]
      BY <1>3 DEF Inbox!Merged, recs
    <3> HIDE DEF new
    <3> QED
      BY <1>1, <1>2, <3>1 DEF Inbox!Evidence
  <2>2. \A x \in recs : x.ev \in Inbox!Declaration /\ Inbox!Newer(e, x.ev)
    BY <1>1, <1>2, <1>3, NewerThan DEF Inbox!Cutover
  <2> QED
    BY <1>1, <1>3, <2>1, <2>2 DEF EvidenceOK, Follows, Keeps
<1>4. CASE ~Inbox!Newer(e, known.cur) /\ e = known.cur
  <2>1. /\ new \in Inbox!Evidence /\ new.cur = known.cur /\ new.recs = recs
        /\ new.excl = known.excl
        /\ new.pend = known.pend \/ new.pend = None
    <3> HIDE DEF recs
    <3> DEFINE shared == known.shared \/ src \cap Shared # {}
    <3>1. new = [known EXCEPT !.shared = shared, !.recs = recs,
                   !.pend = IF Inbox!Mine(known, e) /\ Inbox!Confirmed(@) THEN None ELSE @,
                   !.usable = IF e.to # {} /\ shared THEN e ELSE @]
      BY <1>4 DEF Inbox!Merged, recs
    <3> HIDE DEF new
    <3> QED
      BY <1>1, <1>2, <3>1 DEF Inbox!Evidence
  <2> QED
    BY <1>1, <2>1 DEF EvidenceOK, Follows, Keeps
<1>5. CASE ~Inbox!Newer(e, known.cur) /\ e # known.cur
  <2>1. /\ new \in Inbox!Evidence /\ new.cur = known.cur /\ new.recs = recs
        /\ new.excl = known.excl /\ new.pend = known.pend
    <3> HIDE DEF recs
    <3>1. new = [known EXCEPT !.recs = recs,
                   !.usable = IF /\ ~ (Inbox!Declared(known) /\ known.pend = None)
                                 /\ e.to # {} /\ Inbox!Newer(e, @) THEN e ELSE @]
      BY <1>5 DEF Inbox!Merged, recs
    <3> HIDE DEF new
    <3> QED
      BY <1>1, <1>2, <3>1 DEF Inbox!Evidence
  <2> QED
    BY <1>1, <2>1 DEF EvidenceOK, Follows, Keeps
<1> QED
  BY <1>3, <1>4, <1>5

\* The outcomes of attempts on the pending declaration are merged.
LEMMA WithOutcomesOK ==
  ASSUME Inbox!CutoverAssumption, NEW past, NEW known, EvidenceOK(past, known), known.pend # None, NEW out,
         \A o \in out : o[2] = "observed" => Had(past, known.cur, o[1])
  PROVE  EvidenceOK(past, Inbox!WithOutcomes(known, out)) /\ Follows(known, Inbox!WithOutcomes(known, out))
<1> DEFINE q == known.pend
           acked == q.acked \cup {r \in q.plan : <<r, "acked">> \in out}
           read == [r \in Inbox!Targets |-> IF <<r, "observed">> \in out THEN "observed"
                                            ELSE IF <<r, "absent">> \in out /\ q.read[r] = "none"
                                            THEN "absent" ELSE q.read[r]]
           p == [q EXCEPT !.acked = acked, !.read = read]
           new == [known EXCEPT !.pend = p]
<1>1. /\ q \in Inbox!Delivery /\ None \notin Inbox!Delivery /\ known \in Inbox!Evidence
      /\ known.cur \in Inbox!Declaration /\ q.ev = known.cur
      /\ \A r \in Inbox!Observed(q) : Had(past, known.cur, r)
  BY GenesisIs DEF EvidenceOK, Inbox!Evidence
<1>2. acked \in SUBSET Inbox!Targets /\ read \in [Inbox!Targets -> {"none", "absent", "observed"}]
  BY <1>1 DEF Inbox!Delivery
<1>3. \A r \in q.plan : read[r] = IF <<r, "observed">> \in out THEN "observed"
                                  ELSE IF <<r, "absent">> \in out /\ q.read[r] = "none"
                                  THEN "absent" ELSE q.read[r]
  BY <1>1 DEF Inbox!Delivery
<1>4. q.acked \subseteq acked
  OBVIOUS
<1> HIDE DEF acked, read
<1>5. /\ p \in Inbox!Delivery /\ p.ev = known.cur /\ p.plan = q.plan /\ p.conf = q.conf
      /\ p.acked = acked /\ p.read = read
  BY <1>1, <1>2 DEF Inbox!Delivery
<1>6. /\ Inbox!Observed(q) \subseteq Inbox!Observed(p)
      /\ \A r \in Inbox!Observed(p) : Had(past, known.cur, r)
  <2>1. ASSUME NEW r \in Inbox!Observed(p) PROVE Had(past, known.cur, r)
    <3>1. CASE <<r, "observed">> \in out
      <4>1. <<r, "observed">>[2] = "observed" /\ <<r, "observed">>[1] = r
        OBVIOUS
      <4> QED
        BY <3>1, <4>1
    <3>2. CASE <<r, "observed">> \notin out
      BY <3>2, <1>1, <1>3, <1>5 DEF Inbox!Observed
    <3> QED
      BY <3>1, <3>2
  <2> QED
    BY <2>1, <1>1, <1>3, <1>5 DEF Inbox!Observed
<1> HIDE DEF p
<1>7. /\ new \in Inbox!Evidence /\ new.pend = p /\ new.cur = known.cur /\ new.recs = known.recs
      /\ new.excl = known.excl
  BY <1>1, <1>5 DEF Inbox!Evidence
<1> HIDE DEF new
<1>8. EvidenceOK(past, new)
  BY <1>5, <1>6, <1>7 DEF EvidenceOK
<1>9. Inbox!WithOutcomes(known, out) = Inbox!Merged(new, new.cur, Inbox!Observed(p))
  BY <1>7 DEF Inbox!WithOutcomes, new, p, acked, read
<1>10. LET z == Inbox!Merged(new, new.cur, Inbox!Observed(p))
       IN EvidenceOK(past, z) /\ Follows(new, z)
  BY <1>1, <1>6, <1>7, <1>8, MergedOK
<1>11. Keeps(q, p) /\ p # None
  BY <1>1, <1>4, <1>5, <1>6 DEF Keeps
<1> QED
  BY <1>7, <1>9, <1>10, <1>11 DEF Follows, Keeps

LEMMA FollowsTwice ==
  ASSUME Inbox!CutoverAssumption, NEW a, NEW b, NEW c, Follows(a, b), Follows(b, c),
         a.cur \in Inbox!Declaration, b.cur \in Inbox!Declaration, c.cur \in Inbox!Declaration
  PROVE  Follows(a, c)
<1>1. c.cur = a.cur \/ Inbox!Newer(c.cur, a.cur)
  BY NewerThan DEF Follows
<1>2. Keeps(a.pend, c.pend)
  BY DEF Follows, Keeps
<1>3. c.excl = a.excl /\ \A x \in a.recs : \E z \in c.recs : SameChange(z, x)
  BY DEF Follows, SameChange
<1> QED
  BY <1>1, <1>2, <1>3 DEF Follows

-----------------------------------------------------------------------------
(* Evidence that takes a list of declarations.                             *)

\* Declarations and what has been read of each.
ListOK(past, list, n, got) ==
  \A i \in 1 .. n : list[i] \in Inbox!Declaration /\ \A r \in Inbox!Sources(got, list[i]) : Had(past, list[i], r)

\* The evidence after each declaration of the list.
IsRun(f, known, list, n, got) ==
  /\ f = [i \in 0 .. n |-> f[i]]
  /\ f[0] = known
  /\ \A i \in 1 .. n : f[i] = Inbox!Merged(f[i - 1], list[i], Inbox!Sources(got, list[i]))

LEMMA RunExists ==
  ASSUME NEW known, NEW list, NEW n \in Nat, NEW got
  PROVE  \E f : IsRun(f, known, list, n, got)
<1> DEFINE S == {k \in Nat : \E f : IsRun(f, known, list, k, got)}
<1>1. 0 \in S
  <2>1. IsRun([i \in 0 .. 0 |-> known], known, list, 0, got)
    BY DEF IsRun
  <2> QED
    BY <2>1
<1>2. ASSUME NEW k \in Nat, k \in S PROVE k + 1 \in S
  <2>1. PICK f : IsRun(f, known, list, k, got)
    BY <1>2
  <2> DEFINE last == Inbox!Merged(f[k], list[k + 1], Inbox!Sources(got, list[k + 1]))
             g == [i \in 0 .. k + 1 |-> IF i = k + 1 THEN last ELSE f[i]]
  <2> HIDE DEF last
  <2>2. g = [i \in 0 .. k + 1 |-> g[i]] /\ g[0] = known
    BY <2>1 DEF IsRun
  <2>3. ASSUME NEW i \in 1 .. k + 1
        PROVE  g[i] = Inbox!Merged(g[i - 1], list[i], Inbox!Sources(got, list[i]))
    <3>1. CASE i = k + 1
      <4>1. i - 1 = k /\ k \in 0 .. k + 1 /\ k # k + 1
        BY <3>1
      <4>2. g[i] = last /\ g[i - 1] = f[k]
        BY <3>1, <4>1
      <4> QED
        BY <3>1, <4>2 DEF last
    <3>2. CASE i # k + 1
      <4>1. i \in 1 .. k /\ i - 1 \in 0 .. k + 1 /\ i - 1 # k + 1
        BY <3>2
      <4>2. g[i] = f[i] /\ g[i - 1] = f[i - 1]
        BY <4>1, <3>2
      <4> QED
        BY <4>1, <4>2, <2>1 DEF IsRun
    <3> QED
      BY <3>1, <3>2
  <2>4. IsRun(g, known, list, k + 1, got)
    <3> HIDE DEF g
    <3> QED
      BY <2>2, <2>3 DEF IsRun
  <2> QED
    BY <2>4
<1> HIDE DEF S
<1>3. n \in S
  BY <1>1, <1>2, Induct
<1> QED
  BY <1>3 DEF S

LEMMA MergedAllIs ==
  ASSUME NEW known, NEW list, NEW n \in Nat, NEW got
  PROVE  \E f : IsRun(f, known, list, n, got) /\ Inbox!MergedAll(known, list, n, got) = f[n]
<1> DEFINE Is(f) == f = [i \in 0 .. n |-> IF i = 0 THEN known
                                          ELSE Inbox!Merged(f[i - 1], list[i], Inbox!Sources(got, list[i]))]
           rows == CHOOSE f : Is(f)
<1>1. PICK f : IsRun(f, known, list, n, got)
  BY RunExists
<1>2. Is(f)
  <2>1. \A i \in 0 .. n : f[i] = IF i = 0 THEN known
                                 ELSE Inbox!Merged(f[i - 1], list[i], Inbox!Sources(got, list[i]))
    <3>1. \A i \in 0 .. n : i = 0 \/ i \in 1 .. n
      OBVIOUS
    <3> QED
      BY <1>1, <3>1 DEF IsRun
  <2>2. f = [i \in 0 .. n |-> f[i]]
    BY <1>1 DEF IsRun
  <2>3. [i \in 0 .. n |-> f[i]] = [i \in 0 .. n |-> IF i = 0 THEN known
                                     ELSE Inbox!Merged(f[i - 1], list[i], Inbox!Sources(got, list[i]))]
    BY <2>1, Zenon
  <2> QED
    BY <2>2, <2>3, Zenon
<1>3. Is(rows)
  <2> HIDE DEF Is
  <2> QED
    BY <1>2
<1>4. IsRun(rows, known, list, n, got)
  <2> HIDE DEF rows
  <2>1. \A i \in 0 .. n : rows[i] = IF i = 0 THEN known
                                    ELSE Inbox!Merged(rows[i - 1], list[i], Inbox!Sources(got, list[i]))
    BY <1>3
  <2>2. rows = [i \in 0 .. n |-> rows[i]]
    BY <1>3
  <2>3. rows[0] = known
    BY <2>1
  <2>4. ASSUME NEW i \in 1 .. n
        PROVE  rows[i] = Inbox!Merged(rows[i - 1], list[i], Inbox!Sources(got, list[i]))
    <3>1. i \in 0 .. n /\ i # 0
      OBVIOUS
    <3> QED
      BY <2>1, <3>1
  <2> QED
    BY <2>2, <2>3, <2>4 DEF IsRun
<1>5. Inbox!MergedAll(known, list, n, got) = rows[n]
  BY DEF Inbox!MergedAll
<1> QED
  BY <1>4, <1>5

LEMMA MergedAllOK ==
  ASSUME Inbox!CutoverAssumption, NEW past, NEW known, EvidenceOK(past, known), NEW list, NEW n \in Nat, NEW got,
         ListOK(past, list, n, got)
  PROVE  LET x == Inbox!MergedAll(known, list, n, got) IN EvidenceOK(past, x) /\ Follows(known, x)
<1>1. PICK f : IsRun(f, known, list, n, got) /\ Inbox!MergedAll(known, list, n, got) = f[n]
  BY MergedAllIs
<1> DEFINE S == {k \in Nat : k <= n => EvidenceOK(past, f[k]) /\ Follows(known, f[k])}
<1>2. 0 \in S
  <2>1. Follows(known, known)
    BY DEF Follows, Keeps, SameChange
  <2> QED
    BY <1>1, <2>1 DEF IsRun
<1>3. ASSUME NEW k \in Nat, k \in S PROVE k + 1 \in S
  <2> SUFFICES ASSUME k + 1 <= n PROVE EvidenceOK(past, f[k + 1]) /\ Follows(known, f[k + 1])
    OBVIOUS
  <2>1. EvidenceOK(past, f[k]) /\ Follows(known, f[k])
    BY <1>3
  <2>2. k + 1 \in 1 .. n /\ (k + 1) - 1 = k
    OBVIOUS
  <2>3. f[k + 1] = Inbox!Merged(f[k], list[k + 1], Inbox!Sources(got, list[k + 1]))
    BY <1>1, <2>2 DEF IsRun
  <2>4. /\ list[k + 1] \in Inbox!Declaration
        /\ \A r \in Inbox!Sources(got, list[k + 1]) : Had(past, list[k + 1], r)
    BY <2>2 DEF ListOK
  <2>5. EvidenceOK(past, f[k + 1]) /\ Follows(f[k], f[k + 1])
    BY <2>1, <2>3, <2>4, MergedOK
  <2>6. known.cur \in Inbox!Declaration /\ f[k].cur \in Inbox!Declaration /\ f[k + 1].cur \in Inbox!Declaration
    BY <2>1, <2>5 DEF EvidenceOK, Inbox!Evidence
  <2> QED
    BY <2>1, <2>5, <2>6, FollowsTwice
<1> HIDE DEF S
<1>4. n \in S
  BY <1>2, <1>3, Induct
<1> QED
  BY <1>1, <1>4 DEF S

-----------------------------------------------------------------------------
(* What every step keeps.                                                  *)

\* The retained declaration moves forward, and so do the outcomes of its delivery.
Kept(p, q) ==
  p # None /\ q # None /\ p.ev = q.ev /\ p.plan = q.plan
    => p.acked \subseteq q.acked /\ Inbox!Observed(p) \subseteq Inbox!Observed(q)

Forward(a, b) == (b.cur = a.cur \/ Inbox!Newer(b.cur, a.cur)) /\ Kept(a.pend, b.pend)

Sound == IInv' /\ \A d \in Devices : Forward(db[d], db'[d])

\* What is known of one tab and of its device.
LEMMA TabOK ==
  ASSUME Inbox!CutoverAssumption, IInv, NEW t \in Tabs
  PROVE  /\ DeviceOf[t] \in Devices
         /\ plan[t] \in Inbox!Job /\ JobOK(took, plan[t])
         /\ Inbox!Row(t) = db[DeviceOf[t]]
         /\ Inbox!Row(t) \in Inbox!Evidence /\ EvidenceOK(took, Inbox!Row(t)) /\ OwedOK(Inbox!Row(t), owed[DeviceOf[t]])
         /\ Inbox!Row(t).cur \in Inbox!Declaration /\ Inbox!Row(t).usable \in Inbox!Declaration
         /\ Inbox!Row(t).pend # None => Inbox!Row(t).pend \in Inbox!Delivery /\ Inbox!Row(t).pend.ev = Inbox!Row(t).cur
<1>1. DeviceOf[t] \in Devices
  BY DEF Inbox!CutoverAssumption
<1>2. /\ plan[t] \in Inbox!Job /\ JobOK(took, plan[t])
      /\ Inbox!Row(t) = db[DeviceOf[t]]
      /\ Inbox!Row(t) \in Inbox!Evidence /\ EvidenceOK(took, Inbox!Row(t)) /\ OwedOK(Inbox!Row(t), owed[DeviceOf[t]])
  BY <1>1 DEF IInv, Inbox!TypeOK, Inbox!Row
<1>3. /\ Inbox!Row(t).cur \in Inbox!Declaration /\ Inbox!Row(t).usable \in Inbox!Declaration
      /\ Inbox!Row(t).pend # None => Inbox!Row(t).pend \in Inbox!Delivery /\ Inbox!Row(t).pend.ev = Inbox!Row(t).cur
  BY <1>2 DEF EvidenceOK, Inbox!Evidence
<1> QED
  BY <1>1, <1>2, <1>3

LEMMA IdleOK ==
  ASSUME Inbox!CutoverAssumption, NEW past
  PROVE  Inbox!Idle \in Inbox!Job /\ JobOK(past, Inbox!Idle) /\ Inbox!Idle.out = {} /\ Inbox!Idle.got = {} /\ Inbox!Idle.plan = {}
BY DEF Inbox!Idle, Inbox!Job, JobOK

\* What was so of the past stays so.
LEMMA Later ==
  ASSUME NEW past, NEW now, past \subseteq now
  PROVE  /\ \A known : EvidenceOK(past, known) => EvidenceOK(now, known)
         /\ \A j : JobOK(past, j) => JobOK(now, j)
         /\ \A e, r : Had(past, e, r) => Had(now, e, r)
<1>1. \A e, r : Had(past, e, r) => Had(now, e, r)
  BY DEF Had
<1> QED
  BY <1>1 DEF EvidenceOK, CutoverOK, AttemptOK, JobOK

LEMMA Unmoved ==
  ASSUME IInv, NEW d \in Devices
  PROVE  Forward(db[d], db[d])
BY DEF Forward, Kept

\* A step of a tab that touches nothing else.
LEMMA JobStep ==
  ASSUME Inbox!CutoverAssumption, IInv, NEW t \in Tabs, NEW j \in Inbox!Job, JobOK(took, j), Inbox!Set(t, j),
         UNCHANGED <<db, held, took, owed>>
  PROVE  Sound
<1>1. plan' \in [Tabs -> Inbox!Job] /\ \A u \in Tabs : plan'[u] = IF u = t THEN j ELSE plan[u]
  BY DEF Inbox!Set, IInv, Inbox!TypeOK
<1>2. IInv'
  BY <1>1 DEF IInv, Inbox!TypeOK
<1> QED
  BY <1>2, Unmoved DEF Sound

\* A device's evidence becomes row.
LEMMA RowStep ==
  ASSUME Inbox!CutoverAssumption, IInv, NEW d \in Devices, NEW known, db' = [db EXCEPT ![d] = known],
         EvidenceOK(took, known), OwedOK(known, owed'[d]), Forward(db[d], known),
         owed' \in [Devices -> SUBSET [inbox : Inboxes, ev : Inbox!Declaration]],
         \A x \in Devices : x # d => owed'[x] = owed[x],
         plan' \in [Tabs -> Inbox!Job], \A u \in Tabs : JobOK(took, plan'[u]),
         UNCHANGED <<held, took>>
  PROVE  Sound
<1>1. \A x \in Devices : db'[x] = IF x = d THEN known ELSE db[x]
  BY DEF IInv, Inbox!TypeOK
<1>2. \A x \in Devices : EvidenceOK(took, db'[x]) /\ OwedOK(db'[x], owed'[x])
  BY <1>1 DEF IInv
<1>3. db' \in [Devices -> Inbox!Evidence]
  BY DEF IInv, Inbox!TypeOK, EvidenceOK
<1>4. Inbox!TypeOK'
  <2>1. \A x \in Devices :
          /\ db'[x].pend # None => db'[x].pend.ev = db'[x].cur
          /\ \A a, b \in db'[x].recs : a.ev = b.ev => a = b
          /\ \A c \in db'[x].recs : \A y \in c.tries : y.seen \subseteq y.done
                                                       /\ y.done \subseteq y.plan
    BY <1>2 DEF EvidenceOK, CutoverOK, AttemptOK
  <2> QED
    BY <1>3, <2>1 DEF IInv, Inbox!TypeOK
<1>5. IInv'
  BY <1>2, <1>4 DEF IInv
<1>6. \A x \in Devices : Forward(db[x], db'[x])
  BY <1>1, Unmoved
<1> QED
  BY <1>5, <1>6 DEF Sound

\* A tab's step that saves its device's evidence, which follows what it was.
LEMMA SaveStep ==
  ASSUME Inbox!CutoverAssumption, IInv, NEW t \in Tabs, NEW j \in Inbox!Job, JobOK(took, j), Inbox!Set(t, j),
         NEW known, Inbox!Save(t, known), EvidenceOK(took, known), OwedOK(known, owed[DeviceOf[t]]),
         Forward(Inbox!Row(t), known), UNCHANGED <<held, took, owed>>
  PROVE  Sound
<1>1. DeviceOf[t] \in Devices
  BY DEF Inbox!CutoverAssumption
<1>2. plan' \in [Tabs -> Inbox!Job] /\ \A u \in Tabs : JobOK(took, plan'[u])
  BY DEF Inbox!Set, IInv, Inbox!TypeOK
<1>3. db' = [db EXCEPT ![DeviceOf[t]] = known]
  BY DEF Inbox!Save
<1>4. owed' \in [Devices -> SUBSET [inbox : Inboxes, ev : Inbox!Declaration]]
  BY DEF IInv, Inbox!TypeOK
<1> QED
  BY <1>1, <1>2, <1>3, <1>4, RowStep DEF Inbox!Row

LEMMA FollowsStep ==
  ASSUME NEW a, NEW b, Follows(a, b), NEW owing
  PROVE  Forward(a, b) /\ (OwedOK(a, owing) => OwedOK(b, owing))
<1>1. Forward(a, b)
  BY DEF Follows, Keeps, Forward, Kept
<1>2. OwedOK(a, owing) => OwedOK(b, owing)
  BY DEF Follows, OwedOK, SameChange
<1> QED
  BY <1>1, <1>2

\* A relay has had e from now on.
LEMMA TakesStep ==
  ASSUME Inbox!CutoverAssumption, IInv, NEW r \in Inbox!AllRelays, NEW e \in Inbox!Declaration, Inbox!Takes(r, e),
         plan' \in [Tabs -> Inbox!Job], \A u \in Tabs : JobOK(took', plan'[u]), UNCHANGED <<db, owed>>
  PROVE  Sound
<1>1. took' = took \cup {<<e, r>>} /\ took \subseteq took'
  BY DEF Inbox!Takes
<1>2. took' \subseteq Inbox!Declaration \X Inbox!AllRelays
  BY <1>1 DEF IInv, Inbox!TypeOK
<1>3. /\ held' \in [Inbox!AllRelays -> Inbox!Declaration \cup {None}]
      /\ \A s \in Inbox!AllRelays : held'[s] = held[s] \/ (s = r /\ held'[s] = e)
  BY DEF Inbox!Takes, IInv, Inbox!TypeOK
<1>4. RelaysOK(took', held')
  <2> SUFFICES ASSUME NEW s \in Inbox!AllRelays, held'[s] # None PROVE Had(took', held'[s], s)
    BY DEF RelaysOK
  <2>1. CASE held'[s] = held[s]
    <3>1. Had(took, held[s], s)
      BY <2>1 DEF IInv, RelaysOK
    <3> QED
      BY <1>1, <2>1, <3>1 DEF Had
  <2>2. CASE s = r /\ held'[s] = e
    BY <1>1, <2>2 DEF Had
  <2> QED
    BY <1>3, <2>1, <2>2
<1>5. \A d \in Devices : EvidenceOK(took', db[d])
  BY <1>1, Later DEF IInv
<1>6. IInv'
  BY <1>2, <1>3, <1>4, <1>5 DEF IInv, Inbox!TypeOK
<1> QED
  BY <1>6, Unmoved DEF Sound

-----------------------------------------------------------------------------
(* A reviewed change.                                                      *)

LEMMA ReviewStep ==
  ASSUME Inbox!CutoverAssumption, IInv, NEW t \in Tabs, Inbox!Review(t)
  PROVE  Sound
<1>1. PICK want \in SUBSET Inboxes, drop \in SUBSET Removable :
        Inbox!Set(t, [Inbox!Idle EXCEPT !.st = "reviewed", !.want = want,
                       !.drop = drop, !.ex = Inbox!Removed(Inbox!Row(t)),
                       !.changed = want # Inbox!Row(t).cur.to, !.base = Inbox!Row(t).cur,
                       !.prev = Inbox!Row(t).cur.to \cup
                                  (Inbox!Retained(Inbox!Row(t)) \ Inbox!Recovering(Inbox!Row(t)))])
  BY DEF Inbox!Review
<1> DEFINE ex == Inbox!Removed(Inbox!Row(t))
           prev == Inbox!Row(t).cur.to \cup (Inbox!Retained(Inbox!Row(t)) \ Inbox!Recovering(Inbox!Row(t)))
           changed == want # Inbox!Row(t).cur.to
           j == [Inbox!Idle EXCEPT !.st = "reviewed", !.want = want, !.drop = drop, !.ex = ex,
                                   !.changed = changed, !.base = Inbox!Row(t).cur, !.prev = prev]
<1>2. /\ drop \in SUBSET Inbox!AllRelays /\ ex \in SUBSET Inbox!AllRelays /\ prev \in SUBSET Inboxes
      /\ changed \in BOOLEAN /\ Inbox!Row(t).cur \in Inbox!Declaration
  <2>1. /\ Inbox!Row(t).cur \in Inbox!Declaration /\ Inbox!Row(t).usable \in Inbox!Declaration
    BY TabOK
  <2>2. Inbox!Row(t).cur.to \subseteq Inboxes /\ Inbox!Retained(Inbox!Row(t)) \subseteq Inboxes
    BY <2>1 DEF Inbox!Declaration, Inbox!Retained
  <2> QED
    BY <2>1, <2>2 DEF Inbox!CutoverAssumption, Inbox!Removed, Inbox!AllRelays
<1> HIDE DEF ex, prev, changed
<1>3. j \in Inbox!Job /\ JobOK(took, j)
  BY <1>2 DEF Inbox!Idle, Inbox!Job, JobOK
<1>4. Inbox!Set(t, j)
  BY <1>1 DEF ex, prev, changed
<1> HIDE DEF j
<1>5. UNCHANGED <<db, held, took, owed>>
  BY DEF Inbox!Review
<1> QED
  BY <1>3, <1>4, <1>5, JobStep

LEMMA SignStep ==
  ASSUME Inbox!CutoverAssumption, IInv, NEW t \in Tabs, Inbox!Sign(t)
  PROVE  Sound
<1> DEFINE j == plan[t]
           signed(at) == [j EXCEPT !.st = "signed", !.base = Inbox!Row(t).cur,
                           !.prev = @ \cup Inbox!Row(t).cur.to,
                           !.ev = [at |-> at, by |-> DeviceOf[t], to |-> j.want]]
           kept == [j EXCEPT !.st = "signed", !.base = Inbox!Row(t).cur]
<1>1. /\ j \in Inbox!Job /\ JobOK(took, j) /\ Inbox!Row(t).cur \in Inbox!Declaration /\ DeviceOf[t] \in Devices
      /\ MaxAt \in Nat
  BY TabOK DEF Inbox!CutoverAssumption
<1>2. UNCHANGED <<db, held, took, owed>>
  BY DEF Inbox!Sign
<1>3. CASE j.changed
  <2>1. PICK at \in 1 .. MaxAt : Inbox!Set(t, signed(at))
    BY <1>3 DEF Inbox!Sign
  <2>2. [at |-> at, by |-> DeviceOf[t], to |-> j.want] \in Inbox!Declaration
    BY <1>1 DEF Inbox!Declaration, Inbox!Job
  <2>3. j.prev \cup Inbox!Row(t).cur.to \in SUBSET Inboxes
    BY <1>1 DEF Inbox!Declaration, Inbox!Job
  <2>4. signed(at) \in Inbox!Job /\ JobOK(took, signed(at))
    BY <1>1, <2>2, <2>3 DEF Inbox!Job, JobOK
  <2> HIDE DEF signed
  <2> QED
    BY <1>2, <2>1, <2>4, JobStep
<1>4. CASE ~ j.changed
  <2>1. Inbox!Set(t, kept)
    BY <1>4 DEF Inbox!Sign
  <2>2. kept \in Inbox!Job /\ JobOK(took, kept)
    BY <1>1, <1>4 DEF Inbox!Job, JobOK
  <2> HIDE DEF kept
  <2> QED
    BY <1>2, <2>1, <2>2, JobStep
<1> QED
  BY <1>3, <1>4

\* A staged declaration has its cutover.
LEMMA StagedOK ==
  ASSUME Inbox!CutoverAssumption, NEW past, NEW known, EvidenceOK(past, known), NEW j \in Inbox!Job,
         j.ev \in Inbox!Declaration, j.ev.by \in Devices, Inbox!Newer(j.ev, known.cur)
  PROVE  LET new == Inbox!Staged(known, j)
         IN /\ EvidenceOK(past, new) /\ new.cur = j.ev /\ known.recs \subseteq new.recs
            /\ \A r \in j.prev \ (j.want \cup j.drop) :
                 \E c \in new.recs : c.ev = j.ev /\ r \in c.old \ c.blocked
<1> DEFINE old == j.prev \ j.want
           conf == Shared \ j.drop
           goal == (Shared \cup Own) \ j.drop
           pend == Inbox!Pending(j.ev, goal, conf)
           cut == [ev |-> j.ev, old |-> old, blocked |-> old \cap j.drop,
                   phase |-> "awaiting", tries |-> {Inbox!Try(conf)}]
           recs == known.recs \cup IF old = {} THEN {} ELSE {cut}
           new == [known EXCEPT !.cur = j.ev, !.shared = FALSE, !.pend = pend, !.recs = recs]
<1>0. new = Inbox!Staged(known, j)
  BY DEF Inbox!Staged
<1>1. /\ old \in SUBSET Inboxes /\ conf \in SUBSET Shared /\ goal \in SUBSET Inbox!Targets
      /\ known \in Inbox!Evidence
  BY DEF Inbox!Job, Inbox!Targets, EvidenceOK
<1>2. /\ Inbox!Try(conf) \in Inbox!Attempt /\ AttemptOK(past, Inbox!Try(conf), j.ev)
  BY <1>1 DEF Inbox!Try, Inbox!Attempt, AttemptOK
<1>3. cut \in Inbox!Cutover /\ CutoverOK(past, cut)
  <2>1. old \cap j.drop \in SUBSET Inbox!AllRelays
    BY <1>1 DEF Inbox!AllRelays
  <2> HIDE DEF old, conf
  <2> QED
    BY <1>1, <1>2, <2>1 DEF Inbox!Cutover, CutoverOK
<1>4. pend \in Inbox!Delivery /\ pend.ev = j.ev /\ Inbox!Observed(pend) = {}
  BY <1>1 DEF Inbox!Pending, Inbox!Delivery, Inbox!Observed
<1>5. cut.ev = j.ev /\ cut.old = old /\ cut.blocked = old \cap j.drop
  OBVIOUS
<1> HIDE DEF cut, pend
<1>6. \A c \in known.recs : /\ c \in Inbox!Cutover /\ CutoverOK(past, c) /\ Inbox!Newer(j.ev, c.ev)
                            /\ c.ev # j.ev
  <2> SUFFICES ASSUME NEW c \in known.recs
               PROVE  c \in Inbox!Cutover /\ CutoverOK(past, c) /\ Inbox!Newer(j.ev, c.ev) /\ c.ev # j.ev
    OBVIOUS
  <2>1. /\ c \in Inbox!Cutover /\ CutoverOK(past, c) /\ (c.ev = known.cur \/ Inbox!Newer(known.cur, c.ev))
        /\ c.ev \in Inbox!Declaration /\ known.cur \in Inbox!Declaration
    BY DEF EvidenceOK, Inbox!Evidence, Inbox!Cutover
  <2> QED
    BY <2>1, NewerThan
<1>7. /\ recs \subseteq Inbox!Cutover
      /\ \A a, b \in recs : a.ev = b.ev => a = b
      /\ \A c \in recs : CutoverOK(past, c) /\ (c.ev = j.ev \/ Inbox!Newer(j.ev, c.ev))
  <2> HIDE DEF old
  <2> QED
    BY <1>3, <1>5, <1>6 DEF EvidenceOK
<1>8. \A r \in j.prev \ (j.want \cup j.drop) :
        \E c \in recs : c.ev = j.ev /\ r \in c.old \ c.blocked
  BY <1>5
<1> HIDE DEF recs
<1>9. /\ new \in Inbox!Evidence /\ new.cur = j.ev /\ new.pend = pend /\ new.recs = recs
  BY <1>1, <1>4, <1>7 DEF Inbox!Evidence
<1> HIDE DEF new
<1>10. EvidenceOK(past, new)
  BY <1>4, <1>7, <1>9 DEF EvidenceOK
<1>11. known.recs \subseteq recs
  BY DEF recs
<1> QED
  BY <1>0, <1>8, <1>9, <1>10, <1>11

LEMMA ExcludingOK ==
  ASSUME Inbox!CutoverAssumption, NEW past, NEW known, EvidenceOK(past, known), NEW drop \in SUBSET Inbox!AllRelays
  PROVE  LET new == Inbox!Excluding(known, drop)
         IN /\ EvidenceOK(past, new) /\ new.cur = known.cur /\ new.pend = known.pend
            /\ \A c \in known.recs : \E x \in new.recs :
                 x.ev = c.ev /\ x.old = c.old /\ x.blocked \subseteq c.blocked \cup drop
<1> DEFINE more(c) == drop \cap (c.old \cup UNION {y.plan : y \in c.tries})
           cut(c) == [c EXCEPT !.blocked = @ \cup more(c)]
           recs == {cut(c) : c \in known.recs}
           excl == [r \in Inbox!AllRelays |-> IF r \in drop THEN known.cur ELSE known.excl[r]]
           new == [known EXCEPT !.excl = excl, !.recs = recs]
<1>0. new = Inbox!Excluding(known, drop)
  BY DEF Inbox!Excluding
<1>1. known \in Inbox!Evidence /\ known.cur \in Inbox!Declaration
  BY DEF EvidenceOK, Inbox!Evidence
<1>2. \A c : more(c) \subseteq drop
  OBVIOUS
<1> HIDE DEF more
<1>3. ASSUME NEW c \in known.recs
      PROVE  /\ cut(c) \in Inbox!Cutover /\ CutoverOK(past, cut(c))
             /\ cut(c).ev = c.ev /\ cut(c).old = c.old /\ cut(c).blocked = c.blocked \cup more(c)
             /\ c.ev = known.cur \/ Inbox!Newer(known.cur, c.ev)
  <2>1. /\ c \in Inbox!Cutover /\ CutoverOK(past, c) /\ c.blocked \cup more(c) \in SUBSET Inbox!AllRelays
        /\ c.ev = known.cur \/ Inbox!Newer(known.cur, c.ev)
    BY <1>2 DEF EvidenceOK, Inbox!Evidence, Inbox!Cutover
  <2> QED
    BY <2>1 DEF Inbox!Cutover, CutoverOK
<1>4. excl \in [Inbox!AllRelays -> Inbox!Declaration \cup {None}]
  BY <1>1 DEF Inbox!Evidence
<1> HIDE DEF cut, excl
<1>5. /\ recs \subseteq Inbox!Cutover
      /\ \A a, b \in recs : a.ev = b.ev => a = b
      /\ \A x \in recs : CutoverOK(past, x) /\ (x.ev = known.cur \/ Inbox!Newer(known.cur, x.ev))
      /\ \A c \in known.recs : \E x \in recs :
           x.ev = c.ev /\ x.old = c.old /\ x.blocked \subseteq c.blocked \cup drop
  BY <1>2, <1>3 DEF EvidenceOK
<1> HIDE DEF recs
<1>6. /\ new \in Inbox!Evidence /\ new.cur = known.cur /\ new.pend = known.pend /\ new.recs = recs
  BY <1>1, <1>4, <1>5 DEF Inbox!Evidence
<1> HIDE DEF new
<1>7. EvidenceOK(past, new)
  BY <1>5, <1>6 DEF EvidenceOK
<1> QED
  BY <1>0, <1>5, <1>6, <1>7

LEMMA ReaddingOK ==
  ASSUME Inbox!CutoverAssumption, NEW past, NEW known, EvidenceOK(past, known), NEW e
  PROVE  LET new == Inbox!Readding(known, e)
         IN /\ EvidenceOK(past, new) /\ new.cur = known.cur /\ new.pend = known.pend
            /\ new.recs = known.recs
<1> DEFINE excl == [r \in Inbox!AllRelays |-> IF known.excl[r] # None /\ r \in e.to /\ Inbox!Newer(e, known.excl[r])
                                              THEN None ELSE known.excl[r]]
           new == [known EXCEPT !.excl = excl]
<1>0. new = Inbox!Readding(known, e)
  BY DEF Inbox!Readding
<1>1. known \in Inbox!Evidence
  BY DEF EvidenceOK
<1>2. excl \in [Inbox!AllRelays -> Inbox!Declaration \cup {None}]
  BY <1>1 DEF Inbox!Evidence
<1> HIDE DEF excl
<1>3. /\ new \in Inbox!Evidence /\ new.cur = known.cur /\ new.pend = known.pend /\ new.recs = known.recs
  BY <1>1, <1>2 DEF Inbox!Evidence
<1> HIDE DEF new
<1> QED
  BY <1>0, <1>3 DEF EvidenceOK

\* What a change leaves owing has its cutover.
LEMMA OwingOK ==
  ASSUME NEW known, NEW next, NEW cut, NEW j \in Inbox!Job, NEW owing, OwedOK(known, owing),
         known.recs \subseteq next.recs,
         j.changed => \A r \in j.prev \ (j.want \cup j.drop) :
                        \E c \in next.recs : c.ev = j.ev /\ r \in c.old \ c.blocked,
         \A c \in next.recs : \E x \in cut.recs :
            x.ev = c.ev /\ x.old = c.old /\ x.blocked \subseteq c.blocked \cup j.drop
  PROVE  OwedOK(cut, Inbox!Owing(owing, j))
<1> SUFFICES ASSUME NEW o \in Inbox!Owing(owing, j)
             PROVE  \E c \in cut.recs : c.ev = o.ev /\ o.inbox \in c.old \ c.blocked
  BY DEF OwedOK
<1>1. o.inbox \notin j.drop /\ \E c \in next.recs : c.ev = o.ev /\ o.inbox \in c.old \ c.blocked
  <2>1. CASE o \in owing /\ o.inbox \notin j.drop
    BY <2>1 DEF OwedOK
  <2>2. CASE j.changed /\ \E r \in j.prev \ (j.want \cup j.drop) : o = [inbox |-> r, ev |-> j.ev]
    BY <2>2
  <2> QED
    BY <2>1, <2>2 DEF Inbox!Owing
<1>2. PICK c \in next.recs : c.ev = o.ev /\ o.inbox \in c.old \ c.blocked
  BY <1>1
<1>3. PICK x \in cut.recs : x.ev = c.ev /\ x.old = c.old /\ x.blocked \subseteq c.blocked \cup j.drop
  BY <1>2
<1> QED
  BY <1>1, <1>2, <1>3

LEMMA OwingType ==
  ASSUME NEW j \in Inbox!Job, j.changed => j.ev \in Inbox!Declaration,
         NEW owing \in SUBSET [inbox : Inboxes, ev : Inbox!Declaration]
  PROVE  Inbox!Owing(owing, j) \in SUBSET [inbox : Inboxes, ev : Inbox!Declaration]
BY DEF Inbox!Owing, Inbox!Job

LEMMA StageStep ==
  ASSUME Inbox!CutoverAssumption, IInv, NEW t \in Tabs, Inbox!Stage(t)
  PROVE  Sound
<1> DEFINE j == plan[t]
           known == Inbox!Row(t)
           d == DeviceOf[t]
           next == IF j.changed THEN Inbox!Staged(known, j) ELSE known
           cut == Inbox!Excluding(next, j.drop)
           new == IF j.changed THEN Inbox!Readding(cut, j.ev) ELSE cut
           ok == Inbox!Removed(known) = j.ex /\ known.cur = j.base /\ (j.changed => Inbox!Newer(j.ev, known.cur))
           ended == IF j.changed THEN [Inbox!Idle EXCEPT !.st = "staged"] ELSE Inbox!Idle
<1>1. /\ d \in Devices /\ j \in Inbox!Job /\ JobOK(took, j) /\ known = db[d]
      /\ EvidenceOK(took, known) /\ OwedOK(known, owed[d]) /\ known.cur \in Inbox!Declaration
      /\ known.pend # None => known.pend.ev = known.cur
  BY TabOK
<1>2. j.st = "signed" /\ UNCHANGED <<held, took>>
  BY DEF Inbox!Stage, Inbox!StageWith
<1>3. j.changed => j.ev \in Inbox!Declaration /\ j.ev.by \in Devices
  BY <1>1, <1>2 DEF JobOK
<1>4. ended \in Inbox!Job /\ JobOK(took, ended)
  BY IdleOK DEF Inbox!Idle, Inbox!Job, JobOK
<1>5. CASE ok
  <2>1. Inbox!Save(t, new) /\ owed' = [owed EXCEPT ![d] = Inbox!Owing(@, j)] /\ Inbox!Set(t, ended)
    BY <1>5 DEF Inbox!Stage, Inbox!StageWith, Inbox!End
  <2>2. /\ EvidenceOK(took, next) /\ known.recs \subseteq next.recs
        /\ j.changed => next.cur = j.ev
        /\ j.changed => \A r \in j.prev \ (j.want \cup j.drop) :
                          \E c \in next.recs : c.ev = j.ev /\ r \in c.old \ c.blocked
        /\ ~ j.changed => next = known
    <3>1. CASE j.changed
      BY <1>1, <1>3, <1>5, <3>1, StagedOK
    <3>2. CASE ~ j.changed
      BY <1>1, <3>2
    <3> QED
      BY <3>1, <3>2
  <2> HIDE DEF next
  <2>3. /\ EvidenceOK(took, cut) /\ cut.cur = next.cur /\ cut.pend = next.pend
        /\ \A c \in next.recs : \E x \in cut.recs :
             x.ev = c.ev /\ x.old = c.old /\ x.blocked \subseteq c.blocked \cup j.drop
    <3>1. j.drop \in SUBSET Inbox!AllRelays
      BY <1>1 DEF Inbox!Job
    <3> HIDE DEF j
    <3> QED
      BY <2>2, <3>1, ExcludingOK
  <2>4. OwedOK(cut, Inbox!Owing(owed[d], j))
    <3> HIDE DEF cut, j, known, d
    <3> QED
      BY <1>1, <2>2, <2>3, OwingOK
  <2> HIDE DEF cut
  <2>5. EvidenceOK(took, new) /\ new.cur = next.cur /\ new.pend = next.pend /\ new.recs = cut.recs
    BY <2>3, ReaddingOK
  <2> HIDE DEF new
  <2>6. OwedOK(new, Inbox!Owing(owed[d], j))
    BY <2>4, <2>5 DEF OwedOK
  <2>7. Forward(known, new)
    <3>1. CASE j.changed
      <4>1. new.pend # None => new.pend.ev = j.ev
        BY <2>2, <2>5, <3>1 DEF EvidenceOK
      <4>2. Inbox!Newer(j.ev, known.cur) /\ j.ev # known.cur
        BY <1>1, <1>3, <1>5, <3>1, NewerThan
      <4> QED
        BY <1>1, <2>2, <2>5, <3>1, <4>1, <4>2 DEF Forward, Kept
    <3>2. CASE ~ j.changed
      BY <2>2, <2>5, <3>2 DEF Forward, Kept
    <3> QED
      BY <3>1, <3>2
  <2>8. /\ owed \in [Devices -> SUBSET [inbox : Inboxes, ev : Inbox!Declaration]]
        /\ Inbox!Owing(owed[d], j) \in SUBSET [inbox : Inboxes, ev : Inbox!Declaration]
    <3>1. owed \in [Devices -> SUBSET [inbox : Inboxes, ev : Inbox!Declaration]]
      BY DEF IInv, Inbox!TypeOK
    <3>2. owed[d] \in SUBSET [inbox : Inboxes, ev : Inbox!Declaration]
      BY <1>1, <3>1
    <3> HIDE DEF j, d
    <3> QED
      BY <1>1, <1>3, <3>1, <3>2, OwingType
  <2>9. /\ owed' \in [Devices -> SUBSET [inbox : Inboxes, ev : Inbox!Declaration]]
        /\ owed'[d] = Inbox!Owing(owed[d], j)
        /\ \A x \in Devices : x # d => owed'[x] = owed[x]
    BY <1>1, <2>1, <2>8
  <2>10. plan' \in [Tabs -> Inbox!Job] /\ \A u \in Tabs : JobOK(took, plan'[u])
    BY <1>4, <2>1 DEF Inbox!Set, IInv, Inbox!TypeOK
  <2>11. db' = [db EXCEPT ![d] = new]
    BY <2>1 DEF Inbox!Save
  <2> HIDE DEF j, d, known
  <2> QED
    BY <1>1, <1>2, <2>5, <2>6, <2>7, <2>9, <2>10, <2>11, RowStep
<1>6. CASE ~ ok
  <2>1. Inbox!Set(t, Inbox!Idle) /\ UNCHANGED <<db, owed>>
    BY <1>6 DEF Inbox!Stage, Inbox!StageWith, Inbox!End
  <2> QED
    BY <1>2, <2>1, IdleOK, JobStep
<1> QED
  BY <1>5, <1>6

-----------------------------------------------------------------------------
(* Delivery.                                                               *)

LEMMA StartDeliveryStep ==
  ASSUME Inbox!CutoverAssumption, IInv, NEW t \in Tabs, Inbox!StartDelivery(t)
  PROVE  Sound
<1> DEFINE p == Inbox!Row(t).pend
           todo == p.plan \ (p.acked \cup Inbox!Observed(p))
           j(again) == [Inbox!Idle EXCEPT !.st = "publishing", !.ev = p.ev, !.plan = p.plan,
                                          !.todo = todo, !.again = again]
<1>1. UNCHANGED <<db, held, took, owed>>
  BY DEF Inbox!StartDelivery
<1>2. CASE p = None
  <2>1. Inbox!Set(t, Inbox!Idle)
    BY <1>2 DEF Inbox!StartDelivery, Inbox!End
  <2> QED
    BY <1>1, <2>1, IdleOK, JobStep
<1>3. CASE p # None
  <2>1. PICK again \in BOOLEAN : Inbox!Set(t, j(again))
    BY <1>3 DEF Inbox!StartDelivery
  <2>2. p \in Inbox!Delivery /\ todo \in SUBSET Inbox!Targets /\ p.plan \in SUBSET Inbox!Targets /\ p.ev \in Inbox!Declaration
    <3>1. p \in Inbox!Delivery
      BY <1>3, TabOK
    <3> HIDE DEF p
    <3> QED
      BY <3>1 DEF Inbox!Delivery
  <2> HIDE DEF p, todo
  <2>3. j(again) \in Inbox!Job /\ JobOK(took, j(again))
    BY <2>2 DEF Inbox!Idle, Inbox!Job, JobOK
  <2> HIDE DEF j
  <2> QED
    BY <1>1, <2>1, <2>3, JobStep
<1> QED
  BY <1>2, <1>3

With(j, todo, out) == [j EXCEPT !.todo = todo, !.out = out]

LEMMA JobWith ==
  ASSUME NEW j, j \in Inbox!Job, NEW todo, todo \subseteq Inbox!Targets,
         NEW out, out \subseteq Inbox!Targets \X {"acked", "failed", "observed", "absent"}
  PROVE  LET k == With(j, todo, out)
         IN k \in Inbox!Job /\ k.st = j.st /\ k.ev = j.ev /\ k.out = out
BY DEF Inbox!Job, With

\* A tab notes what relay r said.
LEMMA NotedOK ==
  ASSUME NEW past, NEW j \in Inbox!Job, JobOK(past, j), j.st \in {"publishing", "confirming"},
         NEW r \in j.todo, NEW s \in {"acked", "failed", "observed", "absent"},
         s = "observed" => Had(past, j.ev, r)
  PROVE  LET k == [j EXCEPT !.todo = @ \ {r}, !.out = @ \cup {<<r, s>>}]
         IN k \in Inbox!Job /\ JobOK(past, k)
<1> DEFINE todo == j.todo \ {r}
           out == j.out \cup {<<r, s>>}
           k == With(j, todo, out)
<1>1. r \in Inbox!Targets /\ todo \subseteq Inbox!Targets
      /\ out \subseteq Inbox!Targets \X {"acked", "failed", "observed", "absent"}
  BY DEF Inbox!Job
<1>2. \A o \in out : o[2] = "observed" => Had(past, j.ev, o[1])
  BY DEF JobOK
<1> HIDE DEF todo, out
<1>3. k \in Inbox!Job /\ k.st = j.st /\ k.ev = j.ev /\ k.out = out
  BY <1>1, JobWith
<1>4. JobOK(past, k)
  BY <1>2, <1>3 DEF JobOK
<1> QED
  BY <1>3, <1>4 DEF With, todo, out

LEMMA PublishStep ==
  ASSUME Inbox!CutoverAssumption, IInv, NEW t \in Tabs, Inbox!Publish(t)
  PROVE  Sound
<1> DEFINE j == plan[t]
           said(r, s) == [plan[t] EXCEPT !.todo = @ \ {r}, !.out = @ \cup {<<r, s>>}]
<1>1. /\ j.st = "publishing" /\ UNCHANGED <<db, owed>>
      /\ j \in Inbox!Job /\ JobOK(took, j)
  BY TabOK DEF Inbox!Publish
<1>2. j.ev \in Inbox!Declaration
  BY <1>1 DEF JobOK
<1>3. PICK r \in j.todo :
        \/ Inbox!Takes(r, j.ev) /\ (Inbox!Set(t, said(r, "acked")) \/ Inbox!Set(t, said(r, "failed")))
        \/ Inbox!Set(t, said(r, "failed")) /\ UNCHANGED <<held, took>>
  BY DEF Inbox!Publish
<1>4. /\ said(r, "acked") \in Inbox!Job /\ JobOK(took, said(r, "acked"))
      /\ said(r, "failed") \in Inbox!Job /\ JobOK(took, said(r, "failed"))
  BY <1>1, NotedOK
<1> HIDE DEF said
<1>5. CASE Inbox!Takes(r, j.ev)
  <2>1. PICK k \in Inbox!Job : JobOK(took, k) /\ Inbox!Set(t, k)
    <3>1. Inbox!Set(t, said(r, "acked")) \/ Inbox!Set(t, said(r, "failed"))
      BY <1>3
    <3> QED
      BY <1>4, <3>1
  <2>2. plan' \in [Tabs -> Inbox!Job] /\ \A u \in Tabs : JobOK(took, plan'[u])
    BY <2>1 DEF Inbox!Set, IInv, Inbox!TypeOK
  <2>3. \A u \in Tabs : JobOK(took', plan'[u])
    <3>1. took \subseteq took'
      BY <1>5 DEF Inbox!Takes
    <3> QED
      BY <2>2, <3>1, Later
  <2>4. r \in Inbox!AllRelays
    BY <1>1, <1>3 DEF Inbox!Job, Inbox!Targets, Inbox!AllRelays
  <2> HIDE DEF j
  <2> QED
    BY <1>1, <1>2, <1>5, <2>2, <2>3, <2>4, TakesStep
<1>6. CASE Inbox!Set(t, said(r, "failed")) /\ UNCHANGED <<held, took>>
  BY <1>1, <1>4, <1>6, JobStep
<1> QED
  BY <1>3, <1>5, <1>6

LEMMA ReadBackStep ==
  ASSUME Inbox!CutoverAssumption, IInv, NEW t \in Tabs, Inbox!ReadBack(t)
  PROVE  Sound
<1> DEFINE j == plan[t]
           said(r, s) == [plan[t] EXCEPT !.todo = @ \ {r}, !.out = @ \cup {<<r, s>>}]
<1>1. /\ j.st = "confirming" /\ UNCHANGED <<db, held, took, owed>>
      /\ j \in Inbox!Job /\ JobOK(took, j)
  BY TabOK DEF Inbox!ReadBack
<1>2. j.ev \in Inbox!Declaration /\ j.ev # None
  BY <1>1, GenesisIs DEF JobOK
<1>3. PICK r \in j.todo : \E s \in {"failed"} \cup Inbox!Answer(r, j.ev) : Inbox!Set(t, said(r, s))
  BY DEF Inbox!ReadBack
<1>4. PICK s \in {"failed", "observed", "absent"} :
        (s = "observed" => held[r] = j.ev) /\ Inbox!Set(t, said(r, s))
  <2> HIDE DEF said, j
  <2> QED
    BY <1>3 DEF Inbox!Answer
<1>5. r \in Inbox!AllRelays
  BY <1>1, <1>3 DEF Inbox!Job, Inbox!Targets, Inbox!AllRelays
<1>6. s = "observed" => Had(took, j.ev, r)
  <2>1. RelaysOK(took, held)
    BY DEF IInv
  <2> HIDE DEF j
  <2> QED
    BY <1>2, <1>4, <1>5, <2>1 DEF RelaysOK
<1>7. said(r, s) \in Inbox!Job /\ JobOK(took, said(r, s))
  BY <1>1, <1>6, NotedOK
<1> HIDE DEF said
<1> QED
  BY <1>1, <1>4, <1>7, JobStep

LEMMA RecordStep ==
  ASSUME Inbox!CutoverAssumption, IInv, NEW t \in Tabs, Inbox!Record(t)
  PROVE  Sound
<1> DEFINE j == plan[t]
           known == Inbox!Row(t)
           mine == known.pend # None /\ known.pend.ev = j.ev
           told == {o[1] : o \in j.out}
           next == IF mine THEN Inbox!WithOutcomes(known, j.out) ELSE known
           left == next.pend.plan \ Inbox!Observed(next.pend)
           confirming == [j EXCEPT !.st = "confirming", !.out = {}, !.todo = left]
           still == next.pend # None
           delivered == [j EXCEPT !.st = "delivered", !.out = {}, !.still = still]
<1>1. /\ j.st \in {"publishing", "confirming"} /\ UNCHANGED <<held, took, owed>>
      /\ j \in Inbox!Job /\ JobOK(took, j)
      /\ EvidenceOK(took, known) /\ OwedOK(known, owed[DeviceOf[t]])
      /\ known.pend # None => known.pend.ev = known.cur
  BY TabOK DEF Inbox!Record
<1>2. j.ev \in Inbox!Declaration
  BY <1>1 DEF JobOK
<1>3. CASE mine /\ ~ (told \subseteq known.pend.plan)
  <2>1. Inbox!Set(t, Inbox!Idle) /\ UNCHANGED db
    BY <1>3 DEF Inbox!Record, Inbox!End
  <2> QED
    BY <1>1, <2>1, IdleOK, JobStep
<1>4. CASE ~ (mine /\ ~ (told \subseteq known.pend.plan))
  <2>1. /\ Inbox!Save(t, next)
        /\ \/ next.pend # None /\ Inbox!Set(t, confirming)
           \/ Inbox!Set(t, delivered)
           \/ Inbox!Set(t, Inbox!Idle)
    BY <1>4 DEF Inbox!Record, Inbox!End
  <2>2. EvidenceOK(took, next) /\ OwedOK(next, owed[DeviceOf[t]]) /\ Forward(known, next)
    <3>1. CASE mine
      <4>1. \A o \in j.out : o[2] = "observed" => Had(took, known.cur, o[1])
        BY <1>1, <3>1 DEF JobOK
      <4>2. EvidenceOK(took, next) /\ Follows(known, next)
        <5> HIDE DEF j, known
        <5> QED
          BY <1>1, <3>1, <4>1, WithOutcomesOK
      <4> HIDE DEF next
      <4> QED
        BY <1>1, <4>2, FollowsStep
    <3>2. CASE ~ mine
      BY <1>1, <3>2 DEF Forward, Kept
    <3> QED
      BY <3>1, <3>2
  <2> HIDE DEF next
  <2>3. ASSUME next.pend # None PROVE confirming \in Inbox!Job /\ JobOK(took, confirming)
    <3>1. left \in SUBSET Inbox!Targets
      BY <2>2, <2>3 DEF EvidenceOK, Inbox!Evidence, Inbox!Delivery
    <3> HIDE DEF left
    <3> QED
      BY <1>1, <1>2, <3>1 DEF Inbox!Job, JobOK
  <2>4. delivered \in Inbox!Job /\ JobOK(took, delivered)
    <3> HIDE DEF still
    <3>1. still \in BOOLEAN
      BY DEF still
    <3> QED
      BY <1>1, <3>1 DEF Inbox!Job, JobOK
  <2>5. PICK k \in Inbox!Job : JobOK(took, k) /\ Inbox!Set(t, k)
    <3> HIDE DEF confirming, delivered
    <3> QED
      BY <2>1, <2>3, <2>4, IdleOK
  <2> HIDE DEF j
  <2> QED
    BY <1>1, <2>1, <2>2, <2>5, SaveStep
<1> QED
  BY <1>3, <1>4

\* The same bytes again, under another plan.
LEMMA RestagedOK ==
  ASSUME Inbox!CutoverAssumption, NEW past, NEW known, EvidenceOK(past, known), NEW goal \in SUBSET Shared
  PROVE  LET new == Inbox!Restaged(known, goal)
         IN /\ EvidenceOK(past, new) /\ new.cur = known.cur
            /\ new.pend # None /\ new.pend.plan = goal
            /\ \A c \in known.recs : \E x \in new.recs : SameChange(x, c)
<1> DEFINE pend == Inbox!Pending(known.cur, goal, goal)
           more(c) == IF c.ev = known.cur /\ c.phase = "awaiting" /\ ~ (\E y \in c.tries : y.plan = goal)
                      THEN [c EXCEPT !.tries = @ \cup {Inbox!Try(goal)}] ELSE c
           recs == {more(c) : c \in known.recs}
           new == [known EXCEPT !.pend = pend, !.recs = recs]
<1>0. new = Inbox!Restaged(known, goal)
  BY DEF Inbox!Restaged
<1>1. known \in Inbox!Evidence /\ known.cur \in Inbox!Declaration /\ None \notin Inbox!Delivery
  BY GenesisIs DEF EvidenceOK, Inbox!Evidence
<1>2. pend \in Inbox!Delivery /\ pend.ev = known.cur /\ pend.plan = goal /\ Inbox!Observed(pend) = {}
  BY <1>1 DEF Inbox!Pending, Inbox!Delivery, Inbox!Observed, Inbox!Targets
<1>3. Inbox!Try(goal) \in Inbox!Attempt /\ \A e : AttemptOK(past, Inbox!Try(goal), e)
  BY DEF Inbox!Try, Inbox!Attempt, AttemptOK
<1>4. ASSUME NEW c \in known.recs
      PROVE  more(c) \in Inbox!Cutover /\ CutoverOK(past, more(c)) /\ SameChange(more(c), c)
  <2>1. c \in Inbox!Cutover /\ CutoverOK(past, c)
    BY DEF EvidenceOK, Inbox!Evidence
  <2> DEFINE tries == c.tries \cup {Inbox!Try(goal)}
             tried == [c EXCEPT !.tries = tries]
  <2>2. \A y \in tries : y \in Inbox!Attempt /\ AttemptOK(past, y, c.ev)
    BY <1>3, <2>1 DEF Inbox!Cutover, CutoverOK
  <2> HIDE DEF tries
  <2>3. tried \in Inbox!Cutover /\ CutoverOK(past, tried) /\ SameChange(tried, c)
    BY <2>1, <2>2, WithTries
  <2>4. more(c) = tried \/ more(c) = c
    BY DEF tries
  <2>5. SameChange(c, c)
    BY DEF SameChange
  <2> QED
    BY <2>1, <2>3, <2>4, <2>5
<1> HIDE DEF more, pend
<1>5. /\ recs \subseteq Inbox!Cutover
      /\ \A a, b \in recs : a.ev = b.ev => a = b
      /\ \A x \in recs : CutoverOK(past, x) /\ (x.ev = known.cur \/ Inbox!Newer(known.cur, x.ev))
      /\ \A c \in known.recs : \E x \in recs : SameChange(x, c)
  BY <1>4 DEF EvidenceOK, SameChange
<1> HIDE DEF recs
<1>6. new \in Inbox!Evidence /\ new.cur = known.cur /\ new.pend = pend /\ new.recs = recs
  BY <1>1, <1>2, <1>5 DEF Inbox!Evidence
<1> HIDE DEF new
<1>7. EvidenceOK(past, new)
  BY <1>2, <1>5, <1>6 DEF EvidenceOK
<1> QED
  BY <1>0, <1>1, <1>2, <1>5, <1>6, <1>7

LEMMA RedistributeStep ==
  ASSUME Inbox!CutoverAssumption, IInv, NEW t \in Tabs, Inbox!Redistribute(t)
  PROVE  Sound
<1> DEFINE j == plan[t]
           known == Inbox!Row(t)
           goal == Shared \ Inbox!Removed(known)
           needed == \/ j.st = "checked"
                     \/ ~ (goal \subseteq j.plan)
                     \/ j.still /\ goal # j.plan
           expected == /\ Inbox!Declared(known) /\ known.cur = j.ev
                       /\ known.pend # None => known.pend.plan = j.plan
           new == Inbox!Restaged(known, goal)
           staged == [Inbox!Idle EXCEPT !.st = "staged"]
<1>1. /\ UNCHANGED <<held, took, owed>> /\ j \in Inbox!Job /\ JobOK(took, j)
      /\ EvidenceOK(took, known) /\ OwedOK(known, owed[DeviceOf[t]])
  BY TabOK DEF Inbox!Redistribute
<1>2. CASE needed /\ expected /\ goal # {}
  <2>1. Inbox!Save(t, new) /\ Inbox!Set(t, staged)
    BY <1>2 DEF Inbox!Redistribute
  <2>2. staged \in Inbox!Job /\ JobOK(took, staged)
    BY DEF Inbox!Idle, Inbox!Job, JobOK
  <2>3. goal # j.plan
    BY <1>1, <1>2 DEF JobOK
  <2>4. known.pend # None => known.pend.plan # goal
    BY <1>2, <2>3
  <2>5. goal \in SUBSET Shared
    OBVIOUS
  <2> HIDE DEF goal, known
  <2>6. /\ EvidenceOK(took, new) /\ new.cur = known.cur /\ new.pend # None /\ new.pend.plan = goal
        /\ \A c \in known.recs : \E x \in new.recs : SameChange(x, c)
    BY <1>1, <2>5, RestagedOK
  <2> HIDE DEF new
  <2>7. OwedOK(new, owed[DeviceOf[t]])
    BY <1>1, <2>6 DEF OwedOK, SameChange
  <2>8. Forward(known, new)
    BY <2>4, <2>6 DEF Forward, Kept
  <2> HIDE DEF staged
  <2> QED
    BY <1>1, <2>1, <2>2, <2>6, <2>7, <2>8, SaveStep DEF known
<1>3. CASE ~ (needed /\ expected /\ goal # {})
  <2>1. Inbox!Set(t, Inbox!Idle) /\ UNCHANGED db
    BY <1>3 DEF Inbox!Redistribute, Inbox!End
  <2> QED
    BY <1>1, <2>1, IdleOK, JobStep
<1> QED
  BY <1>2, <1>3

-----------------------------------------------------------------------------
(* Discovery.                                                              *)

LEMMA StartResolveStep ==
  ASSUME Inbox!CutoverAssumption, IInv, NEW t \in Tabs, Inbox!StartResolve(t)
  PROVE  Sound
<1> DEFINE j(again) == [Inbox!Idle EXCEPT !.st = "resolving", !.again = again]
<1>1. UNCHANGED <<db, held, took, owed>>
  BY DEF Inbox!StartResolve
<1>2. PICK again \in BOOLEAN : Inbox!Set(t, j(again))
  BY DEF Inbox!StartResolve
<1>3. j(again) \in Inbox!Job /\ JobOK(took, j(again))
  BY DEF Inbox!Idle, Inbox!Job, JobOK
<1> HIDE DEF j
<1> QED
  BY <1>1, <1>2, <1>3, JobStep

LEMMA AskReplacementStep ==
  ASSUME Inbox!CutoverAssumption, IInv, NEW t \in Tabs, Inbox!AskReplacement(t)
  PROVE  Sound
<1> DEFINE ask(c) == UNION {IF y.seen = {} THEN y.plan ELSE y.plan \ y.done : y \in c.tries}
                       \ c.blocked
           out(c, said) == {<<r, said[r]>> : r \in ask(c)}
           j(c, o) == [plan[t] EXCEPT !.st = "answered", !.ev = c.ev, !.out = o]
<1>1. /\ UNCHANGED <<db, held, took, owed>> /\ plan[t] \in Inbox!Job /\ EvidenceOK(took, Inbox!Row(t))
      /\ plan[t].st = "resolving"
  BY TabOK DEF Inbox!AskReplacement
<1>2. PICK c \in Inbox!Row(t).recs :
        \E said \in [ask(c) -> {"failed", "observed", "absent"}] :
          /\ \A r \in ask(c) : said[r] \in Inbox!Answer(r, c.ev)
          /\ Inbox!Set(t, j(c, out(c, said)))
  BY DEF Inbox!AskReplacement
<1>3. PICK said \in [ask(c) -> {"failed", "observed", "absent"}] :
        /\ \A r \in ask(c) : said[r] \in Inbox!Answer(r, c.ev)
        /\ Inbox!Set(t, j(c, out(c, said)))
  BY <1>2
<1>4. c \in Inbox!Cutover /\ c.ev \in Inbox!Declaration /\ c.ev # None
  BY <1>1, GenesisIs DEF EvidenceOK, Inbox!Evidence, Inbox!Cutover
<1>5. ask(c) \subseteq Inbox!Targets /\ ask(c) \subseteq Inbox!AllRelays
  BY <1>4 DEF Inbox!Cutover, Inbox!Attempt, Inbox!Targets, Inbox!AllRelays
<1>6. /\ out(c, said) \in SUBSET (Inbox!Targets \X {"acked", "failed", "observed", "absent"})
      /\ \A o \in out(c, said) : o[2] = "observed" => Had(took, c.ev, o[1])
  <2> HIDE DEF ask
  <2>1. ASSUME NEW r \in ask(c), said[r] = "observed" PROVE Had(took, c.ev, r)
    <3>1. held[r] = c.ev
      BY <1>3, <2>1 DEF Inbox!Answer
    <3> QED
      BY <1>4, <1>5, <2>1, <3>1 DEF IInv, RelaysOK
  <2> QED
    BY <1>5, <2>1
<1> HIDE DEF out
<1>7. j(c, out(c, said)) \in Inbox!Job /\ JobOK(took, j(c, out(c, said)))
  BY <1>1, <1>4, <1>6 DEF Inbox!Job, JobOK
<1> HIDE DEF j
<1> QED
  BY <1>1, <1>3, <1>7, JobStep

\* The cutover of e is told what relays answered about it.
LEMMA ToldOK ==
  ASSUME Inbox!CutoverAssumption, NEW past, NEW known, EvidenceOK(past, known), NEW e, NEW seen, NEW absent,
         \A r \in seen : Had(past, e, r)
  PROVE  LET new == Inbox!WithAnswers(known, e, seen, absent)
         IN EvidenceOK(past, new) /\ Follows(known, new) /\ new.pend = known.pend /\ new.cur = known.cur
<1> DEFINE told(c) == IF c.ev = e THEN Inbox!Answered(c, seen, absent) ELSE c
           recs == {told(c) : c \in known.recs}
           new == [known EXCEPT !.recs = recs]
<1>1. ASSUME NEW c \in known.recs
      PROVE  told(c) \in Inbox!Cutover /\ CutoverOK(past, told(c)) /\ SameChange(told(c), c)
  <2>1. c \in Inbox!Cutover /\ CutoverOK(past, c) /\ SameChange(c, c)
    BY DEF EvidenceOK, Inbox!Evidence, SameChange
  <2>2. CASE c.ev = e
    BY <2>1, <2>2, AnsweredOK
  <2>3. CASE c.ev # e
    BY <2>1, <2>3
  <2> QED
    BY <2>2, <2>3
<1>2. new = Inbox!WithAnswers(known, e, seen, absent)
  BY DEF Inbox!WithAnswers
<1> HIDE DEF told
<1>3. /\ recs \subseteq Inbox!Cutover
      /\ \A a, b \in recs : a.ev = b.ev => a = b
      /\ \A x \in recs : CutoverOK(past, x) /\ (x.ev = known.cur \/ Inbox!Newer(known.cur, x.ev))
      /\ \A c \in known.recs : \E x \in recs : SameChange(x, c)
  BY <1>1 DEF EvidenceOK, SameChange
<1> HIDE DEF recs
<1>4. /\ new \in Inbox!Evidence /\ new.cur = known.cur /\ new.pend = known.pend /\ new.recs = recs
      /\ new.excl = known.excl
  BY <1>3 DEF EvidenceOK, Inbox!Evidence
<1> HIDE DEF new
<1>5. EvidenceOK(past, new)
  BY <1>3, <1>4 DEF EvidenceOK
<1>6. Follows(known, new)
  BY <1>3, <1>4 DEF Follows, Keeps
<1> QED
  BY <1>2, <1>4, <1>5, <1>6

LEMMA RecordAnswerStep ==
  ASSUME Inbox!CutoverAssumption, IInv, NEW t \in Tabs, Inbox!RecordAnswer(t)
  PROVE  Sound
<1> DEFINE j == plan[t]
           known == Inbox!Row(t)
           of(s) == {o[1] : o \in {x \in j.out : x[2] = s}}
           told == {o[1] : o \in j.out}
           ok == \A c \in known.recs :
                   c.ev = j.ev => told \cap c.blocked = {} /\ c.phase = "awaiting"
           noted == Inbox!WithAnswers(known, j.ev, of("observed"), of("absent"))
           planned == {o \in j.out : o[1] \in known.pend.plan}
           next == IF ~ ok THEN known
                   ELSE IF known.pend # None /\ known.pend.ev = j.ev
                   THEN Inbox!WithOutcomes(noted, planned)
                   ELSE noted
           ended == [Inbox!Idle EXCEPT !.st = "resolving", !.again = plan[t].again]
<1>1. /\ j.st = "answered" /\ UNCHANGED <<held, took, owed>>
      /\ j \in Inbox!Job /\ JobOK(took, j)
      /\ EvidenceOK(took, known) /\ OwedOK(known, owed[DeviceOf[t]])
      /\ known.pend # None => known.pend.ev = known.cur
      /\ known.cur \in Inbox!Declaration
  BY TabOK DEF Inbox!RecordAnswer
<1>2. Inbox!Save(t, next) /\ Inbox!Set(t, ended)
  BY DEF Inbox!RecordAnswer
<1>3. ended \in Inbox!Job /\ JobOK(took, ended)
  <2>1. ended \in Inbox!Job /\ ended.st = "resolving"
    BY <1>1, IdleOK DEF Inbox!Job
  <2> HIDE DEF ended
  <2> QED
    BY <2>1 DEF JobOK
<1>4. /\ \A o \in j.out : o[2] = "observed" => Had(took, j.ev, o[1])
      /\ \A r \in of("observed") : Had(took, j.ev, r)
  BY <1>1 DEF JobOK
<1>5. EvidenceOK(took, noted) /\ Follows(known, noted) /\ noted.pend = known.pend /\ noted.cur = known.cur
  <2> HIDE DEF of, j, known
  <2> QED
    BY <1>1, <1>4, ToldOK
<1> HIDE DEF noted, ok
<1>6. EvidenceOK(took, next) /\ Forward(known, next) /\ OwedOK(next, owed[DeviceOf[t]])
  <2>1. CASE next = known
    BY <1>1, <2>1 DEF Forward, Kept
  <2>2. CASE next = noted
    BY <1>1, <1>5, <2>2, FollowsStep
  <2>3. CASE known.pend # None /\ known.pend.ev = j.ev /\ next = Inbox!WithOutcomes(noted, planned)
    <3>1. noted.pend # None /\ \A o \in planned : o[2] = "observed" => Had(took, noted.cur, o[1])
      BY <1>1, <1>4, <1>5, <2>3
    <3> HIDE DEF planned, known, j
    <3>2. EvidenceOK(took, next) /\ Follows(noted, next)
      BY <1>5, <2>3, <3>1, WithOutcomesOK
    <3> HIDE DEF next
    <3>3. noted.cur \in Inbox!Declaration /\ next.cur \in Inbox!Declaration
      BY <1>5, <3>2 DEF EvidenceOK, Inbox!Evidence
    <3>4. Follows(known, next)
      BY <1>1, <1>5, <3>2, <3>3, FollowsTwice
    <3> QED
      BY <1>1, <3>2, <3>4, FollowsStep
  <2> QED
    BY <2>1, <2>2, <2>3
<1> HIDE DEF next, ended, known
<1> QED
  BY <1>1, <1>2, <1>3, <1>6, SaveStep DEF known

LEMMA FiniteImage ==
  ASSUME NEW S, IsFiniteSet(S), NEW f, NEW T, \A y \in T : \E x \in S : y = f[x]
  PROVE  IsFiniteSet(T)
<1> DEFINE X == {x \in S : f[x] \in T}
           g == [x \in X |-> f[x]]
<1>1. IsFiniteSet(X)
  BY FS_Subset
<1>2. g \in Surjection(X, T)
  BY DEF Surjection
<1> HIDE DEF X, g
<1> QED
  BY <1>1, <1>2, FS_Surjection

LEMMA FetchStep ==
  ASSUME Inbox!CutoverAssumption, IInv, NEW t \in Tabs, Inbox!Fetch(t)
  PROVE  Sound
<1> DEFINE asked(src) == {x \in src : held[x] # None}
           got(src) == {<<held[r], r>> : r \in asked(src)}
           j(g) == [Inbox!Idle EXCEPT !.st = "fetched", !.again = plan[t].again, !.got = g]
<1>1. UNCHANGED <<db, held, took, owed>> /\ plan[t] \in Inbox!Job
  BY TabOK DEF Inbox!Fetch
<1>2. PICK src \in SUBSET (Shared \cup Own) :
        (\E r \in src : held[r] # None) /\ Inbox!Set(t, j(got(src)))
  BY DEF Inbox!Fetch
<1>3. /\ asked(src) \subseteq Inbox!Targets /\ IsFiniteSet(asked(src)) /\ asked(src) # {}
      /\ asked(src) \subseteq Inbox!AllRelays
  <2>1. IsFiniteSet(Shared \cup Own)
    BY SameFinite, FS_Union DEF Inbox!CutoverAssumption
  <2>2. IsFiniteSet(asked(src))
    BY <2>1, FS_Subset
  <2> QED
    BY <1>2, <2>2 DEF Inbox!Targets, Inbox!AllRelays
<1>4. \A r \in asked(src) : held[r] \in Inbox!Declaration /\ Had(took, held[r], r)
  BY <1>3 DEF IInv, Inbox!TypeOK, RelaysOK
<1> HIDE DEF asked
<1>5. /\ got(src) \in SUBSET (Inbox!Declaration \X Inbox!Targets) /\ got(src) # {}
      /\ \A g \in got(src) : Had(took, g[1], g[2])
  <2>1. \A g \in got(src) : g \in Inbox!Declaration \X Inbox!Targets /\ Had(took, g[1], g[2])
    BY <1>3, <1>4
  <2> QED
    BY <2>1, <1>3
<1>6. IsFiniteSet(got(src))
  <2> DEFINE f == [r \in asked(src) |-> <<held[r], r>>]
  <2>1. \A g \in got(src) : \E r \in asked(src) : g = f[r]
    OBVIOUS
  <2> HIDE DEF f, got
  <2> QED
    BY <1>3, <2>1, FiniteImage
<1> HIDE DEF got
<1>7. j(got(src)) \in Inbox!Job /\ JobOK(took, j(got(src)))
  <2>1. /\ j(got(src)) \in Inbox!Job /\ j(got(src)).st = "fetched" /\ j(got(src)).got = got(src)
    BY <1>1, <1>5, IdleOK DEF Inbox!Job
  <2> HIDE DEF j
  <2> QED
    BY <1>5, <1>6, <2>1 DEF JobOK
<1> HIDE DEF j
<1> QED
  BY <1>1, <1>2, <1>7, JobStep

LEMMA MergeStep ==
  ASSUME Inbox!CutoverAssumption, IInv, NEW t \in Tabs, Inbox!Merge(t)
  PROVE  Sound
<1> DEFINE got == plan[t].got
           news == {g[1] : g \in got}
           n == Inbox!Cardinality(news)
           next(list) == Inbox!MergedAll(Inbox!Row(t), list, n, got)
           ended(list) == [Inbox!Idle EXCEPT !.st = "merged", !.ev = list[n], !.again = plan[t].again]
<1>1. /\ UNCHANGED <<held, took, owed>> /\ plan[t] \in Inbox!Job
      /\ IsFiniteSet(got) /\ got # {} /\ \A g \in got : Had(took, g[1], g[2])
      /\ got \in SUBSET (Inbox!Declaration \X Inbox!Targets)
      /\ EvidenceOK(took, Inbox!Row(t)) /\ OwedOK(Inbox!Row(t), owed[DeviceOf[t]])
  <2>1. plan[t] \in Inbox!Job /\ JobOK(took, plan[t]) /\ plan[t].st = "fetched"
    BY TabOK DEF Inbox!Merge
  <2> QED
    BY <2>1, TabOK DEF Inbox!Merge, Inbox!Job, JobOK
<1>2. PICK list \in [1 .. n -> news] : Inbox!Save(t, next(list)) /\ Inbox!Set(t, ended(list))
  BY DEF Inbox!Merge, Inbox!News
<1> HIDE DEF got
<1>3. IsFiniteSet(news) /\ news # {} /\ news \subseteq Inbox!Declaration
  <2>1. IsFiniteSet(news)
    <3> DEFINE f == [g \in got |-> g[1]]
    <3>1. \A e \in news : \E g \in got : e = f[g]
      OBVIOUS
    <3> HIDE DEF f, news
    <3> QED
      BY <1>1, <3>1, FiniteImage
  <2> QED
    BY <1>1, <2>1
<1>4. n \in Nat /\ n # 0
  <2> HIDE DEF news
  <2>1. n = Cardinality(news)
    BY SameCardinality
  <2> HIDE DEF n
  <2> QED
    BY <1>3, <2>1, FS_CardinalityType, FS_EmptySet
<1>5. \A e \in news : \A r \in Inbox!Sources(got, e) : Had(took, e, r)
  BY <1>1 DEF Inbox!Sources
<1> HIDE DEF n, news
<1>6. ListOK(took, list, n, got)
  BY <1>2, <1>3, <1>5 DEF ListOK
<1>7. EvidenceOK(took, next(list)) /\ Follows(Inbox!Row(t), next(list))
  BY <1>1, <1>4, <1>6, MergedAllOK
<1>8. ended(list) \in Inbox!Job /\ JobOK(took, ended(list))
  <2>1. list[n] \in Inbox!Declaration
    BY <1>2, <1>3, <1>4
  <2>2. ended(list) \in Inbox!Job /\ ended(list).st = "merged"
    BY <1>1, <2>1, IdleOK DEF Inbox!Job
  <2> HIDE DEF ended
  <2> QED
    BY <2>2 DEF JobOK
<1> HIDE DEF next, ended
<1>9. Forward(Inbox!Row(t), next(list)) /\ OwedOK(next(list), owed[DeviceOf[t]])
  BY <1>1, <1>7, FollowsStep
<1> QED
  BY <1>1, <1>2, <1>7, <1>8, <1>9, SaveStep

LEMMA ReaddStep ==
  ASSUME Inbox!CutoverAssumption, IInv, NEW t \in Tabs, Inbox!Readd(t)
  PROVE  Sound
<1> DEFINE j == plan[t]
           known == Inbox!Row(t)
           read == known.cur = j.ev
           next == IF read THEN Inbox!Readding(known, j.ev) ELSE known
           checked == [Inbox!Idle EXCEPT !.st = "checked", !.ev = j.ev]
<1>1. /\ UNCHANGED <<held, took, owed>> /\ j \in Inbox!Job
      /\ EvidenceOK(took, known) /\ OwedOK(known, owed[DeviceOf[t]])
  BY TabOK DEF Inbox!Readd
<1>2. Inbox!Save(t, next) /\ (Inbox!Set(t, checked) \/ Inbox!Set(t, Inbox!Idle))
  BY DEF Inbox!Readd, Inbox!End
<1>3. checked \in Inbox!Job /\ JobOK(took, checked)
  <2>1. checked \in Inbox!Job /\ checked.st = "checked" /\ checked.plan = {}
    BY <1>1, IdleOK DEF Inbox!Job
  <2> HIDE DEF checked
  <2> QED
    BY <2>1 DEF JobOK
<1>4. PICK k \in Inbox!Job : JobOK(took, k) /\ Inbox!Set(t, k)
  <2> HIDE DEF checked
  <2> QED
    BY <1>2, <1>3, IdleOK
<1>5. /\ EvidenceOK(took, next) /\ next.cur = known.cur /\ next.pend = known.pend
      /\ next.recs = known.recs
  <2> HIDE DEF known, j
  <2> QED
    BY <1>1, ReaddingOK
<1> HIDE DEF next
<1>6. OwedOK(next, owed[DeviceOf[t]]) /\ Forward(known, next)
  BY <1>1, <1>5 DEF OwedOK, Forward, Kept
<1> QED
  BY <1>1, <1>2, <1>4, <1>5, <1>6, SaveStep

-----------------------------------------------------------------------------
(* The world.                                                              *)

LEMMA AbandonStep ==
  ASSUME Inbox!CutoverAssumption, IInv, NEW t \in Tabs, Inbox!Abandon(t)
  PROVE  Sound
BY IdleOK, JobStep DEF Inbox!Abandon, Inbox!End

LEMMA GraceOverStep ==
  ASSUME Inbox!CutoverAssumption, IInv, NEW d \in Devices, Inbox!GraceOver(d)
  PROVE  Sound
<1> DEFINE known == db[d]
<1>1. PICK c \in known.recs : c.phase = "grace" /\
        db' = [db EXCEPT ![d].recs = (@ \ {c}) \cup {[c EXCEPT !.phase = "over"]}]
  BY DEF Inbox!GraceOver
<1> DEFINE over == [c EXCEPT !.phase = "over"]
           recs == (known.recs \ {c}) \cup {over}
           new == [known EXCEPT !.recs = recs]
<1>2. db' = [db EXCEPT ![d] = new]
  BY <1>1
<1>3. known \in Inbox!Evidence /\ EvidenceOK(took, known) /\ OwedOK(known, owed[d])
  BY DEF IInv, EvidenceOK
<1>4. over \in Inbox!Cutover /\ CutoverOK(took, over) /\ SameChange(over, c)
  <2>1. c \in Inbox!Cutover /\ CutoverOK(took, c)
    BY <1>3 DEF EvidenceOK, Inbox!Evidence
  <2> QED
    BY <1>1, <2>1 DEF Inbox!Cutover, CutoverOK, SameChange
<1> HIDE DEF over
<1>5. /\ recs \subseteq Inbox!Cutover
      /\ \A a, b \in recs : a.ev = b.ev => a = b
      /\ \A x \in recs : CutoverOK(took, x) /\ (x.ev = known.cur \/ Inbox!Newer(known.cur, x.ev))
      /\ \A y \in known.recs : \E x \in recs : SameChange(x, y)
  BY <1>1, <1>3, <1>4 DEF EvidenceOK, Inbox!Evidence, SameChange
<1> HIDE DEF recs
<1>6. /\ new \in Inbox!Evidence /\ new.cur = known.cur /\ new.pend = known.pend /\ new.recs = recs
      /\ new.excl = known.excl
  BY <1>3, <1>5 DEF Inbox!Evidence
<1> HIDE DEF new, known
<1>7. EvidenceOK(took, new) /\ Follows(known, new)
  BY <1>3, <1>5, <1>6 DEF EvidenceOK, Follows, Keeps
<1>8. Forward(known, new) /\ OwedOK(new, owed[d])
  BY <1>3, <1>7, FollowsStep
<1>9. /\ UNCHANGED <<plan, held, took, owed>>
      /\ plan \in [Tabs -> Inbox!Job] /\ \A t \in Tabs : JobOK(took, plan[t])
      /\ owed \in [Devices -> SUBSET [inbox : Inboxes, ev : Inbox!Declaration]]
  BY DEF Inbox!GraceOver, IInv, Inbox!TypeOK
<1> QED
  BY <1>2, <1>7, <1>8, <1>9, RowStep DEF known

LEMMA OtherClientStep ==
  ASSUME Inbox!CutoverAssumption, IInv, Inbox!OtherClient
  PROVE  Sound
<1>1. PICK at \in 1 .. MaxAt, to \in {{}, First}, r \in Shared :
        Inbox!Takes(r, [at |-> at, by |-> Other, to |-> to])
  BY DEF Inbox!OtherClient
<1>2. [at |-> at, by |-> Other, to |-> to] \in Inbox!Declaration /\ r \in Inbox!AllRelays
  BY DEF Inbox!CutoverAssumption, Inbox!Declaration, Inbox!AllRelays
<1>3. /\ UNCHANGED <<db, plan, owed>> /\ plan \in [Tabs -> Inbox!Job]
      /\ \A t \in Tabs : JobOK(took, plan[t])
  BY DEF Inbox!OtherClient, IInv, Inbox!TypeOK
<1>4. \A t \in Tabs : JobOK(took', plan[t])
  <2>1. took \subseteq took'
    BY <1>1 DEF Inbox!Takes
  <2> QED
    BY <1>3, <2>1, Later
<1> QED
  BY <1>1, <1>2, <1>3, <1>4, TakesStep

-----------------------------------------------------------------------------
(* The invariant, and what follows.                                        *)

LEMMA InitOK ==
  ASSUME Inbox!CutoverAssumption PROVE Inbox!Init => IInv
<1> SUFFICES ASSUME Inbox!Init PROVE IInv
  OBVIOUS
<1> DEFINE known == [cur |-> Inbox!Genesis, shared |-> TRUE, usable |-> Inbox!Genesis,
                     pend |-> None, recs |-> {}, excl |-> [r \in Inbox!AllRelays |-> None]]
<1>1. /\ db = [d \in Devices |-> known] /\ plan = [t \in Tabs |-> Inbox!Idle]
      /\ held = [r \in Inbox!AllRelays |-> IF r \in Shared THEN Inbox!Genesis ELSE None]
      /\ took = {} /\ owed = [d \in Devices |-> {}]
  BY DEF Inbox!Init
<1>2. Inbox!Genesis \in Inbox!Declaration
  BY GenesisIs
<1>3. known \in Inbox!Evidence /\ known.pend = None /\ known.recs = {} /\ EvidenceOK(took, known)
  BY <1>2 DEF Inbox!Evidence, EvidenceOK
<1> HIDE DEF known
<1>4. \A d \in Devices : db[d] = known /\ owed[d] = {}
  BY <1>1
<1>5. \A t \in Tabs : plan[t] = Inbox!Idle
  BY <1>1
<1>6. RelaysOK(took, held)
  BY <1>1 DEF RelaysOK, Had
<1>7. /\ db \in [Devices -> Inbox!Evidence] /\ plan \in [Tabs -> Inbox!Job]
      /\ held \in [Inbox!AllRelays -> Inbox!Declaration \cup {None}]
      /\ owed \in [Devices -> SUBSET [inbox : Inboxes, ev : Inbox!Declaration]]
  BY <1>1, <1>2, <1>3, IdleOK
<1>8. Inbox!TypeOK
  BY <1>1, <1>3, <1>4, <1>7 DEF Inbox!TypeOK
<1> QED
  BY <1>3, <1>4, <1>5, <1>6, <1>8, IdleOK DEF IInv, OwedOK

LEMMA NextOK ==
  ASSUME Inbox!CutoverAssumption, IInv, [Inbox!Next]_(Inbox!vars)
  PROVE  Sound
<1>1. CASE UNCHANGED Inbox!vars
  <2>1. IInv'
    BY <1>1 DEF Inbox!vars, IInv, Inbox!TypeOK
  <2> QED
    BY <1>1, <2>1, Unmoved DEF Inbox!vars, Sound
<1>2. ASSUME NEW t \in Tabs,
             \/ Inbox!Review(t) \/ Inbox!Sign(t) \/ Inbox!Stage(t)
             \/ Inbox!StartDelivery(t) \/ Inbox!Publish(t) \/ Inbox!Record(t) \/ Inbox!ReadBack(t)
             \/ Inbox!Redistribute(t)
      PROVE  Sound
  BY <1>2, ReviewStep, SignStep, StageStep, StartDeliveryStep, PublishStep, RecordStep,
     ReadBackStep, RedistributeStep
<1>3. ASSUME NEW t \in Tabs,
             \/ Inbox!StartResolve(t) \/ Inbox!AskReplacement(t) \/ Inbox!RecordAnswer(t)
             \/ Inbox!Fetch(t) \/ Inbox!Merge(t) \/ Inbox!Readd(t) \/ Inbox!Abandon(t)
      PROVE  Sound
  BY <1>3, StartResolveStep, AskReplacementStep, RecordAnswerStep, FetchStep, MergeStep,
     ReaddStep, AbandonStep
<1> QED
  BY <1>1, <1>2, <1>3, GraceOverStep, OtherClientStep DEF Inbox!Next

LEMMA AlwaysIInv ==
  ASSUME Inbox!CutoverAssumption PROVE Inbox!Spec => []IInv
<1>1. Inbox!Init => IInv
  BY InitOK
<1>2. IInv /\ [Inbox!Next]_(Inbox!vars) => IInv'
  BY NextOK DEF Sound
<1> QED
  BY <1>1, <1>2, PTL DEF Inbox!Spec

\* An inbox a change replaced is in a cutover; while that is not over the inbox is
\* read, and when it is over a relay has had the replacement.
LEMMA IInvReads ==
  ASSUME Inbox!CutoverAssumption, IInv
  PROVE  Inbox!ReadUntilConfirmed /\ Inbox!ObservedIsHeld
<1>1. Inbox!ReadUntilConfirmed
  <2> SUFFICES ASSUME NEW d \in Devices, NEW o \in owed[d]
               PROVE  \/ o.inbox \in Inbox!Reads(db[d]) \cup Inbox!Removed(db[d])
                      \/ \E x \in owed[d], r \in Shared :
                           x.inbox = o.inbox /\ <<x.ev, r>> \in took
    BY DEF Inbox!ReadUntilConfirmed
  <2>1. PICK c \in db[d].recs : c.ev = o.ev /\ o.inbox \in c.old \ c.blocked
    BY DEF IInv, OwedOK
  <2>2. c \in Inbox!Cutover /\ CutoverOK(took, c)
    BY DEF IInv, EvidenceOK, Inbox!Evidence
  <2>3. CASE c.phase # "over"
    <3>1. o.inbox \in Inbox!Recovering(db[d])
      BY <2>1, <2>3 DEF Inbox!Recovering
    <3> QED
      BY <3>1 DEF Inbox!Reads
  <2>4. CASE c.phase = "over"
    <3>1. PICK r \in Shared : Had(took, c.ev, r)
      BY <2>2, <2>4 DEF CutoverOK
    <3>2. c.ev # Inbox!Genesis
      <4>1. c.ev.by \in Devices /\ Inbox!Genesis.by = Other /\ Other \notin Devices
        BY <2>2, GenesisIs DEF CutoverOK, Inbox!CutoverAssumption
      <4> QED
        BY <4>1
    <3> QED
      BY <2>1, <3>1, <3>2 DEF Had
  <2> QED
    BY <2>3, <2>4
<1>2. Inbox!ObservedIsHeld
  <2> SUFFICES ASSUME NEW d \in Devices
               PROVE  LET known == db[d]
                          had(e, r) == <<e, r>> \in took \/ (e = Inbox!Genesis /\ r \in Shared)
                      IN /\ known.pend # None =>
                              \A r \in Inbox!Observed(known.pend) : had(known.pend.ev, r)
                         /\ \A c \in known.recs : \A y \in c.tries : \A r \in y.seen : had(c.ev, r)
    BY DEF Inbox!ObservedIsHeld
  <2>1. EvidenceOK(took, db[d])
    BY DEF IInv
  <2> QED
    BY <2>1 DEF EvidenceOK, CutoverOK, AttemptOK, Had
<1> QED
  BY <1>1, <1>2

\* Whatever tabs, relays and other clients do, a replaced inbox is read until a
\* relay has the replacement, and nothing is taken for read back that was not.
THEOREM InboxesAreRead ==
  ASSUME Inbox!CutoverAssumption PROVE Inbox!Spec => [](Inbox!TypeOK /\ Inbox!ReadUntilConfirmed /\ Inbox!ObservedIsHeld)
<1>1. IInv => Inbox!TypeOK /\ Inbox!ReadUntilConfirmed /\ Inbox!ObservedIsHeld
  BY IInvReads DEF IInv
<1> QED
  BY <1>1, AlwaysIInv, PTL

\* No outcome of a pending declaration is taken back, and the retained declaration
\* never gives way to an older one.
THEOREM DeclarationsMoveForward ==
  ASSUME Inbox!CutoverAssumption PROVE Inbox!Spec => Inbox!OutcomesKept /\ Inbox!FrontierForward
<1>1. IInv /\ [Inbox!Next]_(Inbox!vars) =>
        [\A d \in Devices :
           LET p == db[d].pend
               q == db'[d].pend
           IN p # None /\ q # None /\ p.ev = q.ev /\ p.plan = q.plan
              => p.acked \subseteq q.acked /\ Inbox!Observed(p) \subseteq Inbox!Observed(q)]_(Inbox!vars)
  BY NextOK DEF Sound, Forward, Kept
<1>2. IInv /\ [Inbox!Next]_(Inbox!vars) =>
        [\A d \in Devices :
           LET a == db[d].cur
               b == db'[d].cur
           IN \/ a = b \/ a.at < b.at
              \/ a.at = b.at /\ Order[b.by] < Order[a.by]]_(Inbox!vars)
  <2> SUFFICES ASSUME IInv, [Inbox!Next]_(Inbox!vars)
               PROVE  \A d \in Devices :
                        LET a == db[d].cur
                            b == db'[d].cur
                        IN \/ a = b \/ a.at < b.at
                           \/ a.at = b.at /\ Order[b.by] < Order[a.by]
    OBVIOUS
  <2>1. IInv' /\ \A d \in Devices : Forward(db[d], db'[d])
    BY NextOK DEF Sound
  <2>2. \A d \in Devices : db[d].cur \in Inbox!Declaration /\ db'[d].cur \in Inbox!Declaration
    BY <2>1 DEF IInv, EvidenceOK, Inbox!Evidence
  <2> QED
    BY <2>1, <2>2 DEF Forward, Inbox!Newer, Inbox!Declaration
<1> QED
  BY <1>1, <1>2, AlwaysIInv, PTL DEF Inbox!Spec, Inbox!OutcomesKept, Inbox!FrontierForward

-----------------------------------------------------------------------------
(* All parts of MCMessages.                                                *)

\* In every part a send owns its row until it has ended, while no tab freezes.
THEOREM OneOwnerInAll == MessagesSpec => []OneOwner
  <1> USE MessageAssumptions
  <1>1. MessagesInit => Init
    BY DEF MessagesInit
  <1>2. [MessagesNext]_messageVars => part' = part
    BY DEF MessagesNext, messageVars, CutoverMoves, DeliveryMoves
  <1>3. [MessagesNext]_messageVars /\ part = "attentive" => [AttentiveNext]_vars
    BY DEF MessagesNext, messageVars, vars
  <1>4. part = "attentive" /\ part' = part => (part = "attentive")'
    OBVIOUS
  <1>5. part # "attentive" /\ part' = part => (part # "attentive")'
    OBVIOUS
  <1>6. MessagesSpec /\ part = "attentive" => AttentiveSpec
    BY <1>1, <1>2, <1>3, <1>4, PTL DEF MessagesSpec, AttentiveSpec
  <1>7. AttentiveSpec => [](OneHolder /\ OwnedUntilExit)
    BY OwnedToTheEnd
  <1>8. OneHolder /\ OwnedUntilExit => OneOwner
    BY DEF OneOwner
  <1>9. part # "attentive" => OneOwner
    BY DEF OneOwner
  <1>10. MessagesSpec /\ part = "attentive" => []OneOwner
    BY <1>6, <1>7, <1>8, PTL
  <1>11. MessagesSpec /\ part # "attentive" => []OneOwner
    BY <1>2, <1>5, <1>9, PTL DEF MessagesSpec
  <1>12. part = "attentive" \/ part # "attentive"
    OBVIOUS
  <1> QED BY <1>10, <1>11, <1>12, PTL

\* Every part takes steps of its own component only.
LEMMA PartsTakeTheirSteps == MessagesSpec => Inbox!Spec /\ Spec
  <1>1. MessagesInit => Inbox!Init /\ Init
    BY DEF MessagesInit
  <1>2. [MessagesNext]_messageVars => [Inbox!Next]_(Inbox!vars)
    BY DEF MessagesNext, messageVars, cutoverVars, CutoverMoves, DeliveryMoves, Inbox!vars
  <1>3. [MessagesNext]_messageVars => [Next]_vars
    BY DEF MessagesNext, AttentiveNext, messageVars, CutoverMoves, vars
  <1> QED BY <1>1, <1>2, <1>3, PTL DEF MessagesSpec, Spec, Inbox!Spec

\* In every part a replaced inbox is read until a relay has the replacement, and
\* nothing counts as read back that the relay has not had.
THEOREM InboxesReadInAll == MessagesSpec => []InboxesRead
  <1> USE MessageAssumptions
  <1>1. Inbox!Spec => [](Inbox!TypeOK /\ Inbox!ReadUntilConfirmed /\ Inbox!ObservedIsHeld)
    BY InboxesAreRead
  <1>2. Inbox!TypeOK /\ Inbox!ReadUntilConfirmed /\ Inbox!ObservedIsHeld => InboxesRead
    BY DEF InboxesRead
  <1> QED BY <1>1, <1>2, PartsTakeTheirSteps, PTL

\* In every part a late result takes nothing back: no outcome of a pending
\* declaration, no newer declaration, no acknowledgement.
THEOREM OutcomesKeptInAll == MessagesSpec => OutcomesKept
  <1> USE MessageAssumptions
  <1>1. Inbox!Spec => Inbox!OutcomesKept /\ Inbox!FrontierForward
    BY DeclarationsMoveForward
  <1>2. Spec => AckKept
    BY AcksAreKept
  <1> QED BY <1>1, <1>2, PartsTakeTheirSteps, PTL DEF OutcomesKept

=============================================================================
