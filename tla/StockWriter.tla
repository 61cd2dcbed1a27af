------------------------------- MODULE StockWriter -------------------------------
(***************************************************************************)
(* The organizer's side of entrusted stock: one selling device per market, *)
(* its journal of accepted orders and handouts, and moving the whole       *)
(* journal to another device.  Composed with the seller's inventory of     *)
(* StockHold over messages that stay on relays and are read in any order,  *)
(* any number of times or never.                                           *)
(*                                                                         *)
(* A device has a label in localStorage and tables in IndexedDB, which     *)
(* are written one after the other and which the browser may clear apart.  *)
(***************************************************************************)
EXTENDS StockHold

CONSTANTS
  NoTransfer,  \* a device that handed nothing over, or captured nothing
  Selling,     \* devices a grant may designate
  Recovering,  \* devices on which closed history is recovered
  Clearable,   \* devices whose IndexedDB may be cleared
  Trading      \* whether the seller sells and edits stock itself

DeviceAssumption ==
  /\ Selling \subseteq Devices /\ Recovering \subseteq Devices /\ Clearable \subseteq Devices
  /\ Trading \in BOOLEAN /\ NoTransfer \notin Devices

VARIABLES
  label,      \* the device's label: its mode, writer and attempted installations
  row,        \* its row of eventMarketOrganizerStockWriters
  journal,    \* its pools and their entries
  handed,     \* the device that decided an order's handout, in this device's entries
  captured,   \* the journal a handover that is being prepared has read
  outgoing,   \* the handover a device has saved
  transfers,  \* devices whose handover was published
  handouts,   \* handout records on relays
  ledger,     \* every sale ever accepted, in order
  released    \* every handout ever decided

deviceVars == <<label, row, journal, handed, captured, outgoing>>
vars == <<over, stock, alloc, hold, imported, reconciled, writer, unpublished, latest,
          committed, closedOut, delivered, sent, closes, label, row, journal, handed,
          captured, outgoing, transfers, handouts, ledger, released>>

-----------------------------------------------------------------------------
(* State.                                                                  *)

NoLabel == [mode |-> "none", writer |-> NoDevice, pools |-> {}]
NoRow == [state |-> "none", writer |-> NoDevice, generation |-> 0, from |-> NoDevice,
          pools |-> {}]
NoPool == [state |-> "none", chain |-> <<>>, recovered |-> FALSE, bare |-> {}]
NoJournal == [p \in Grants |-> NoPool]
NothingHanded == [o \in Orders |-> NoDevice]

Pools(d) == {p \in Grants : journal[d][p].state # "none"}
Accepted(d, p) == {e.order : e \in ToSet(journal[d][p].chain)}
HasOrder(d, o) == \A p \in DOMAIN Lines[o] : o \in Accepted(d, p)

\* The journal of one writer, as a handover or a registration reads it.
Cohort(d, w) == {p \in Pools(d) : writer[p] = w}
ForeignClosed(d, w) ==
  \A p \in Pools(d) \ Cohort(d, w) : journal[d][p].state = "closed" /\ journal[d][p].recovered
Intact(d, w) ==
  /\ ForeignClosed(d, w)
  /\ row[d].writer = w => row[d].pools = Cohort(d, w)

\* Mutant of MayWrite: a device without a current row is not fenced.
MayWriteAnyway(d, w) == row[d].state # "target"

\* assertOrganizerStockWriterCurrent.
MayWrite(d, w) == row[d].state = "none" \/ (row[d].state = "active" /\ row[d].writer = w)

\* What the seller's panel asks of a device before it offers stock actions.
Ready(d) ==
  /\ label[d].mode = "writer"
  /\ row[d].state = "active" /\ row[d].writer = label[d].writer

DeviceInit ==
  /\ label = [d \in Devices |-> NoLabel]
  /\ row = [d \in Devices |-> NoRow]
  /\ journal = [d \in Devices |-> NoJournal]
  /\ handed = [d \in Devices |-> NothingHanded]
  /\ captured = [d \in Devices |-> NoTransfer]
  /\ outgoing = [d \in Devices |-> NoTransfer]
  /\ transfers = {} /\ handouts = {}
  /\ sent = [p \in Grants |-> {}]
  /\ closes = [p \in Grants |-> {}]
  /\ ledger = [p \in Grants |-> <<>>]
  /\ released = {}

Init == ShopInit /\ DeviceInit

-----------------------------------------------------------------------------
(* Setting a device up.                                                    *)

\* A label is only given to a browser that has no stock history.
Create(d, mode) ==
  /\ label[d] = NoLabel /\ row[d] = NoRow /\ Pools(d) = {}
  /\ label' = [label EXCEPT ![d] = [mode |-> mode, writer |-> d, pools |-> {}]]
  /\ UNCHANGED <<row, journal, handed, captured, outgoing, transfers, handouts, sent,
                 closes, ledger, released, shopVars>>

\* A first device, or an intact journal from before rows were kept.
Register(d) ==
  LET w == label[d].writer
  IN  /\ label[d].mode = "writer" /\ row[d] = NoRow
      /\ Intact(d, w) /\ Cohort(d, w) = label[d].pools
      /\ \A p \in Cohort(d, w) : ~journal[d][p].recovered
      /\ Cohort(d, w) # {} \/ w = d
      /\ row' = [row EXCEPT ![d] = [NoRow EXCEPT !.state = "active", !.writer = w,
                                                 !.pools = Cohort(d, w)]]
      /\ UNCHANGED <<label, journal, handed, captured, outgoing, transfers, handouts,
                     sent, closes, ledger, released, shopVars>>

PrepareTarget(d) ==
  /\ label[d].mode = "target" /\ row[d] = NoRow
  /\ \A p \in Pools(d) : journal[d][p].recovered
  /\ row' = [row EXCEPT ![d].state = "target"]
  /\ UNCHANGED <<label, journal, handed, captured, outgoing, transfers, handouts, sent,
                 closes, ledger, released, shopVars>>

\* After a restored handover the label follows the row.
Confirm(d) ==
  /\ label[d].mode = "target" /\ row[d].state = "active"
  /\ Cohort(d, row[d].writer) = row[d].pools
  /\ \A p \in row[d].pools : ~journal[d][p].recovered
  /\ label' = [label EXCEPT ![d] = [mode |-> "writer", writer |-> row[d].writer,
                                    pools |-> row[d].pools]]
  /\ UNCHANGED <<row, journal, handed, captured, outgoing, transfers, handouts, sent,
                 closes, ledger, released, shopVars>>

-----------------------------------------------------------------------------
(* Receiving a grant.                                                      *)

\* The attempt is recorded in the label before the pool is installed.
ReserveInstallation(d, p) ==
  /\ Ready(d) /\ p \in delivered /\ writer[p] = label[d].writer
  /\ p \notin label[d].pools
  /\ label' = [label EXCEPT ![d].pools = @ \cup {p}]
  /\ UNCHANGED <<row, journal, handed, captured, outgoing, transfers, handouts, sent,
                 closes, ledger, released, shopVars>>

\* An older pool of the assignment ends with the seller's closed projection.
ClosedByMerchant(d, q) ==
  /\ journal[d][q].state = "closing" /\ ~journal[d][q].recovered
  /\ q \in closedOut
  /\ Units(q, imported[q]) = Units(q, journal[d][q].chain)

Overlapping(d, p) ==
  {q \in Pools(d) \ {p} : Good[q] = Good[p] /\ journal[d][q].state # "closed"}

\* The transaction asks again who may write, which for a device whose tables are there
\* is that it is still ready; that they are cleared within the call is left out.
Install(d, p) ==
  /\ Ready(d) /\ p \in label[d].pools /\ ~over
  /\ journal[d][p].state = "none" /\ p \notin row[d].pools
  /\ \A q \in row[d].pools : journal[d][q].state # "none" /\ ~journal[d][q].recovered
  /\ \A q \in Overlapping(d, p) : ClosedByMerchant(d, q) /\ writer[q] = writer[p]
  /\ journal' = [journal EXCEPT ![d] = [q \in Grants |->
                   IF q = p THEN [NoPool EXCEPT !.state = "active"]
                   ELSE IF q \in Overlapping(d, p) THEN [journal[d][q] EXCEPT !.state = "closed"]
                   ELSE journal[d][q]]]
  /\ row' = [row EXCEPT ![d].pools = @ \cup {p}]
  /\ UNCHANGED <<label, handed, captured, outgoing, transfers, handouts, sent, closes,
                 ledger, released, shopVars>>

-----------------------------------------------------------------------------
(* Selling.                                                                *)

\* Every pool of the order in one transaction, or none.
Accept(d, o) ==
  LET entry == [order |-> o, by |-> d]
      Extended(p) == Append(journal[d][p].chain, entry)
  IN  /\ ~over
      /\ \A p \in DOMAIN Lines[o] :
           /\ MayWrite(d, writer[p])
           /\ journal[d][p].state = "active" /\ ~journal[d][p].recovered
           /\ Units(p, Extended(p)) <= Quantity[p]
           /\ o \notin Accepted(d, p)
      /\ journal' = [journal EXCEPT ![d] = [p \in Grants |->
                       IF p \in DOMAIN Lines[o]
                       THEN [journal[d][p] EXCEPT !.chain = Extended(p)]
                       ELSE journal[d][p]]]
      /\ ledger' = [p \in Grants |-> IF p \in DOMAIN Lines[o] THEN Append(ledger[p], entry)
                                     ELSE ledger[p]]
      /\ UNCHANGED <<label, row, handed, captured, outgoing, transfers, handouts, sent,
                     closes, released, shopVars>>

\* Mutant of Send: only what this device sold.
SendOwn(d, p, i) ==
  /\ MayWrite(d, writer[p]) /\ ~journal[d][p].recovered
  /\ i \in 1 .. Len(journal[d][p].chain) /\ journal[d][p].chain[i].by = d
  /\ sent' = [sent EXCEPT ![p] = @ \cup {SubSeq(journal[d][p].chain, 1, i)}]
  /\ UNCHANGED <<deviceVars, transfers, handouts, closes, ledger, released, shopVars>>

\* An entry of an own pool is sent with its saved bytes, at any later time.
Send(d, p, i) ==
  /\ MayWrite(d, writer[p]) /\ ~journal[d][p].recovered
  /\ i \in 1 .. Len(journal[d][p].chain)
  /\ sent' = [sent EXCEPT ![p] = @ \cup {SubSeq(journal[d][p].chain, 1, i)}]
  /\ UNCHANGED <<deviceVars, transfers, handouts, closes, ledger, released, shopVars>>

\* Closing stops sales in the transaction that makes the closing record.
Close(d, p) ==
  /\ MayWrite(d, writer[p]) /\ journal[d][p].state = "active"
  /\ journal' = [journal EXCEPT ![d][p].state = "closing"]
  /\ UNCHANGED <<label, row, handed, captured, outgoing, transfers, handouts, sent,
                 closes, ledger, released, shopVars>>

SendClose(d, p) ==
  /\ MayWrite(d, writer[p]) /\ ~journal[d][p].recovered
  /\ journal[d][p].state \in {"closing", "closed"}
  /\ closes' = [closes EXCEPT ![p] = @ \cup {journal[d][p].chain}]
  /\ UNCHANGED <<deviceVars, transfers, handouts, sent, ledger, released, shopVars>>

-----------------------------------------------------------------------------
(* Handing goods out.                                                      *)

\* The decision is saved once, on every entry of the order, before it is signed.
Handout(d, o) ==
  /\ \A p \in DOMAIN Lines[o] : MayWrite(d, writer[p]) /\ ~journal[d][p].recovered
  /\ HasOrder(d, o) /\ handed[d][o] = NoDevice
  /\ handed' = [handed EXCEPT ![d][o] = d]
  /\ released' = released \cup {[order |-> o, by |-> d]}
  /\ UNCHANGED <<label, row, journal, captured, outgoing, transfers, handouts, sent,
                 closes, ledger, shopVars>>

SendHandout(d, o) ==
  /\ handed[d][o] # NoDevice
  /\ \A p \in DOMAIN Lines[o] : MayWrite(d, writer[p])
  /\ handouts' = handouts \cup {[order |-> o, by |-> handed[d][o]]}
  /\ UNCHANGED <<deviceVars, transfers, sent, closes, ledger, released, shopVars>>

\* Another device's decision is taken over from its record.
RestoreHandout(d, h) ==
  /\ h \in handouts /\ HasOrder(d, h.order)
  /\ \A p \in DOMAIN Lines[h.order] : h.order \notin journal[d][p].bare
  /\ handed[d][h.order] = NoDevice
  /\ handed' = [handed EXCEPT ![d][h.order] = h.by]
  /\ UNCHANGED <<label, row, journal, captured, outgoing, transfers, handouts, sent,
                 closes, ledger, released, shopVars>>

-----------------------------------------------------------------------------
(* Moving to another device.                                               *)

\* The journal as a handover carries it.
Snapshot(d) ==
  [pools |-> [p \in Cohort(d, row[d].writer) |-> journal[d][p]],
   handed |-> [o \in {o \in Orders : HasOrder(d, o)} |-> handed[d][o]]]

\* The journal is read and validated, and its grants are unwrapped by the signer.
Capture(d, t) ==
  /\ Ready(d) /\ t # d /\ captured[d] = NoTransfer
  /\ Intact(d, row[d].writer) /\ Cohort(d, row[d].writer) # {}
  /\ \A p \in Cohort(d, row[d].writer) : ~journal[d][p].recovered
  /\ captured' = [captured EXCEPT ![d] = [to |-> t, row |-> row[d], snapshot |-> Snapshot(d)]]
  /\ UNCHANGED <<label, row, journal, handed, outgoing, transfers, handouts, sent,
                 closes, ledger, released, shopVars>>

Save(d, c) ==
  /\ row' = [row EXCEPT ![d].state = "retired", ![d].generation = @ + 1]
  /\ outgoing' = [outgoing EXCEPT ![d] = [to |-> c.to, writer |-> c.row.writer,
                                          generation |-> c.row.generation + 1,
                                          snapshot |-> c.snapshot]]
  /\ captured' = [captured EXCEPT ![d] = NoTransfer]
  /\ UNCHANGED <<label, journal, handed, transfers, handouts, sent, closes, ledger,
                 released, shopVars>>

\* The row and the journal must still be what was read.
Freeze(d) ==
  /\ captured[d] # NoTransfer
  /\ row[d] = captured[d].row /\ Intact(d, row[d].writer)
  /\ Snapshot(d) = captured[d].snapshot
  /\ Save(d, captured[d])

\* The comparison fails, or the tab closes.
GiveUp(d) ==
  /\ captured[d] # NoTransfer
  /\ captured' = [captured EXCEPT ![d] = NoTransfer]
  /\ UNCHANGED <<label, row, journal, handed, outgoing, transfers, handouts, sent,
                 closes, ledger, released, shopVars>>

\* The saved handover is sent, as often as it takes.
PublishTransfer(d) ==
  /\ row[d].state = "retired" /\ d \notin transfers
  /\ transfers' = transfers \cup {d}
  /\ UNCHANGED <<deviceVars, handouts, sent, closes, ledger, released, shopVars>>

\* What the prepared target already has must be part of the handover.
Restorable(t, s) ==
  LET m == outgoing[s]
  IN  /\ m.to = t /\ row[t].state = "target" /\ ForeignClosed(t, m.writer)
      /\ \A p \in Cohort(t, m.writer) :
           /\ p \in DOMAIN m.snapshot.pools /\ ~journal[t][p].recovered
           /\ IsPrefix(journal[t][p].chain, m.snapshot.pools[p].chain)

Restored(t, s) ==
  LET m == outgoing[s]
      saved == m.snapshot
  IN  /\ row' = [row EXCEPT ![t] = [state |-> "active", writer |-> m.writer,
                                    generation |-> m.generation, from |-> s,
                                    pools |-> DOMAIN saved.pools]]
      /\ journal' = [journal EXCEPT ![t] = [p \in Grants |->
                       IF p \in DOMAIN saved.pools THEN saved.pools[p] ELSE journal[t][p]]]
      /\ handed' = [handed EXCEPT ![t] = [o \in Orders |->
                      IF o \in DOMAIN saved.handed THEN saved.handed[o] ELSE handed[t][o]]]
      /\ UNCHANGED <<label, captured, outgoing, transfers, handouts, sent, closes, ledger,
                     released, shopVars>>

\* Mutant of Restore: a retry after activation restores the handover once more.
RestoreAgain(t, s) ==
  /\ s \in transfers
  /\ Restorable(t, s) \/ (row[t].state = "active" /\ row[t].from = s)
  /\ Restored(t, s)

\* A retry after activation only verifies; it changes nothing.
Restore(t, s) == s \in transfers /\ Restorable(t, s) /\ Restored(t, s)

-----------------------------------------------------------------------------
(* Recovery and loss.                                                      *)

\* Mutant of Recovered: recovered history may be sold from again.
RecoveredWritable(d, p, chain, closed, known) ==
  [state |-> IF closed THEN "closed" ELSE "active", chain |-> chain, recovered |-> FALSE,
   bare |-> {}]

Recovered(d, p, chain, closed, known) ==
  [state |-> IF closed \/ journal[d][p].state = "closed" THEN "closed" ELSE "closing",
   chain |-> chain, recovered |-> TRUE,
   bare |-> journal[d][p].bare
              \cup {o \in {e.order : e \in ToSet(chain)} \ Accepted(d, p) : o \notin known}]

\* A closed pool is recovered, read only, from its complete history on relays.
RecoverClosed(d, p, closed) ==
  \E chain \in closes[p] :
    LET known == {h \in handouts : h.order \in {e.order : e \in ToSet(chain)}}
    IN  /\ p \in committed
        /\ \A i \in 1 .. Len(chain) : SubSeq(chain, 1, i) \in sent[p]
        /\ closed => p \in closedOut
        /\ IsPrefix(journal[d][p].chain, chain)
        /\ journal[d][p].state \in {"closing", "closed"} => journal[d][p].chain = chain
        /\ Overlapping(d, p) = {}
        /\ \A h \in known : handed[d][h.order] \in {NoDevice, h.by}
        /\ journal' = [journal EXCEPT ![d][p] =
                         Recovered(d, p, chain, closed, {h.order : h \in known})]
        /\ handed' = [handed EXCEPT ![d] = [o \in Orders |->
                        IF \E h \in known : h.order = o
                        THEN (CHOOSE h \in known : h.order = o).by ELSE handed[d][o]]]
        /\ UNCHANGED <<label, row, captured, outgoing, transfers, handouts, sent, closes,
                       ledger, released, shopVars>>

\* The browser clears IndexedDB and keeps localStorage; relays keep what was sent.
Clear(d) ==
  /\ label[d].mode = "writer" /\ row[d] # NoRow
  /\ row' = [row EXCEPT ![d] = NoRow]
  /\ journal' = [journal EXCEPT ![d] = NoJournal]
  /\ handed' = [handed EXCEPT ![d] = NothingHanded]
  /\ captured' = [captured EXCEPT ![d] = NoTransfer]
  /\ UNCHANGED <<label, outgoing, transfers, handouts, sent, closes, ledger, released,
                 shopVars>>

-----------------------------------------------------------------------------
DeviceStep(d) ==
  \/ \E mode \in {"writer", "target"} :
       /\ mode = "writer" => d \in Selling
       /\ Create(d, mode)
  \/ Register(d) \/ PrepareTarget(d) \/ Confirm(d)
  \/ \E p \in Grants : ReserveInstallation(d, p) \/ Install(d, p) \/ Close(d, p) \/ SendClose(d, p)
  \/ \E p \in Grants, i \in 1 .. Cardinality(Orders) : Send(d, p, i)
  \/ \E o \in Orders : Accept(d, o) \/ Handout(d, o) \/ SendHandout(d, o)
  \/ \E h \in handouts : RestoreHandout(d, h)
  \/ \E t \in Devices : Capture(d, t)
  \/ Freeze(d) \/ GiveUp(d) \/ PublishTransfer(d)
  \/ \E s \in Devices : Restore(d, s)
  \/ d \in Recovering /\ \E p \in Grants, closed \in BOOLEAN : RecoverClosed(d, p, closed)
  \/ d \in Clearable /\ Clear(d)

\* Writer identifiers are read off a device's label.
Named == {d \in Devices : label[d].mode = "writer" /\ label[d].writer = d}

Merchant ==
  /\ Shop(Named) \/ End \/ (Trading /\ Trade)
  /\ UNCHANGED <<deviceVars, transfers, handouts, ledger, released>>

Next == Merchant \/ \E d \in Devices : DeviceStep(d)

Spec == Init /\ [][Next]_vars

\* Publications are retried, and whoever prepared a device takes what it was handed.
Moves ==
  \A d \in Devices :
    /\ WF_vars(PublishTransfer(d))
    /\ \A s \in Devices : WF_vars(Restore(d, s))

\* The panels' retries of saved work, and the seller's checks for stock messages.
Deliveries ==
  /\ \A d \in Devices, p \in Grants :
       /\ WF_vars(SendClose(d, p))
       /\ \A i \in 1 .. Cardinality(Orders) : WF_vars(Send(d, p, i))
  /\ \A o \in Orders : WF_vars(Merchant /\ Import(o))
  /\ \A p \in Grants : WF_vars(Merchant /\ Reconcile(p))

FairSpec == Spec /\ Moves /\ Deliveries

-----------------------------------------------------------------------------
(* Correctness.                                                            *)

Entry == [order : Orders, by : Devices]
Pool == [state : {"none", "active", "closing", "closed"}, chain : Seq(Entry),
         recovered : BOOLEAN, bare : SUBSET Orders]
Row == [state : {"none", "target", "active", "retired"}, writer : Devices \cup {NoDevice},
        generation : Nat, from : Devices \cup {NoDevice}, pools : SUBSET Grants]
Label == [mode : {"none", "writer", "target"}, writer : Devices \cup {NoDevice},
          pools : SUBSET Grants]

\* The state variables keep their shapes, whatever is cleared, moved and recovered.
TypeOK ==
  /\ over \in BOOLEAN
  /\ stock \in [Goods -> 0 .. InitialStock] /\ alloc \in [Goods -> 0 .. InitialStock]
  /\ hold \in [Goods -> Grants \cup {NoGrant}]
  /\ unpublished \in [Goods -> SUBSET {"product", "assignment"}]
  /\ latest \in [Goods -> {"reservation", "unsigned", "other"}]
  /\ writer \in [Grants -> Devices \cup {NoDevice}]
  /\ UNION {reconciled, committed, closedOut, delivered} \subseteq Grants
  /\ imported \in [Grants -> Seq(Entry)] /\ ledger \in [Grants -> Seq(Entry)]
  /\ sent \in [Grants -> SUBSET Seq(Entry)] /\ closes \in [Grants -> SUBSET Seq(Entry)]
  /\ label \in [Devices -> Label] /\ row \in [Devices -> Row]
  /\ journal \in [Devices -> [Grants -> Pool]]
  /\ handed \in [Devices -> [Orders -> Devices \cup {NoDevice}]]
  /\ transfers \subseteq Devices
  /\ handouts \cup released \subseteq Entry

\* The sales of a pool are one sequence: what any device holds, what was sent and
\* what the seller imported are prefixes of it, however often the journal moved,
\* was cleared or was recovered from relays.
NoFork ==
  \A p \in Grants :
    /\ IsPrefix(imported[p], ledger[p])
    /\ \A d \in Devices : IsPrefix(journal[d][p].chain, ledger[p])
    /\ \A c \in sent[p] \cup closes[p] : IsPrefix(c, ledger[p])

\* The units organizers sold from a pool that the seller has not imported.
Pending(p) == Units(p, ledger[p]) - Units(p, imported[p])

\* Units sold by organizers and not yet imported are still in the seller's stock,
\* although the seller sells and edits without asking anyone; and however often a
\* product is entrusted, only one of its pools has any.
NeverOversold ==
  /\ \A p \in Grants : Pending(p) \in 0 .. stock[Good[p]]
  /\ \A p, q \in Grants : Good[p] = Good[q] /\ Pending(p) > 0 /\ Pending(q) > 0 => p = q

\* An order's goods are handed out at most once, by one device.
HandedOutOnce ==
  \A r1, r2 \in released : r1.order = r2.order => r1 = r2

\* A device never forgets a sale, except with its whole journal: no restore, retry
\* or recovery puts older history in the place of newer.
KeepsSales ==
  \A d \in Devices, p \in Grants :
    \/ IsPrefix(journal[d][p].chain, journal'[d][p].chain)
    \/ row[d] # NoRow /\ row'[d] = NoRow
SalesAreKept == [][KeepsSales]_vars

\* Two devices are never able to sell from one pool.
OneSeller ==
  \A p \in Grants, d1, d2 \in Devices :
    /\ journal[d1][p].state = "active" /\ MayWrite(d1, writer[p])
    /\ journal[d2][p].state = "active" /\ MayWrite(d2, writer[p])
    => d1 = d2

OrdersOf(list) == [i \in DOMAIN list |-> list[i].order]

Promise ==
  INSTANCE EntrustedStock WITH
    entrusted <- {p \in Grants : writer[p] # NoDevice},
    sold <- [p \in Grants |-> OrdersOf(ledger[p])],
    learnt <- [p \in Grants |-> OrdersOf(imported[p])],
    returned <- reconciled

\* However many devices, moves, losses and edits there are, entrusted stock keeps
\* the promise of one organizer selling from one place.
Promised == Promise!Spec
KeepsPromise == [Promise!Next]_(Promise!vars)

\* A journal that was handed to a device that was prepared for it, and its arrival.
OnItsWay(s, t) == row[s].state = "retired" /\ outgoing[s].to = t /\ row[t].state = "target"
Arrived(t) == row[t].state = "active"

\* A journal handed to a prepared device gets there: the old device has stopped for
\* good, so otherwise nobody could sell, close or hand out any more.
Moved == \A s, t \in Devices : OnItsWay(s, t) ~> Arrived(t)

\* The journal went to a device that does not take it.
Stranded(p) ==
  \E s, t \in Devices :
    /\ row[s].state = "retired" /\ p \in row[s].pools /\ outgoing[s].to = t
    /\ row[t].state = "none" \/ (row[t].state \in {"active", "retired"} /\ row[t].from # s)

\* An organizer stops selling from a pool.
Stopping(p) == \E d \in Devices : journal[d][p].state = "closing"

\* A pool that an organizer stops selling from is reconciled: the rest of its units
\* is the seller's again, unless the journal was handed to a device that was never
\* prepared for it.
ClosedIsReleased == \A p \in Grants : Stopping(p) ~> (p \in reconciled \/ Stranded(p))
=============================================================================
