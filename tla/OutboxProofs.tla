---------------------------- MODULE OutboxProofs ----------------------------
(***************************************************************************)
(* The durable outbox delivers every record in order, exactly once, and    *)
(* forgets none before the receiver owns it: for any number of writers,    *)
(* publishers, rows, promotions and faults.                                *)
(***************************************************************************)
EXTENDS DurableOutbox, FiniteSetTheorems, TLAPS

\* A record under way was the lowest that was not acked, and still has only
\* acked records before it: this outlives the loss of the lease.
Sent ==
  /\ \A p \in Publishers : pc[p] \in {"await", "ack", "quarantine"} =>
       \A j \in 1..(at[p] - 1) : state[j] = "acked"
  /\ \A i \in late : \A j \in 1..(i - 1) : state[j] = "acked"

\* A publisher that is told "applied" or "duplicate-ok" is told the truth, and
\* the truth does not age.
Receipts ==
  \A p \in Publishers : pc[p] = "ack" /\ reply[p] \in Ack => at[p] <= Len(applied)

AckedOwned == \A i \in DOMAIN rows : state[i] = "acked" => i <= Len(applied)

OutboxInv ==
  TypeOK /\ ReplicaIsPrefix /\ AckedOwned /\ DrainedInOrder /\ Sent /\ Receipts

-----------------------------------------------------------------------------

LEMMA InitInv == Init => OutboxInv
<1> SUFFICES ASSUME Init PROVE OutboxInv
  OBVIOUS
<1>1. TypeOK
  <2>1. rows \in Seq(Row) /\ applied \in Seq(Row) /\ Len(state) = Len(rows)
        /\ state \in Seq({"pending", "acked", "quarantined"})
    BY DEF Init
  <2>2. /\ srcFence \in 1..MaxFence /\ rcvFence \in 1..MaxFence
        /\ token \in [Writers -> 1..MaxFence] /\ tx \in [Writers -> Snapshots \cup {NoTx}]
    BY OutboxAssumption DEF Init
  <2> QED
    BY <2>1, <2>2 DEF Init, TypeOK, PubPcs
<1>2. ReplicaIsPrefix /\ AckedOwned /\ DrainedInOrder /\ Sent /\ Receipts
  BY DEF Init, ReplicaIsPrefix, AckedOwned, DrainedInOrder, Sent, Receipts
<1> QED
  BY <1>1, <1>2 DEF OutboxInv

\* Promotions and transactions that are not committed touch no row and no delivery.
LEMMA FenceInv ==
  ASSUME OutboxInv,
         \/ \E w \in Writers : AcquireFence(w) \/ BeginAppend(w) \/ AbortAppend(w)
         \/ AcquireReceiverFence
  PROVE  OutboxInv'
<1>1. UNCHANGED <<rows, state, applied, lease, expired, pc, at, reply, late, faults>>
  BY DEF AcquireFence, AcquireReceiverFence, BeginAppend, AbortAppend, pubVars
<1>2. /\ srcFence' \in 1..MaxFence /\ rcvFence' \in 1..MaxFence
      /\ token' \in [Writers -> 1..MaxFence] /\ tx' \in [Writers -> Snapshots \cup {NoTx}]
  <2>1. CASE AcquireReceiverFence \/ \E w \in Writers : AcquireFence(w)
    <3>1. tx' = tx
      BY <2>1 DEF AcquireFence, AcquireReceiverFence
    <3>2. /\ srcFence' \in 1..MaxFence /\ rcvFence' \in 1..MaxFence
          /\ token' \in [Writers -> 1..MaxFence]
      BY <2>1, OutboxAssumption DEF AcquireFence, AcquireReceiverFence, OutboxInv, TypeOK
    <3> QED
      BY <3>1, <3>2 DEF OutboxInv, TypeOK
  <2>2. ASSUME NEW w \in Writers, BeginAppend(w)
        PROVE  tx' \in [Writers -> Snapshots \cup {NoTx}]
    <3>1. [sequence |-> Len(rows), fence |-> srcFence] \in Snapshots
      BY <2>2, OutboxAssumption DEF BeginAppend, OutboxInv, TypeOK, Snapshots
    <3> QED
      BY <2>2, <3>1 DEF BeginAppend, OutboxInv, TypeOK
  <2>3. ASSUME NEW w \in Writers, AbortAppend(w)
        PROVE  tx' \in [Writers -> Snapshots \cup {NoTx}]
    BY <2>3 DEF AbortAppend, OutboxInv, TypeOK
  <2>4. ASSUME NEW w \in Writers, BeginAppend(w) \/ AbortAppend(w)
        PROVE  UNCHANGED <<srcFence, rcvFence, token>>
    BY <2>4 DEF BeginAppend, AbortAppend
  <2> QED
    BY <2>1, <2>2, <2>3, <2>4 DEF OutboxInv, TypeOK
<1>3. TypeOK'
  BY <1>1, <1>2 DEF OutboxInv, TypeOK
<1> QED
  BY <1>1, <1>3 DEF OutboxInv, ReplicaIsPrefix, AckedOwned, DrainedInOrder, Sent, Receipts

\* The row a transaction commits is the next one of the stream.
LEMMA AppendedRow ==
  ASSUME TypeOK, NEW w \in Writers, NEW v \in Values, AppendInTx(w, v)
  PROVE  [sequence |-> Len(rows) + 1, fence |-> tx[w].fence, value |-> v] \in Row
<1>1. tx[w] \in Snapshots /\ tx[w].sequence = Len(rows)
  BY DEF AppendInTx, Serializable, TypeOK
<1>2. Len(rows) \in 0..(MaxRows - 1) /\ tx[w].fence \in 1..MaxFence
  BY <1>1 DEF Snapshots
<1> QED
  BY <1>2, OutboxAssumption DEF Row

LEMMA AppendInv ==
  ASSUME OutboxInv, NEW w \in Writers, NEW v \in Values, AppendInTx(w, v)
  PROVE  OutboxInv'
<1> DEFINE row == [sequence |-> Len(rows) + 1, fence |-> tx[w].fence, value |-> v]
<1>1. /\ UNCHANGED <<srcFence, rcvFence, token, applied, lease, expired, pc, at, reply, late, faults>>
      /\ rows' = Append(rows, row) /\ state' = Append(state, "pending")
      /\ tx' = [tx EXCEPT ![w] = NoTx]
  BY DEF AppendInTx, pubVars
<1>2. /\ rows \in Seq(Row) /\ row \in Row /\ applied \in Seq(Row)
      /\ state \in Seq({"pending", "acked", "quarantined"}) /\ Len(state) = Len(rows)
      /\ tx' \in [Writers -> Snapshots \cup {NoTx}]
  BY <1>1, AppendedRow DEF OutboxInv, TypeOK
<1> HIDE DEF row
<1>3. /\ rows' \in Seq(Row) /\ Len(rows') = Len(rows) + 1
      /\ \A i \in 1..Len(rows) : rows'[i] = rows[i]
      /\ state' \in Seq({"pending", "acked", "quarantined"}) /\ Len(state') = Len(rows) + 1
      /\ \A i \in 1..Len(rows) : state'[i] = state[i]
      /\ state'[Len(rows) + 1] = "pending"
      /\ Len(rows) \in Nat /\ DOMAIN rows = 1..Len(rows) /\ DOMAIN rows' = 1..Len(rows) + 1
      /\ Len(applied) \in Nat /\ DOMAIN applied = 1..Len(applied)
  BY <1>1, <1>2
<1>4. TypeOK'
  BY <1>1, <1>2, <1>3 DEF OutboxInv, TypeOK
<1>5. ReplicaIsPrefix' /\ AckedOwned'
  BY <1>1, <1>3 DEF OutboxInv, ReplicaIsPrefix, AckedOwned
<1>6. DrainedInOrder'
  BY <1>3 DEF OutboxInv, DrainedInOrder
<1>7. Sent'
  <2>1. ASSUME NEW i \in 1..Len(rows), \A j \in 1..(i - 1) : state[j] = "acked",
               NEW j \in 1..(i - 1)
        PROVE  state'[j] = "acked"
    <3>1. j \in 1..Len(rows)
      BY <1>3
    <3> QED
      BY <1>3, <2>1, <3>1
  <2>2. ASSUME NEW p \in Publishers, pc[p] \in {"await", "ack", "quarantine"}
        PROVE  \A j \in 1..(at[p] - 1) : state'[j] = "acked"
    <3>1. at[p] \in 1..Len(rows)
      BY <1>3, <2>2 DEF OutboxInv, TypeOK
    <3>2. \A j \in 1..(at[p] - 1) : state[j] = "acked"
      BY <2>2 DEF OutboxInv, Sent
    <3> QED
      BY <2>1, <3>1, <3>2
  <2>3. ASSUME NEW i \in late
        PROVE  \A j \in 1..(i - 1) : state'[j] = "acked"
    <3>1. i \in 1..Len(rows)
      BY <1>3 DEF OutboxInv, TypeOK
    <3>2. \A j \in 1..(i - 1) : state[j] = "acked"
      BY DEF OutboxInv, Sent
    <3> QED
      BY <2>1, <3>1, <3>2
  <2> QED
    BY <1>1, <2>2, <2>3 DEF Sent
<1>8. Receipts'
  BY <1>1 DEF OutboxInv, Receipts
<1> QED
  BY <1>4, <1>5, <1>6, <1>7, <1>8 DEF OutboxInv

\* Steps of the drain that change neither the rows nor the receiver.
LEMMA LeaseInv ==
  ASSUME OutboxInv,
         \/ ExpireLease
         \/ \E p \in Publishers : AcquireLease(p) \/ ReleaseLease(p) \/ Crash(p)
  PROVE  OutboxInv'
<1>1. /\ UNCHANGED <<srcFence, rcvFence, token, tx, rows, state, applied, at, reply>>
      /\ \A p \in Publishers : pc'[p] = pc[p] \/ pc'[p] \in {"idle", "next"}
      /\ \A i \in late' : \/ i \in late
                          \/ \E p \in Publishers : pc[p] = "await" /\ i = at[p]
  BY DEF ExpireLease, AcquireLease, ReleaseLease, Crash, srcVars, pubVars, Goto, OutboxInv, TypeOK
<1>2. pc' \in [Publishers -> PubPcs]
  BY DEF ExpireLease, AcquireLease, ReleaseLease, Crash, srcVars, pubVars, Goto, OutboxInv, TypeOK, PubPcs
<1>3. late' \subseteq DOMAIN rows
  BY <1>1 DEF OutboxInv, TypeOK
<1>4. lease' \in Publishers \cup {Nobody} /\ expired' \in BOOLEAN /\ faults' \in Nat
  <2>1. lease' \in Publishers \cup {Nobody} /\ expired' \in BOOLEAN
    BY DEF ExpireLease, AcquireLease, ReleaseLease, Crash, OutboxInv, TypeOK
  <2>2. faults' \in {faults, faults + 1}
    BY DEF ExpireLease, AcquireLease, ReleaseLease, Crash
  <2> QED
    BY <2>1, <2>2 DEF OutboxInv, TypeOK
<1>5. TypeOK'
  BY <1>1, <1>2, <1>3, <1>4 DEF OutboxInv, TypeOK
<1>6. ReplicaIsPrefix' /\ AckedOwned' /\ DrainedInOrder'
  BY <1>1 DEF OutboxInv, ReplicaIsPrefix, AckedOwned, DrainedInOrder
<1>7. Sent' /\ Receipts'
  BY <1>1 DEF OutboxInv, Sent, Receipts
<1> QED
  BY <1>5, <1>6, <1>7 DEF OutboxInv

LEMMA NextDeliverableInv ==
  ASSUME OutboxInv, NEW p \in Publishers, NextDeliverable(p)
  PROVE  OutboxInv'
<1>1. /\ UNCHANGED <<srcFence, rcvFence, token, tx, rows, state, applied, lease, expired, late, faults>>
      /\ \A q \in Publishers \ {p} : pc'[q] = pc[q] /\ at'[q] = at[q] /\ reply'[q] = reply[q]
      /\ \/ pc'[p] = "release" /\ UNCHANGED <<at, reply>>
         \/ pc'[p] = "await" /\ at'[p] \in DOMAIN rows /\ Lowest(at'[p])
      /\ pc' \in [Publishers -> PubPcs]
  BY DEF NextDeliverable, srcVars, Goto, OutboxInv, TypeOK, PubPcs
<1>2. at' \in [Publishers -> Nat] /\ reply' \in [Publishers -> Ack \cup Transient \cup Terminal \cup {"none"}]
  BY DEF NextDeliverable, OutboxInv, TypeOK
<1>3. TypeOK'
  BY <1>1, <1>2 DEF OutboxInv, TypeOK
<1>4. ReplicaIsPrefix' /\ AckedOwned' /\ DrainedInOrder'
  BY <1>1 DEF OutboxInv, ReplicaIsPrefix, AckedOwned, DrainedInOrder
<1>5. Sent' /\ Receipts'
  BY <1>1 DEF OutboxInv, Sent, Receipts, Lowest
<1> QED
  BY <1>3, <1>4, <1>5 DEF OutboxInv

\* One transaction of the receiver, on a copy of any row: it appends the next
\* record of the log or nothing, and it acknowledges only what it holds.
LEMMA ReceiverStep ==
  ASSUME TypeOK, ReplicaIsPrefix, NEW i \in DOMAIN rows, NEW intact \in BOOLEAN,
         ApplyInTx(i, intact)
  PROVE  /\ \/ applied' = applied
            \/ Len(applied) < Len(rows) /\ applied' = Append(applied, rows[Len(applied) + 1])
         /\ applied' \in Seq(Row)
         /\ Len(applied') >= Len(applied) /\ Len(applied') <= Len(rows)
         /\ \A j \in 1..Len(applied') : applied'[j] = rows[j]
         /\ Decision(i, intact) \in Ack => i <= Len(applied')
         /\ Decision(i, intact) \in Ack \cup Transient \cup Terminal
<1>1. /\ rows \in Seq(Row) /\ applied \in Seq(Row)
      /\ i \in 1..Len(rows) /\ Len(rows) \in Nat /\ Len(applied) \in Nat
      /\ Len(applied) <= Len(rows) /\ \A j \in 1..Len(applied) : applied[j] = rows[j]
  BY DEF TypeOK, ReplicaIsPrefix
<1>2. /\ Decision(i, intact) \in {"reject-fork", "reject-fence", "duplicate-ok", "reject-gap", "applied"}
      /\ Decision(i, intact) = "applied" => i = Len(applied) + 1
      /\ Decision(i, intact) = "duplicate-ok" => i <= Len(applied)
  <2>1. CASE ~intact
    BY <2>1 DEF Decision
  <2>2. CASE intact /\ rows[i].fence # rcvFence
    BY <2>2 DEF Decision
  <2>3. CASE intact /\ rows[i].fence = rcvFence
    <3>1. CASE i <= Len(applied)
      BY <1>1, <2>3, <3>1 DEF Decision
    <3>2. CASE i > Len(applied) + 1
      BY <1>1, <2>3, <3>2 DEF Decision
    <3>3. CASE i = Len(applied) + 1
      BY <1>1, <2>3, <3>3 DEF Decision
    <3> QED
      BY <1>1, <3>1, <3>2, <3>3
  <2> QED
    BY <2>1, <2>2, <2>3
<1>3. CASE Decision(i, intact) = "applied"
  <2>1. i = Len(applied) + 1 /\ applied' = Append(applied, rows[i]) /\ rows[i] \in Row
    BY <1>1, <1>2, <1>3 DEF ApplyInTx
  <2> QED
    BY <1>1, <1>3, <2>1 DEF Ack
<1>4. CASE Decision(i, intact) # "applied"
  <2>1. applied' = applied
    BY <1>4 DEF ApplyInTx
  <2> QED
    BY <1>1, <1>2, <1>4, <2>1 DEF Ack, Transient, Terminal
<1> QED
  BY <1>3, <1>4

\* A step in which at most the receiver and the delivering publisher move.
LEMMA DeliveryInv ==
  ASSUME OutboxInv, UNCHANGED <<srcFence, rcvFence, token, tx, rows, state, lease, expired, at>>,
         applied' \in Seq(Row), Len(applied') >= Len(applied), Len(applied') <= Len(rows),
         \A j \in 1..Len(applied') : applied'[j] = rows[j],
         pc' \in [Publishers -> PubPcs],
         reply' \in [Publishers -> Ack \cup Transient \cup Terminal \cup {"none"}],
         faults' \in Nat,
         \A p \in Publishers :
           \/ pc'[p] = pc[p] /\ reply'[p] = reply[p]
           \/ pc'[p] = "release"
           \/ pc[p] = "await" /\ pc'[p] = "quarantine"
           \/ /\ pc[p] = "await" /\ pc'[p] = "ack"
              /\ reply'[p] \in Ack => at[p] <= Len(applied'),
         \A i \in late' : \/ i \in late
                          \/ \E p \in Publishers : pc[p] = "await" /\ i = at[p]
  PROVE  OutboxInv'
<1>0. Len(applied) \in Nat /\ Len(applied') \in Nat /\ Len(rows) \in Nat
      /\ DOMAIN applied' = 1..Len(applied') /\ DOMAIN rows = 1..Len(rows)
  BY DEF OutboxInv, TypeOK
<1>1. TypeOK'
  BY DEF OutboxInv, TypeOK
<1>2. ReplicaIsPrefix'
  BY <1>0 DEF ReplicaIsPrefix
<1>3. AckedOwned'
  BY <1>0 DEF OutboxInv, AckedOwned
<1>4. DrainedInOrder' /\ Sent'
  BY DEF OutboxInv, DrainedInOrder, Sent
<1>5. \A p \in Publishers : at[p] \in Nat
  BY DEF OutboxInv, TypeOK
<1>6. Receipts'
  BY <1>0, <1>5 DEF OutboxInv, Receipts
<1> QED
  BY <1>1, <1>2, <1>3, <1>4, <1>6 DEF OutboxInv

LEMMA DeliverInv ==
  ASSUME OutboxInv, NEW p \in Publishers, NEW intact \in BOOLEAN, Deliver(p, intact)
  PROVE  OutboxInv'
<1>1. at[p] \in DOMAIN rows /\ ApplyInTx(at[p], intact)
  BY DEF Deliver, OutboxInv, TypeOK
<1>2. /\ applied' \in Seq(Row)
      /\ Len(applied') >= Len(applied) /\ Len(applied') <= Len(rows)
      /\ \A j \in 1..Len(applied') : applied'[j] = rows[j]
      /\ Decision(at[p], intact) \in Ack => at[p] <= Len(applied')
      /\ Decision(at[p], intact) \in Ack \cup Transient \cup Terminal
  BY <1>1, ReceiverStep DEF OutboxInv
<1>3. /\ UNCHANGED <<srcFence, rcvFence, token, tx, rows, state, lease, expired, at, late, faults>>
      /\ pc[p] = "await" /\ pc' = [pc EXCEPT ![p] = "ack"]
      /\ reply' = [reply EXCEPT ![p] = Decision(at[p], intact)]
  BY DEF Deliver, srcVars, Goto
<1>4. /\ pc' \in [Publishers -> PubPcs]
      /\ reply' \in [Publishers -> Ack \cup Transient \cup Terminal \cup {"none"}]
      /\ faults' \in Nat
  BY <1>2, <1>3 DEF OutboxInv, TypeOK, PubPcs
<1>5. \A q \in Publishers : \/ pc'[q] = pc[q] /\ reply'[q] = reply[q]
                            \/ /\ pc[q] = "await" /\ pc'[q] = "ack"
                               /\ reply'[q] \in Ack => at[q] <= Len(applied')
  BY <1>2, <1>3 DEF OutboxInv, TypeOK
<1> QED
  BY <1>2, <1>3, <1>4, <1>5, DeliveryInv

LEMMA DeliverFailsInv ==
  ASSUME OutboxInv, NEW p \in Publishers, NEW terminal \in BOOLEAN, DeliverFails(p, terminal)
  PROVE  OutboxInv'
<1>1. at[p] \in DOMAIN rows
  BY DEF DeliverFails, OutboxInv, TypeOK
<1>2. /\ applied' \in Seq(Row)
      /\ Len(applied') >= Len(applied) /\ Len(applied') <= Len(rows)
      /\ \A j \in 1..Len(applied') : applied'[j] = rows[j]
  <2>1. CASE applied' = applied
    <3>1. /\ applied \in Seq(Row) /\ Len(applied) \in Nat /\ Len(applied) <= Len(rows)
          /\ \A j \in 1..Len(applied) : applied[j] = rows[j]
      BY DEF OutboxInv, TypeOK, ReplicaIsPrefix
    <3> QED
      BY <2>1, <3>1
  <2>2. CASE ApplyInTx(at[p], TRUE)
    BY <1>1, <2>2, ReceiverStep DEF OutboxInv
  <2>3. applied' = applied \/ ApplyInTx(at[p], TRUE)
    BY Zenon DEF DeliverFails
  <2> QED
    BY <2>1, <2>2, <2>3
<1>3. /\ UNCHANGED <<srcFence, rcvFence, token, tx, rows, state, lease, expired, at>>
      /\ pc[p] = "await" /\ faults' = faults + 1
      /\ \A i \in late' : i \in late \/ i = at[p]
      /\ \/ pc' = [pc EXCEPT ![p] = "release"] /\ reply' = reply
         \/ /\ pc' = [pc EXCEPT ![p] = "quarantine"]
            /\ reply' = [reply EXCEPT ![p] = "reject-transport-terminal"]
  BY DEF DeliverFails, srcVars, Goto
<1>4. /\ pc' \in [Publishers -> PubPcs]
      /\ reply' \in [Publishers -> Ack \cup Transient \cup Terminal \cup {"none"}]
      /\ faults' \in Nat
  <2>0. /\ pc \in [Publishers -> PubPcs] /\ faults \in Nat
        /\ reply \in [Publishers -> Ack \cup Transient \cup Terminal \cup {"none"}]
    BY DEF OutboxInv, TypeOK
  <2>1. pc' \in [Publishers -> PubPcs] /\ faults' \in Nat
    BY <1>3, <2>0 DEF PubPcs
  <2>2. "reject-transport-terminal" \in Terminal
    BY DEF Terminal
  <2>3. reply' \in [Publishers -> Ack \cup Transient \cup Terminal \cup {"none"}]
    BY <1>3, <2>0, <2>2
  <2> QED
    BY <2>1, <2>3
<1>5. \A q \in Publishers : \/ pc'[q] = pc[q] /\ reply'[q] = reply[q]
                            \/ pc'[q] = "release"
                            \/ pc[q] = "await" /\ pc'[q] = "quarantine"
  BY <1>3 DEF OutboxInv, TypeOK
<1>6. \A i \in late' : \/ i \in late
                       \/ \E q \in Publishers : pc[q] = "await" /\ i = at[q]
  BY <1>3
<1> QED
  BY <1>2, <1>3, <1>4, <1>5, <1>6, DeliveryInv

LEMMA DeliverLateInv ==
  ASSUME OutboxInv, NEW i \in late, DeliverLate(i)
  PROVE  OutboxInv'
<1>1. i \in DOMAIN rows
  BY DEF OutboxInv, TypeOK
<1>2. /\ applied' \in Seq(Row)
      /\ Len(applied') >= Len(applied) /\ Len(applied') <= Len(rows)
      /\ \A j \in 1..Len(applied') : applied'[j] = rows[j]
  BY <1>1, ReceiverStep DEF OutboxInv, DeliverLate
<1>3. UNCHANGED <<srcFence, rcvFence, token, tx, rows, state, lease, expired, at, pc, reply, faults>>
      /\ \A k \in late' : k \in late
  BY DEF DeliverLate, srcVars, pubVars
<1>4. /\ pc' \in [Publishers -> PubPcs]
      /\ reply' \in [Publishers -> Ack \cup Transient \cup Terminal \cup {"none"}]
      /\ faults' \in Nat
  BY <1>3 DEF OutboxInv, TypeOK
<1> QED
  BY <1>2, <1>3, <1>4, DeliveryInv

\* A step that settles the row the lease holder delivered.
LEMMA SettleInv ==
  ASSUME OutboxInv, NEW p \in Publishers, NEW s \in {"acked", "quarantined"},
         pc[p] \in {"ack", "quarantine"}, state[at[p]] = "pending",
         state' = [state EXCEPT ![at[p]] = s],
         s = "acked" => at[p] <= Len(applied),
         UNCHANGED <<srcFence, rcvFence, token, tx, rows, applied, lease, expired, at, reply, late, faults>>,
         pc' = [pc EXCEPT ![p] = "next"] \/ pc' = [pc EXCEPT ![p] = "release"]
  PROVE  OutboxInv'
<1>1. /\ at[p] \in 1..Len(rows) /\ Len(rows) \in Nat
      /\ state \in Seq({"pending", "acked", "quarantined"}) /\ Len(state) = Len(rows)
      /\ DOMAIN rows = 1..Len(rows) /\ pc \in [Publishers -> PubPcs]
  BY DEF OutboxInv, TypeOK
<1>2. /\ state' \in Seq({"pending", "acked", "quarantined"}) /\ Len(state') = Len(rows)
      /\ state'[at[p]] = s
      /\ \A i \in 1..Len(rows) : i # at[p] => state'[i] = state[i]
  BY <1>1
<1>3. \A i \in 1..Len(rows) : state[i] = "acked" => state'[i] = "acked"
  BY <1>1, <1>2
<1>4. pc' \in [Publishers -> PubPcs]
  BY <1>1 DEF PubPcs
<1>5. \A q \in Publishers : pc'[q] = pc[q] \/ pc'[q] \in {"next", "release"}
  BY <1>1
<1>6. TypeOK'
  BY <1>2, <1>4, <1>5 DEF OutboxInv, TypeOK
<1>7. ReplicaIsPrefix'
  BY DEF OutboxInv, ReplicaIsPrefix
<1>8. AckedOwned'
  BY <1>1, <1>2 DEF OutboxInv, AckedOwned
<1>9. \A j \in 1..(at[p] - 1) : state[j] = "acked"
  BY DEF OutboxInv, Sent
<1>10. DrainedInOrder'
  <2> SUFFICES ASSUME NEW i \in 1..Len(rows), state'[i] # "pending", NEW j \in 1..(i - 1)
               PROVE  state'[j] = "acked"
    BY <1>1 DEF DrainedInOrder
  <2>1. j \in 1..Len(rows)
    BY <1>1
  <2>2. CASE i = at[p]
    BY <1>3, <1>9, <2>1, <2>2
  <2>3. CASE i # at[p]
    BY <1>1, <1>2, <1>3, <2>1, <2>3 DEF OutboxInv, DrainedInOrder
  <2> QED
    BY <2>2, <2>3
<1>11. Sent'
  <2>1. \A q \in Publishers : pc'[q] \in {"await", "ack", "quarantine"} =>
          \A j \in 1..(at[q] - 1) : j \in 1..Len(rows) /\ state[j] = "acked"
    <3> SUFFICES ASSUME NEW q \in Publishers, pc'[q] \in {"await", "ack", "quarantine"},
                        NEW j \in 1..(at[q] - 1)
                 PROVE  j \in 1..Len(rows) /\ state[j] = "acked"
      OBVIOUS
    <3>1. pc[q] \in {"await", "ack", "quarantine"}
      BY <1>5
    <3>2. at[q] \in 1..Len(rows)
      BY <1>1, <3>1 DEF OutboxInv, TypeOK
    <3>3. state[j] = "acked"
      BY <3>1 DEF OutboxInv, Sent
    <3> QED
      BY <1>1, <3>2, <3>3
  <2>2. \A i \in late : \A j \in 1..(i - 1) : j \in 1..Len(rows) /\ state[j] = "acked"
    BY <1>1 DEF OutboxInv, Sent, TypeOK
  <2> QED
    BY <1>3, <2>1, <2>2 DEF Sent
<1>12. Receipts'
  BY <1>5 DEF OutboxInv, Receipts
<1> QED
  BY <1>6, <1>7, <1>8, <1>10, <1>11, <1>12 DEF OutboxInv

LEMMA ActInv ==
  ASSUME OutboxInv, NEW p \in Publishers, ActOnDecision(p) \/ QuarantineRecord(p)
  PROVE  OutboxInv'
<1>0. UNCHANGED <<srcFence, rcvFence, token, tx, rows, applied, lease, expired, at, reply, late, faults>>
  BY DEF ActOnDecision, QuarantineRecord, srcVars
<1>1. CASE /\ UNCHANGED state
           /\ pc[p] \in {"ack", "quarantine"}
           /\ pc' = [pc EXCEPT ![p] = "release"] \/ pc' = [pc EXCEPT ![p] = "quarantine"]
  <2>1. /\ pc' \in [Publishers -> PubPcs]
        /\ \A q \in Publishers : \/ pc'[q] = pc[q] \/ pc'[q] = "release"
                                 \/ pc[q] \in {"ack", "quarantine"} /\ pc'[q] = "quarantine"
    BY <1>1 DEF OutboxInv, TypeOK, PubPcs
  <2>2. TypeOK'
    BY <1>0, <1>1, <2>1 DEF OutboxInv, TypeOK
  <2>3. ReplicaIsPrefix' /\ AckedOwned' /\ DrainedInOrder'
    BY <1>0, <1>1 DEF OutboxInv, ReplicaIsPrefix, AckedOwned, DrainedInOrder
  <2>4. Sent' /\ Receipts'
    BY <1>0, <1>1, <2>1 DEF OutboxInv, Sent, Receipts
  <2> QED
    BY <2>2, <2>3, <2>4 DEF OutboxInv
<1>2. CASE ActOnDecision(p)
  <2>1. CASE reply[p] \in Ack /\ lease = p /\ state[at[p]] = "pending"
    <3>1. /\ pc[p] = "ack" /\ state' = [state EXCEPT ![at[p]] = "acked"]
          /\ pc' = [pc EXCEPT ![p] = "next"]
      BY <1>2, <2>1 DEF ActOnDecision, Goto, Ack, Transient, Terminal
    <3>2. at[p] <= Len(applied)
      BY <2>1, <3>1 DEF OutboxInv, Receipts
    <3> QED
      BY <1>0, <2>1, <3>1, <3>2, SettleInv
  <2>2. CASE ~(reply[p] \in Ack /\ lease = p /\ state[at[p]] = "pending")
    BY <1>1, <1>2, <2>2 DEF ActOnDecision, Goto
  <2> QED
    BY <2>1, <2>2
<1>3. CASE QuarantineRecord(p)
  <2>1. CASE lease = p /\ state[at[p]] = "pending"
    <3>1. /\ pc[p] = "quarantine" /\ state' = [state EXCEPT ![at[p]] = "quarantined"]
          /\ pc' = [pc EXCEPT ![p] = "release"]
      BY <1>3, <2>1 DEF QuarantineRecord, Goto
    <3> QED
      BY <1>0, <2>1, <3>1, SettleInv
  <2>2. CASE ~(lease = p /\ state[at[p]] = "pending")
    BY <1>1, <1>3, <2>2 DEF QuarantineRecord, Goto
  <2> QED
    BY <2>1, <2>2
<1> QED
  BY <1>2, <1>3

LEMMA NextInv == OutboxInv /\ [Next]_vars => OutboxInv'
<1> SUFFICES ASSUME OutboxInv, [Next]_vars PROVE OutboxInv'
  OBVIOUS
<1>1. CASE UNCHANGED vars
  <2>1. UNCHANGED <<srcFence, rcvFence, token, tx, rows, state, applied, lease, expired, pc, at,
                    reply, late, faults>>
    BY <1>1 DEF vars, srcVars, pubVars
  <2> QED
    BY <2>1 DEF OutboxInv, TypeOK, ReplicaIsPrefix, AckedOwned, DrainedInOrder, Sent, Receipts
<1>2. ASSUME NEW p \in Publishers, Drain(p) PROVE OutboxInv'
  BY <1>2, LeaseInv, NextDeliverableInv, DeliverInv, ActInv DEF Drain
<1> QED
  BY <1>1, <1>2, FenceInv, AppendInv, LeaseInv, DeliverInv, DeliverFailsInv, DeliverLateInv DEF Next

\* The invariant holds in every reachable state of the outbox.
THEOREM OutboxCorrect == Spec => []OutboxInv
BY InitInv, NextInv, PTL DEF Spec

\* A row leaves the outbox only when the receiver owns the same record.
THEOREM AckOnlyApplied == Spec => []AckedIsApplied
<1>1. OutboxInv => AckedIsApplied
  BY DEF OutboxInv, AckedIsApplied, AckedOwned, ReplicaIsPrefix, Acked, TypeOK
<1> QED
  BY <1>1, OutboxCorrect, PTL

\* The receiver's history is the source's log up to some point:
\* verifyAndApplyInTx skips, reorders, repeats and alters nothing.
THEOREM ReplicaPrefix == Spec => []ReplicaIsPrefix
BY OutboxCorrect, PTL DEF OutboxInv

\* The drain settles rows strictly in order and halts at a quarantined one
\* (nextDeliverable, quarantineRecord).
THEOREM DrainInOrder == Spec => []DrainedInOrder
BY OutboxCorrect, PTL DEF OutboxInv

\* No record on its way is ahead of the receiver's next sequence, so that
\* reject-gap never happens between an unchanged source and receiver.
THEOREM NeverAGap == Spec => []NoGap
<1>1. OutboxInv => NoGap
  <2> SUFFICES ASSUME OutboxInv PROVE NoGap
    OBVIOUS
  <2>1. ASSUME NEW i \in DOMAIN rows, \A j \in 1..(i - 1) : state[j] = "acked"
        PROVE  i <= Len(applied) + 1
    <3>1. i \in 1..Len(rows) /\ Len(rows) \in Nat /\ Len(applied) \in Nat /\ DOMAIN rows = 1..Len(rows)
      BY <2>1 DEF OutboxInv, TypeOK
    <3>2. CASE i = 1
      BY <3>1, <3>2
    <3>3. CASE i > 1
      <4>1. i - 1 \in 1..(i - 1) /\ i - 1 \in DOMAIN rows
        BY <3>1, <3>3
      <4>2. i - 1 <= Len(applied)
        BY <2>1, <4>1 DEF OutboxInv, AckedOwned
      <4> QED
        BY <3>1, <4>2
    <3> QED
      BY <3>1, <3>2, <3>3
  <2>2. \A p \in Publishers : pc[p] = "await" =>
          at[p] \in DOMAIN rows /\ \A j \in 1..(at[p] - 1) : state[j] = "acked"
    BY DEF OutboxInv, TypeOK, Sent
  <2>3. \A i \in late : i \in DOMAIN rows /\ \A j \in 1..(i - 1) : state[j] = "acked"
    BY DEF OutboxInv, TypeOK, Sent
  <2> QED
    BY <2>1, <2>2, <2>3 DEF NoGap
<1> QED
  BY <1>1, OutboxCorrect, PTL

\* Every variable of the outbox stays in its type: the receiver's decision is one the
\* publisher handles.
THEOREM OutboxTyped == Spec => []TypeOK
BY OutboxCorrect, PTL DEF OutboxInv

-----------------------------------------------------------------------------
(* Admission control.                                                      *)

LEMMA PendingFinite ==
  ASSUME TypeOK
  PROVE  IsFiniteSet(Pending) /\ Cardinality(Pending) \in Nat
<1>1. Len(rows) \in Nat /\ Pending \in SUBSET (1..Len(rows))
  BY DEF TypeOK, Pending
<1>2. IsFiniteSet(1..Len(rows))
  BY <1>1, FS_Interval
<1>3. IsFiniteSet(Pending)
  BY <1>1, <1>2, FS_Subset
<1> QED
  BY <1>3, FS_CardinalityType

\* Only the append makes a row pending, and it makes one.
LEMMA AppendPends ==
  ASSUME TypeOK, NEW w \in Writers, NEW v \in Values, AppendInTx(w, v)
  PROVE  Pending' \subseteq Pending \cup {Len(rows) + 1}
<1> DEFINE row == [sequence |-> Len(rows) + 1, fence |-> tx[w].fence, value |-> v]
<1>1. /\ rows' = Append(rows, row) /\ state' = Append(state, "pending")
      /\ rows \in Seq(Row) /\ Len(rows) \in Nat
      /\ state \in Seq({"pending", "acked", "quarantined"}) /\ Len(state) = Len(rows)
  BY DEF AppendInTx, TypeOK
<1> HIDE DEF row
<1>2. /\ DOMAIN rows = 1..Len(rows) /\ DOMAIN rows' = 1..(Len(rows) + 1)
      /\ \A i \in 1..Len(rows) : state'[i] = state[i]
  BY <1>1
<1> QED
  BY <1>1, <1>2 DEF Pending

\* No other step makes a row pending again.
LEMMA OthersSettle ==
  ASSUME TypeOK, [Next]_vars, \A w \in Writers, v \in Values : ~AppendInTx(w, v)
  PROVE  Pending' \subseteq Pending
<1>1. CASE UNCHANGED <<rows, state>>
  BY <1>1 DEF Pending
<1>2. ASSUME NEW p \in Publishers, ActOnDecision(p) \/ QuarantineRecord(p)
      PROVE  Pending' \subseteq Pending
  <2>1. rows' = rows
    BY <1>2 DEF ActOnDecision, QuarantineRecord, srcVars
  <2>2. state' = state \/ \E new \in {"acked", "quarantined"} : state' = [state EXCEPT ![at[p]] = new]
    BY <1>2 DEF ActOnDecision, QuarantineRecord
  <2>3. DOMAIN state = DOMAIN rows
    BY DEF TypeOK
  <2> QED
    BY <2>1, <2>2, <2>3 DEF Pending
<1>3. ASSUME NEW p \in Publishers,
             \/ AcquireLease(p) \/ NextDeliverable(p) \/ ReleaseLease(p) \/ Crash(p)
             \/ \E intact \in BOOLEAN : Deliver(p, intact)
             \/ \E terminal \in BOOLEAN : DeliverFails(p, terminal)
      PROVE  UNCHANGED <<rows, state>>
  BY <1>3 DEF AcquireLease, NextDeliverable, ReleaseLease, Crash, Deliver, DeliverFails, srcVars
<1>4. ASSUME \/ \E w \in Writers : AcquireFence(w) \/ BeginAppend(w) \/ AbortAppend(w)
             \/ AcquireReceiverFence \/ ExpireLease \/ \E i \in late : DeliverLate(i)
      PROVE  UNCHANGED <<rows, state>>
  BY <1>4 DEF AcquireFence, AcquireReceiverFence, BeginAppend, AbortAppend, ExpireLease, DeliverLate, srcVars
<1>5. CASE UNCHANGED vars
  BY <1>1, <1>5 DEF vars, srcVars
<1> QED
  BY <1>1, <1>2, <1>3, <1>4, <1>5 DEF Next, Drain

\* As long as nobody else has committed, what a transaction counted in its snapshot
\* still holds: rows are settled in the meantime, none is added.
Counted ==
  \A w \in Writers : tx[w] # NoTx /\ tx[w].sequence = Len(rows) =>
    Cardinality(Pending) < MaxPending

\* A snapshot shows the checkpoint as it is or as it was.
SnapshotsOld == \A w \in Writers : tx[w] # NoTx => tx[w].sequence <= Len(rows)

BacklogInv == BoundedOutbox /\ Counted /\ SnapshotsOld

\* Of the other steps only the begin of a transaction opens one.
LEMMA OthersBegin ==
  ASSUME TypeOK, [Next]_vars, \A w \in Writers, v \in Values : ~AppendInTx(w, v)
  PROVE  /\ rows' = rows
         /\ \A u \in Writers : \/ tx'[u] \in {tx[u], NoTx}
                               \/ /\ tx'[u].sequence = Len(rows)
                                  /\ Cardinality(Pending) < MaxPending
<1>1. ASSUME NEW p \in Publishers,
             \/ Drain(p) \/ Crash(p)
             \/ \E intact \in BOOLEAN : Deliver(p, intact)
             \/ \E terminal \in BOOLEAN : DeliverFails(p, terminal)
      PROVE  UNCHANGED <<rows, tx>>
  BY <1>1 DEF Drain, ActOnDecision, QuarantineRecord, AcquireLease, NextDeliverable,
              ReleaseLease, Crash, Deliver, DeliverFails, srcVars
<1>2. ASSUME \/ AcquireReceiverFence \/ ExpireLease \/ UNCHANGED vars
             \/ \E i \in late : DeliverLate(i)
             \/ \E w \in Writers : AcquireFence(w)
      PROVE  UNCHANGED <<rows, tx>>
  BY <1>2 DEF AcquireFence, AcquireReceiverFence, ExpireLease, DeliverLate, vars, srcVars
<1>3. ASSUME NEW w \in Writers, BeginAppend(w) \/ AbortAppend(w)
      PROVE  /\ rows' = rows
             /\ \A u \in Writers : \/ tx'[u] \in {tx[u], NoTx}
                                   \/ /\ tx'[u].sequence = Len(rows)
                                      /\ Cardinality(Pending) < MaxPending
  BY <1>3 DEF BeginAppend, AbortAppend, TypeOK
<1> QED
  BY <1>1, <1>2, <1>3 DEF Next

LEMMA BacklogStep == TypeOK /\ TypeOK' /\ BacklogInv /\ [Next]_vars => BacklogInv'
<1> SUFFICES ASSUME TypeOK, TypeOK', BacklogInv, [Next]_vars PROVE BacklogInv'
  OBVIOUS
<1>1. /\ IsFiniteSet(Pending) /\ Cardinality(Pending) \in Nat /\ MaxPending \in Nat
      /\ Cardinality(Pending) <= MaxPending
  BY PendingFinite, OutboxAssumption DEF BacklogInv, BoundedOutbox
<1>2. ASSUME NEW w \in Writers, NEW v \in Values, AppendInTx(w, v) PROVE BacklogInv'
  <2>1. Cardinality(Pending) < MaxPending
    BY <1>2 DEF AppendInTx, Serializable, BacklogInv, Counted
  <2> DEFINE S == Pending \cup {Len(rows) + 1}
  <2>2. IsFiniteSet(S) /\ Cardinality(S) <= Cardinality(Pending) + 1
    <3>1. /\ IsFiniteSet(S)
          /\ Cardinality(S) = IF Len(rows) + 1 \in Pending THEN Cardinality(Pending)
                              ELSE Cardinality(Pending) + 1
      BY <1>1, FS_AddElement
    <3> HIDE DEF S
    <3> QED
      BY <1>1, <3>1
  <2>3. Cardinality(S) \in Nat
    BY <2>2, FS_CardinalityType
  <2>4. Pending' \in SUBSET S
    BY <1>2, AppendPends
  <2> HIDE DEF S
  <2>5. IsFiniteSet(Pending') /\ Cardinality(Pending') <= Cardinality(S)
    BY <2>2, <2>4, FS_Subset
  <2>6. Cardinality(Pending') \in Nat
    BY <2>5, FS_CardinalityType
  <2>7. BoundedOutbox'
    BY <1>1, <2>1, <2>2, <2>3, <2>5, <2>6 DEF BoundedOutbox
  <2>8. ASSUME NEW u \in Writers, tx'[u] # NoTx, tx'[u].sequence = Len(rows') PROVE FALSE
    <3>1. tx \in [Writers -> Snapshots \cup {NoTx}] /\ tx' = [tx EXCEPT ![w] = NoTx]
      BY <1>2 DEF AppendInTx, TypeOK
    <3>2. u # w /\ tx'[u] = tx[u] /\ tx[u] \in Snapshots
      BY <2>8, <3>1
    <3>3. Len(rows') = Len(rows) + 1 /\ Len(rows) \in Nat
      BY <1>2 DEF AppendInTx, TypeOK
    <3>4. tx[u].sequence = Len(rows) + 1
      BY <2>8, <3>2, <3>3
    <3>5. tx[u].sequence <= Len(rows)
      BY <2>8, <3>2 DEF BacklogInv, SnapshotsOld
    <3> QED
      BY <3>3, <3>4, <3>5
  <2>9. ASSUME NEW u \in Writers, tx'[u] # NoTx PROVE tx'[u].sequence <= Len(rows')
    <3>1. tx \in [Writers -> Snapshots \cup {NoTx}] /\ tx' = [tx EXCEPT ![w] = NoTx]
      BY <1>2 DEF AppendInTx, TypeOK
    <3>2. tx'[u] = tx[u] /\ tx[u] # NoTx /\ tx[u] \in Snapshots
      BY <2>9, <3>1
    <3>3. Len(rows') = Len(rows) + 1 /\ Len(rows) \in Nat
      BY <1>2 DEF AppendInTx, TypeOK
    <3>4. tx[u].sequence <= Len(rows) /\ tx[u].sequence \in Int
      BY <3>2 DEF BacklogInv, SnapshotsOld, Snapshots
    <3> QED
      BY <3>2, <3>3, <3>4
  <2> QED
    BY <2>7, <2>8, <2>9 DEF BacklogInv, Counted, SnapshotsOld
<1>3. CASE \A w \in Writers, v \in Values : ~AppendInTx(w, v)
  <2>1. Pending' \in SUBSET Pending
    BY <1>3, OthersSettle
  <2>2. IsFiniteSet(Pending') /\ Cardinality(Pending') <= Cardinality(Pending)
    BY <1>1, <2>1, FS_Subset
  <2>3. Cardinality(Pending') \in Nat
    BY <2>2, FS_CardinalityType
  <2>4. BoundedOutbox'
    BY <1>1, <2>2, <2>3 DEF BoundedOutbox
  <2>5. /\ rows' = rows
        /\ \A u \in Writers : \/ tx'[u] \in {tx[u], NoTx}
                              \/ /\ tx'[u].sequence = Len(rows)
                                 /\ Cardinality(Pending) < MaxPending
    BY <1>3, OthersBegin
  <2>6. ASSUME NEW u \in Writers, tx'[u] # NoTx, tx'[u].sequence = Len(rows')
        PROVE  Cardinality(Pending') < MaxPending
    <3>1. Cardinality(Pending) < MaxPending
      BY <2>5, <2>6 DEF BacklogInv, Counted
    <3> QED
      BY <1>1, <2>2, <2>3, <3>1
  <2>7. ASSUME NEW u \in Writers, tx'[u] # NoTx PROVE tx'[u].sequence <= Len(rows')
    <3>1. Len(rows) \in Nat
      BY DEF TypeOK
    <3> QED
      BY <2>5, <2>7, <3>1 DEF BacklogInv, SnapshotsOld
  <2> QED
    BY <2>4, <2>6, <2>7 DEF BacklogInv, Counted, SnapshotsOld
<1> QED
  BY <1>2, <1>3

\* Two appends may both find room in their snapshots, but the second to commit fails on
\* the checkpoint that the first advanced; so the backlog never exceeds maxPendingRows,
\* however appends, drains and faults interleave.
THEOREM BacklogBounded == Spec => []BoundedOutbox
<1>1. Init => BacklogInv
  <2> SUFFICES ASSUME Init PROVE BacklogInv
    OBVIOUS
  <2>1. Pending = {}
    BY DEF Init, Pending
  <2>2. BoundedOutbox
    BY <2>1, FS_EmptySet, OutboxAssumption DEF BoundedOutbox
  <2> QED
    BY <2>2 DEF Init, BacklogInv, Counted, SnapshotsOld
<1> QED
  BY <1>1, OutboxTyped, BacklogStep, PTL DEF Spec, BacklogInv

-----------------------------------------------------------------------------
(* The outbox implements the replicated log.                               *)

\* The steps that change neither log nor replica nor what was acked.
LEMMA SameAcked ==
  ASSUME UNCHANGED <<rows, state, applied>>
  PROVE  UNCHANGED Log!logVars
<1>1. Acked' = Acked
  BY DEF Acked
<1> QED
  BY <1>1 DEF Log!logVars

LEMMA ReceiverRefines ==
  ASSUME OutboxInv, NEW i \in DOMAIN rows, NEW intact \in BOOLEAN, ApplyInTx(i, intact),
         UNCHANGED <<rows, state>>
  PROVE  [Log!Next]_(Log!logVars)
<1>1. Acked' = Acked
  BY DEF Acked
<1>2. \/ applied' = applied
      \/ Len(applied) < Len(rows) /\ applied' = Append(applied, rows[Len(applied) + 1])
  BY ReceiverStep DEF OutboxInv
<1> QED
  BY <1>1, <1>2 DEF Log!Next, Log!Replicate, Log!logVars

LEMMA AppendRefines ==
  ASSUME OutboxInv, NEW w \in Writers, NEW v \in Values, AppendInTx(w, v)
  PROVE  Log!Commit
<1> DEFINE row == [sequence |-> Len(rows) + 1, fence |-> tx[w].fence, value |-> v]
<1>1. /\ rows' = Append(rows, row) /\ state' = Append(state, "pending")
      /\ UNCHANGED applied
  BY DEF AppendInTx
<1>2. /\ rows \in Seq(Row) /\ row \in Row /\ Len(rows) \in Nat
      /\ state \in Seq({"pending", "acked", "quarantined"}) /\ Len(state) = Len(rows)
  BY AppendedRow DEF OutboxInv, TypeOK
<1> HIDE DEF row
<1>3. /\ DOMAIN rows = 1..Len(rows) /\ DOMAIN rows' = 1..(Len(rows) + 1)
      /\ \A i \in 1..Len(rows) : state'[i] = state[i]
      /\ state'[Len(rows) + 1] = "pending"
  BY <1>1, <1>2
<1>4. Acked' = Acked
  BY <1>2, <1>3 DEF Acked
<1> QED
  BY <1>1, <1>2, <1>4 DEF Log!Commit

LEMMA AckRefines ==
  ASSUME OutboxInv, NEW p \in Publishers, ActOnDecision(p) \/ QuarantineRecord(p)
  PROVE  [Log!Next]_(Log!logVars)
<1>0. UNCHANGED <<rows, applied>>
  BY DEF ActOnDecision, QuarantineRecord, srcVars
<1>t. /\ Len(rows) \in Nat /\ Len(applied) \in Nat /\ DOMAIN rows = 1..Len(rows)
      /\ state \in Seq({"pending", "acked", "quarantined"}) /\ Len(state) = Len(rows)
      /\ pc[p] \in {"ack", "quarantine"} => at[p] \in 1..Len(rows)
  BY DEF OutboxInv, TypeOK
<1>1. CASE UNCHANGED state
  BY <1>0, <1>1, SameAcked
<1>2. CASE /\ pc[p] = "quarantine" /\ state[at[p]] = "pending"
           /\ state' = [state EXCEPT ![at[p]] = "quarantined"]
  <2>1. Acked' = Acked
    BY <1>0, <1>t, <1>2 DEF Acked
  <2> QED
    BY <1>0, <2>1 DEF Log!logVars
<1>3. CASE /\ pc[p] = "ack" /\ reply[p] \in Ack /\ state[at[p]] = "pending"
           /\ state' = [state EXCEPT ![at[p]] = "acked"]
  <2> DEFINE k == at[p]
  <2>1. k \in 1..Len(rows) /\ k <= Len(applied)
    BY <1>t, <1>3 DEF OutboxInv, Receipts
  <2>2. \A j \in 1..(k - 1) : state[j] = "acked"
    BY <1>3 DEF OutboxInv, Sent
  <2>3. \A i \in 1..Len(rows) : i > k => state[i] # "acked"
    <3> SUFFICES ASSUME NEW i \in 1..Len(rows), i > k, state[i] = "acked" PROVE FALSE
      OBVIOUS
    <3>1. k \in 1..(i - 1)
      BY <1>t, <2>1
    <3> QED
      BY <1>t, <1>3, <3>1 DEF OutboxInv, DrainedInOrder
  <2>4. Acked = 1..(k - 1)
    BY <1>t, <1>3, <2>1, <2>2, <2>3 DEF Acked
  <2>5. Acked' = 1..k
    BY <1>0, <1>t, <1>3, <2>1, <2>2, <2>3 DEF Acked
  <2>6. Cardinality(1..(k - 1)) = k - 1 /\ Cardinality(1..k) = k
    BY <2>1, FS_Interval
  <2>7. Log!Acknowledge
    BY <1>0, <1>t, <2>1, <2>4, <2>5, <2>6 DEF Log!Acknowledge
  <2> QED
    BY <2>7 DEF Log!Next
<1> QED
  BY <1>1, <1>2, <1>3 DEF ActOnDecision, QuarantineRecord

\* Whatever crashes, fails, expires or arrives late, the source and the
\* receiver together behave as one log that is copied in order, each record
\* once, and acknowledged only after it was copied.
THEOREM OutboxImplementsLog == Spec => ImplementsLog
<1>1. Init => Log!Init
  <2> SUFFICES ASSUME Init PROVE Log!Init
    OBVIOUS
  <2>1. Acked = {}
    BY DEF Init, Acked
  <2> QED
    BY <2>1, FS_EmptySet DEF Init, Log!Init
<1>2. OutboxInv /\ [Next]_vars => [Log!Next]_(Log!logVars)
  <2> SUFFICES ASSUME OutboxInv, [Next]_vars PROVE [Log!Next]_(Log!logVars)
    OBVIOUS
  <2>1. CASE UNCHANGED <<rows, state, applied>>
    BY <2>1, SameAcked
  <2>2. ASSUME NEW w \in Writers, NEW v \in Values, AppendInTx(w, v)
        PROVE  [Log!Next]_(Log!logVars)
    BY <2>2, AppendRefines DEF Log!Next
  <2>3. ASSUME NEW p \in Publishers, NEW intact \in BOOLEAN, Deliver(p, intact)
        PROVE  [Log!Next]_(Log!logVars)
    <3>1. at[p] \in DOMAIN rows
      BY <2>3 DEF Deliver, OutboxInv, TypeOK
    <3> QED
      BY <2>3, <3>1, ReceiverRefines DEF Deliver, srcVars
  <2>4. ASSUME NEW p \in Publishers, NEW terminal \in BOOLEAN, DeliverFails(p, terminal)
        PROVE  [Log!Next]_(Log!logVars)
    <3>1. at[p] \in DOMAIN rows
      BY <2>4 DEF DeliverFails, OutboxInv, TypeOK
    <3>2. UNCHANGED <<rows, state>>
      BY <2>4 DEF DeliverFails, srcVars
    <3>3. applied' = applied \/ ApplyInTx(at[p], TRUE)
      BY <2>4, Zenon DEF DeliverFails
    <3> QED
      BY <2>1, <3>1, <3>2, <3>3, ReceiverRefines
  <2>5. ASSUME NEW i \in late, DeliverLate(i)
        PROVE  [Log!Next]_(Log!logVars)
    <3>1. i \in DOMAIN rows
      BY DEF OutboxInv, TypeOK
    <3> QED
      BY <2>5, <3>1, ReceiverRefines DEF DeliverLate, srcVars
  <2>6. ASSUME NEW p \in Publishers,
               AcquireLease(p) \/ NextDeliverable(p) \/ ReleaseLease(p) \/ Crash(p)
        PROVE  [Log!Next]_(Log!logVars)
    BY <2>1, <2>6 DEF AcquireLease, NextDeliverable, ReleaseLease, Crash, srcVars
  <2>7. ASSUME \/ \E w \in Writers : AcquireFence(w) \/ BeginAppend(w) \/ AbortAppend(w)
               \/ AcquireReceiverFence \/ ExpireLease \/ UNCHANGED vars
        PROVE  [Log!Next]_(Log!logVars)
    BY <2>1, <2>7 DEF AcquireFence, AcquireReceiverFence, BeginAppend, AbortAppend, ExpireLease, vars, srcVars
  <2>8. ASSUME NEW p \in Publishers, Drain(p) PROVE [Log!Next]_(Log!logVars)
    BY <2>3, <2>6, <2>8, AckRefines DEF Drain
  <2> QED
    BY <2>2, <2>3, <2>4, <2>5, <2>6, <2>7, <2>8 DEF Next
<1> QED
  BY <1>1, <1>2, OutboxCorrect, PTL DEF Spec, ImplementsLog, Log!Spec

=============================================================================
