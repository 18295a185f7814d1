----------------------------- MODULE DurableOutbox -----------------------------
(***************************************************************************)
(* The transactional outbox of ha-outbox-pg.ts, one stream of it: writers  *)
(* append to it in the transaction of their mutation, publishers drain it  *)
(* under a lease, and an independent receiver applies it.                  *)
(*                                                                         *)
(* A transaction of a publisher or of the receiver (serializable, one row  *)
(* lock held to the end) is one action.  The append is two, the snapshot   *)
(* and the commit, because writers race for the limit of the backlog.  The *)
(* delivery is outside any transaction: while it is under way the lease    *)
(* can expire and pass to another publisher, the call can fail after the   *)
(* receiver applied the record, the request can arrive after its publisher *)
(* gave up, and the publisher can crash.                                   *)
(*                                                                         *)
(* The digest of a record covers stream, epoch, sequence, fence and        *)
(* mutation, so here a record IS its digest.  A copy whose payload was     *)
(* changed on the way is one that is not intact.  The epoch of a stream    *)
(* never changes (transitionEpochInTx is not implemented), so it is left   *)
(* out, with the reject-epoch decision; reject-unsanitized is, as          *)
(* reject-fork, the terminal answer to a payload changed on the way.       *)
(***************************************************************************)
EXTENDS Integers, Sequences, FiniteSets

CONSTANTS
  Writers,    \* holders of a fence token on the source
  Publishers, \* drainOnce loops, one drain at a time each
  Values,     \* sanitized mutations
  MaxPending, \* maxPendingRows
  MaxRows,    \* bound on the rows appended
  MaxFence,   \* bound on the fence tokens, here and on the receiver
  MaxFaults,  \* bound on crashes, failed calls and leases lost while in use
  Corruption  \* whether a payload may be changed on the way

ASSUME OutboxAssumption ==
  /\ MaxPending \in Nat \ {0} /\ MaxRows \in Nat
  /\ MaxFence \in Nat \ {0} /\ MaxFaults \in Nat
  /\ Corruption \in BOOLEAN

VARIABLES
  srcFence, \* ha_outbox_fence of the source
  rcvFence, \* ha_outbox_fence of the receiver
  token,    \* the fence token each writer holds
  tx,       \* the snapshot of the transaction a writer has open
  rows,     \* ha_outbox_rows, by sequence
  state,    \* whether a row is pending, acked or quarantined
  applied,  \* the receiver's applied history; its length is the checkpoint
  lease,    \* ha_outbox_publisher_lease: the holder of the lease token
  expired,  \* lease_until < now()
  pc,       \* where the drain of a publisher is
  at,       \* the sequence of the record it delivers
  reply,    \* the decision of the receiver, "none" before there is one
  late,     \* sequences of requests that reach the receiver after all
  faults    \* faults so far

srcVars == <<srcFence, rcvFence, token, tx, rows>>
pubVars == <<pc, at, reply>>
vars == <<srcVars, state, applied, lease, expired, pubVars, late, faults>>

Nobody == "nobody"

\* No transaction is open; otherwise what the snapshot shows of the checkpoint
\* and the fence.
NoTx == [sequence |-> MaxRows, fence |-> 0]
Snapshots == [sequence: 0..(MaxRows - 1), fence: 1..MaxFence]

Row == [sequence: 1..MaxRows, fence: 1..MaxFence, value: Values]

\* Mutant: a rejected fence counts as delivered.
AckFenced == {"applied", "duplicate-ok", "reject-fence"}

Ack       == {"applied", "duplicate-ok"}
Transient == {"reject-gap", "reject-fence"}
Terminal  == {"reject-fork", "reject-stale", "reject-transport-terminal"}

PubPcs == {"idle", "next", "await", "ack", "quarantine", "release"}

TypeOK ==
  /\ srcFence \in 1..MaxFence /\ rcvFence \in 1..MaxFence
  /\ token \in [Writers -> 1..MaxFence]
  /\ tx \in [Writers -> Snapshots \cup {NoTx}]
  /\ rows \in Seq(Row)
  /\ state \in Seq({"pending", "acked", "quarantined"}) /\ Len(state) = Len(rows)
  /\ applied \in Seq(Row)
  /\ lease \in Publishers \cup {Nobody}
  /\ expired \in BOOLEAN
  /\ pc \in [Publishers -> PubPcs]
  /\ at \in [Publishers -> Nat]
  /\ \A p \in Publishers : pc[p] \in {"await", "ack", "quarantine"} => at[p] \in DOMAIN rows
  /\ reply \in [Publishers -> Ack \cup Transient \cup Terminal \cup {"none"}]
  /\ late \subseteq DOMAIN rows
  /\ faults \in Nat

\* The stream as provisioned on both sides: fence token 1, nothing appended.
Init ==
  /\ srcFence = 1 /\ rcvFence = 1
  /\ token = [w \in Writers |-> 1]
  /\ tx = [w \in Writers |-> NoTx]
  /\ rows = <<>> /\ state = <<>> /\ applied = <<>>
  /\ lease = Nobody /\ expired = FALSE
  /\ pc = [p \in Publishers |-> "idle"]
  /\ at = [p \in Publishers |-> 0]
  /\ reply = [p \in Publishers |-> "none"]
  /\ late = {} /\ faults = 0

-----------------------------------------------------------------------------
(* The source: promotion and append.                                       *)

\* PgPromotionFence.acquire: the writer gets the next token of the source.
AcquireFence(w) ==
  /\ srcFence < MaxFence
  /\ srcFence' = srcFence + 1
  /\ token' = [token EXCEPT ![w] = srcFence + 1]
  /\ UNCHANGED <<rcvFence, tx, rows, state, applied, lease, expired, pubVars, late, faults>>

\* The same operation on the receiver's database.
AcquireReceiverFence ==
  /\ rcvFence < MaxFence
  /\ rcvFence' = rcvFence + 1
  /\ UNCHANGED <<srcFence, token, tx, rows, state, applied, lease, expired, pubVars, late, faults>>

Pending == {i \in DOMAIN rows : state[i] = "pending"}

\* The transaction of appendInTx takes its snapshot.  The fence and the number of
\* pending rows it reads are those of the snapshot: a stale token or a full backlog
\* fails the call.
BeginAppend(w) ==
  /\ tx[w] = NoTx
  /\ Len(rows) < MaxRows
  /\ token[w] = srcFence
  /\ Cardinality(Pending) < MaxPending
  /\ tx' = [tx EXCEPT ![w] = [sequence |-> Len(rows), fence |-> srcFence]]
  /\ UNCHANGED <<srcFence, rcvFence, token, rows, state, applied, lease, expired, pubVars,
                 late, faults>>

\* Mutant: the sequence is drawn without the checkpoint.
SerializableFenceOnly(w) == tx[w].fence = srcFence

\* SELECT ... FOR UPDATE of fence and checkpoint: a serialization failure when the
\* row was changed after the snapshot.
Serializable(w) == tx[w].fence = srcFence /\ tx[w].sequence = Len(rows)

\* The rest of appendInTx with the caller's mutation: sequence and row, committed
\* together.
AppendInTx(w, v) ==
  /\ tx[w] # NoTx
  /\ Serializable(w)
  /\ rows' = Append(rows, [sequence |-> Len(rows) + 1, fence |-> tx[w].fence, value |-> v])
  /\ state' = Append(state, "pending")
  /\ tx' = [tx EXCEPT ![w] = NoTx]
  /\ UNCHANGED <<srcFence, rcvFence, token, applied, lease, expired, pubVars, late, faults>>

\* The transaction fails and is rolled back.
AbortAppend(w) ==
  /\ tx[w] # NoTx
  /\ tx' = [tx EXCEPT ![w] = NoTx]
  /\ UNCHANGED <<srcFence, rcvFence, token, rows, state, applied, lease, expired, pubVars,
                 late, faults>>

-----------------------------------------------------------------------------
(* The publisher: one drain.                                               *)

Goto(p, next) == pc' = [pc EXCEPT ![p] = next]

\* Mutant: an expired lease is not stolen.
AcquireFreeLease(p) ==
  /\ pc[p] = "idle"
  /\ lease = Nobody
  /\ lease' = p /\ expired' = FALSE
  /\ Goto(p, "next")
  /\ UNCHANGED <<srcVars, state, applied, at, reply, late, faults>>

AcquireLease(p) ==
  /\ pc[p] = "idle"
  /\ lease = Nobody \/ expired
  /\ lease' = p /\ expired' = FALSE
  /\ Goto(p, "next")
  /\ UNCHANGED <<srcVars, state, applied, at, reply, late, faults>>

\* Mutant: any row that is not acked.
Unacked(i) == state[i] # "acked"

\* The lowest row that is not acked, quarantined ones included.
Lowest(i) == state[i] # "acked" /\ \A j \in 1..(i - 1) : state[j] = "acked"

\* nextDeliverable: under the lease; nothing to do, a quarantined row or a lost
\* lease end the drain.  Otherwise the record goes out.
NextDeliverable(p) ==
  /\ pc[p] = "next"
  /\ \/ /\ lease = p
        /\ \E i \in DOMAIN rows : /\ Lowest(i) /\ state[i] = "pending"
                                  /\ at' = [at EXCEPT ![p] = i]
        /\ reply' = [reply EXCEPT ![p] = "none"]
        /\ Goto(p, "await")
     \/ /\ lease # p \/ ~ \E i \in DOMAIN rows : Lowest(i) /\ state[i] = "pending"
        /\ Goto(p, "release")
        /\ UNCHANGED <<at, reply>>
  /\ UNCHANGED <<srcVars, state, applied, lease, expired, late, faults>>

\* verifyAndApplyInTx: the decision on a copy of row i, in the order in which
\* the receiver checks.
Decision(i, intact) ==
  CASE ~intact -> "reject-fork"
    [] intact /\ rows[i].fence # rcvFence -> "reject-fence"
    [] intact /\ rows[i].fence = rcvFence ->
         CASE i <= Len(applied) -> IF applied[i] = rows[i] THEN "duplicate-ok" ELSE "reject-fork"
           [] i > Len(applied) + 1 -> "reject-gap"
           [] i = Len(applied) + 1 -> "applied"

\* What the transaction of that decision leaves in the receiver's database.
ApplyInTx(i, intact) ==
  applied' = IF Decision(i, intact) = "applied" THEN Append(applied, rows[i]) ELSE applied

\* The receiver handles the request of p and its signed receipt comes back.
Deliver(p, intact) ==
  /\ pc[p] = "await"
  /\ ApplyInTx(at[p], intact)
  /\ reply' = [reply EXCEPT ![p] = Decision(at[p], intact)]
  /\ Goto(p, "ack")
  /\ UNCHANGED <<srcVars, state, lease, expired, at, late, faults>>

\* The receiver handles the request but the answer is lost or its receipt does
\* not verify, or the call fails and the request is lost or still under way.
\* A retriable error of the transport ends the drain; a terminal one goes on to
\* quarantine the row.
DeliverFails(p, terminal) ==
  /\ pc[p] = "await"
  /\ faults < MaxFaults /\ faults' = faults + 1
  /\ \/ ApplyInTx(at[p], TRUE) /\ UNCHANGED late
     \/ UNCHANGED <<applied, late>>
     \/ late' = late \cup {at[p]} /\ UNCHANGED applied
  /\ IF terminal
     THEN /\ reply' = [reply EXCEPT ![p] = "reject-transport-terminal"]
          /\ Goto(p, "quarantine")
     ELSE /\ Goto(p, "release")
          /\ UNCHANGED reply
  /\ UNCHANGED <<srcVars, state, lease, expired, at>>

\* A request whose publisher gave up arrives; nobody reads the receipt.
DeliverLate(i) ==
  /\ i \in late
  /\ late' = late \ {i}
  /\ ApplyInTx(i, TRUE)
  /\ UNCHANGED <<srcVars, state, lease, expired, pubVars, faults>>

\* drainOnce acts on the verified decision: ack the row in a transaction that
\* checks lease and row again, stop, or go on to quarantine it.
ActOnDecision(p) ==
  /\ pc[p] = "ack"
  /\ \/ /\ reply[p] \in Ack
        /\ IF lease = p /\ state[at[p]] = "pending"
           THEN /\ state' = [state EXCEPT ![at[p]] = "acked"]
                /\ Goto(p, "next")
           ELSE Goto(p, "release") /\ UNCHANGED state
     \/ reply[p] \in Transient /\ Goto(p, "release") /\ UNCHANGED state
     \/ reply[p] \in Terminal /\ Goto(p, "quarantine") /\ UNCHANGED state
  /\ UNCHANGED <<srcVars, applied, lease, expired, at, reply, late, faults>>

\* Mutants: the update parks every row of the stream; it ignores the lease and
\* the state of the row.
QuarantineStream(p) ==
  /\ pc[p] = "quarantine" /\ lease = p
  /\ state' = [i \in DOMAIN state |-> IF state[i] = "pending" THEN "quarantined" ELSE state[i]]
  /\ Goto(p, "release")
  /\ UNCHANGED <<srcVars, applied, lease, expired, at, reply, late, faults>>
QuarantineUnguarded(p) ==
  /\ pc[p] = "quarantine"
  /\ state' = [state EXCEPT ![at[p]] = "quarantined"]
  /\ Goto(p, "release")
  /\ UNCHANGED <<srcVars, applied, lease, expired, at, reply, late, faults>>

\* quarantineRecord: park the row, under the lease and only if still pending.
QuarantineRecord(p) ==
  /\ pc[p] = "quarantine"
  /\ state' = IF lease = p /\ state[at[p]] = "pending"
              THEN [state EXCEPT ![at[p]] = "quarantined"] ELSE state
  /\ Goto(p, "release")
  /\ UNCHANGED <<srcVars, applied, lease, expired, at, reply, late, faults>>

\* The finally block: give up the lease, if it is still this drain's.
ReleaseLease(p) ==
  /\ pc[p] = "release"
  /\ lease' = IF lease = p THEN Nobody ELSE lease
  /\ expired' = IF lease = p THEN FALSE ELSE expired
  /\ Goto(p, "idle")
  /\ UNCHANGED <<srcVars, state, applied, at, reply, late, faults>>

\* The process of p dies; its lease token is left behind, and a request it
\* sent may still arrive.
Crash(p) ==
  /\ pc[p] # "idle"
  /\ faults < MaxFaults /\ faults' = faults + 1
  /\ Goto(p, "idle")
  /\ late' = IF pc[p] = "await" THEN late \cup {at[p]} ELSE late
  /\ UNCHANGED <<srcVars, state, applied, lease, expired, at, reply>>

\* The lease runs out: of a publisher that died, or of one still at work.
ExpireLease ==
  /\ lease # Nobody /\ ~expired
  /\ expired' = TRUE
  /\ IF pc[lease] = "idle" THEN UNCHANGED faults
     ELSE faults < MaxFaults /\ faults' = faults + 1
  /\ UNCHANGED <<srcVars, state, applied, lease, pubVars, late>>

Drain(p) ==
  \/ AcquireLease(p) \/ NextDeliverable(p)
  \/ Deliver(p, TRUE) \/ ActOnDecision(p) \/ QuarantineRecord(p) \/ ReleaseLease(p)

Next ==
  \/ \E w \in Writers : \/ AcquireFence(w) \/ BeginAppend(w) \/ AbortAppend(w)
                        \/ \E v \in Values : AppendInTx(w, v)
  \/ AcquireReceiverFence
  \/ \E p \in Publishers :
       \/ Drain(p) \/ Crash(p)
       \/ Corruption /\ Deliver(p, FALSE)
       \/ \E terminal \in BOOLEAN : DeliverFails(p, terminal)
  \/ \E i \in late : DeliverLate(i)
  \/ ExpireLease

Spec == Init /\ [][Next]_vars

\* A publisher is run again and again by its scheduler, takes its next step,
\* and a call that does not fail is answered; a lease runs out in the end.
Fairness == WF_vars(ExpireLease) /\ \A p \in Publishers : WF_vars(Drain(p))

FairSpec == Spec /\ Fairness

-----------------------------------------------------------------------------
(* Properties.                                                             *)

Acked == {i \in DOMAIN rows : state[i] = "acked"}

\* A row leaves the outbox only when the receiver durably owns it: the same
\* record at the same place of its history ("never ACKED on call-completion
\* alone").  Leases that change hands, crashes between apply and ack, lost
\* answers and late requests do not break it.
AckedIsApplied == \A i \in Acked : i <= Len(applied) /\ applied[i] = rows[i]

\* The receiver's history is the source's log up to some point: nothing
\* skipped, reordered, repeated or altered.
ReplicaIsPrefix == Len(applied) <= Len(rows) /\ \A i \in DOMAIN applied : applied[i] = rows[i]

\* "the receiver's contiguous cp+1 rule is always satisfied in order": no
\* record on its way, late ones included, is ahead of the next one expected.
NoGap ==
  /\ \A p \in Publishers : pc[p] = "await" => at[p] <= Len(applied) + 1
  /\ \A i \in late : i <= Len(applied) + 1

\* The outbox drains strictly in order and a quarantined row halts it: what was
\* acked is a prefix, and nothing is acked or quarantined beyond the row where
\* the stream was parked.
DrainedInOrder ==
  \A i \in DOMAIN rows : state[i] # "pending" => \A j \in 1..(i - 1) : state[j] = "acked"

\* maxPendingRows bounds the rows waiting for delivery, although two transactions can
\* each count the backlog below the limit in their snapshots: the one that commits
\* second fails on the checkpoint (appendInTx).
BoundedOutbox == Cardinality(Pending) <= MaxPending

\* The outbox implements the replicated log.
Log == INSTANCE ReplicatedLog WITH
         Mutations <- Row, log <- rows, replica <- applied, done <- Cardinality(Acked)

ImplementsLog == Log!Spec

\* Every row that was committed is acked in the end, or the stream is parked at
\* it or before it, or stands at a row of a fence the receiver does not share,
\* whatever failed on the way.
EveryRowSettles ==
  \A i \in 1..MaxRows :
    i \in Pending ~> \/ i \in Acked
                    \/ \E j \in 1..i : /\ j \in DOMAIN rows \ Acked
                                       /\ j \notin Pending \/ rows[j].fence # rcvFence

=============================================================================
