---------------------------- MODULE PairTransactions ----------------------------
(***************************************************************************)
(* The operations of PgTransactionalPairStore as transactions of           *)
(* NodePostgresTransactor: each reads a snapshot, decides, appends a       *)
(* mutation to the outbox, changes the tables and commits, on a connection *)
(* of a small pool, with a deadline, failing queries, lost answers and     *)
(* retries after serialization failures.  The replica applies the          *)
(* mutations in their order with PgPairMutationApplier; how they travel is *)
(* the subject of DurableOutbox.                                           *)
(*                                                                         *)
(* Every transaction that writes updates the head of the stream, so        *)
(* PostgreSQL (SERIALIZABLE) lets it commit only when no other one did     *)
(* since its snapshot.  A COMMIT that was sent is processed by the server  *)
(* later or never, whoever still waits for it.                             *)
(***************************************************************************)
EXTENDS Naturals, Sequences, FiniteSets

CONSTANTS
  PairIds,     \* identities of pairs
  Tokens,      \* tokens of pending registrations
  Ops,         \* the operations that callers may start, see Op
  Txns,        \* calls that may run together
  PoolSize,    \* connections of the pool
  None,        \* no call, no mutation
  Seeded,      \* pairs that are active at first
  Requested,   \* tokens that are pending at first
  MaxActive,   \* maxActivePairs of approvePending
  Cap,         \* maxRequests of every pair
  MaxRetries,  \* maxSerializationRetries
  MaxOps,      \* bound on the operations started
  MaxFaults    \* bound on failing queries, lost COMMITs and deadlines

ASSUME TransactionAssumption ==
  /\ MaxActive \in Nat \ {0} /\ Cap \in Nat \ {0}
  /\ PoolSize \in Nat \ {0} /\ MaxRetries \in Nat /\ MaxOps \in Nat /\ MaxFaults \in Nat
  /\ None \notin PairIds \cup Tokens

Ids == 1..MaxOps
Stamps == 0..MaxOps + 1

VARIABLES
  db,       \* tables of the source: pairs, pending registrations
  log,      \* the outbox: mutations in the order of their commits
  replica,  \* tables of the replica
  applied,  \* mutations the replica has applied
  idle,     \* connections in the pool
  dirty,    \* those of them whose session was not reset
  orphans,  \* pool.connect() calls nobody waits for any more
  txn,      \* the calls in flight
  wire,     \* COMMITs sent and not processed by the server
  started,  \* operations started so far
  faults,   \* faults so far
  outcome,  \* history: what each operation told its caller
  commits   \* history: how often each operation was committed

txVars == <<db, log, commits>>
poolVars == <<idle, dirty>>
txAllVars == <<db, log, replica, applied, idle, dirty, orphans, txn, wire, started, faults,
               outcome, commits>>

-----------------------------------------------------------------------------
(* Tables, operations and mutations.                                       *)

Policies == {"old", "new"}
Pair == [status: {"absent", "active", "locked", "expired", "rotated", "revoked"},
         requests: Nat, policy: Policies]
Absent == [status |-> "absent", requests |-> 0, policy |-> "old"]
Fresh == [Absent EXCEPT !.status = "active"]
Tables == [pairs: [PairIds -> Pair], pending: [Tokens -> Stamps]]

Op == [kind: {"setPending", "deletePending"}, token: Tokens]
 \cup [kind: {"approvePending"}, token: Tokens, pair: PairIds]
 \cup [kind: {"rotatePair"}, pair: PairIds, new: PairIds]
 \cup [kind: {"update", "revoke", "claimSuccessfulUse", "lock", "delete"}, pair: PairIds]

\* Callers start operations of these kinds only.
ASSUME OperationAssumption == Ops \subseteq Op /\ IsFiniteSet(Txns)

Mutation == [kind: {"pair.set"}, pair: PairIds, record: Pair]
       \cup [kind: {"pair.delete"}, pair: PairIds]
       \cup [kind: {"pending.set"}, token: Tokens, stamp: Stamps]
       \cup [kind: {"pending.delete"}, token: Tokens]
       \cup [kind: {"pair.approve"}, token: Tokens, stamp: Stamps, pair: PairIds, record: Pair]
       \cup [kind: {"pair.rotate"}, old: PairIds, expected: Pair, pair: PairIds, record: Pair]

Set(p, record) == [kind |-> "pair.set", pair |-> p, record |-> record]

\* What the caller read before it called: the pending registration it approves,
\* the pair it rotates, the policy a request was verified against.
Expectation(op, t) ==
  [stamp |-> IF op.kind = "approvePending" THEN t.pending[op.token] ELSE 0,
   record |-> IF op.kind \in {"rotatePair", "claimSuccessfulUse"} THEN t.pairs[op.pair]
              ELSE Absent]

\* claimSuccessfulUse on the record it reads; it does not expire by time here.
ClaimMutation(p, record, seen) ==
  IF record.status # "active" THEN {}
  ELSE IF record.requests >= Cap THEN {Set(p, [record EXCEPT !.status = "expired"])}
  ELSE IF record.policy # seen.policy THEN {}
  ELSE {Set(p, [record EXCEPT !.requests = @ + 1,
                              !.status = IF record.requests + 1 >= Cap THEN "expired" ELSE @])}

\* The registration is the one the caller approved.
StillPending(op, seen, t) == seen.stamp # 0 /\ t.pending[op.token] = seen.stamp

\* There is room for another pair, and its identity is new.
HasRoom(op, t) ==
  /\ Cardinality({p \in PairIds : t.pairs[p].status = "active"}) < MaxActive
  /\ t.pairs[op.pair] = Absent

\* approvePending.
ApproveMutation(op, seen, t) ==
  IF StillPending(op, seen, t) /\ HasRoom(op, t)
  THEN {[kind |-> "pair.approve", token |-> op.token, stamp |-> seen.stamp,
         pair |-> op.pair, record |-> Fresh]}
  ELSE {}

\* What the callback throws for: an approval without room or of an identity that exists.
Throws(op, seen, t) ==
  op.kind = "approvePending" /\ StillPending(op, seen, t) /\ ~HasRoom(op, t)

\* Mutant: only the status of the old pair is compared.
RotateMutationStale(op, seen, t) ==
  IF /\ seen.record.status = "active" /\ t.pairs[op.pair].status = "active"
     /\ t.pairs[op.new] = Absent
  THEN {[kind |-> "pair.rotate", old |-> op.pair, expected |-> seen.record,
         pair |-> op.new, record |-> [Fresh EXCEPT !.policy = seen.record.policy]]}
  ELSE {}

\* rotatePair: the old pair is exactly the one the caller read.
RotateMutation(op, seen, t) ==
  IF /\ seen.record.status = "active" /\ t.pairs[op.pair] = seen.record
     /\ t.pairs[op.new] = Absent
  THEN {[kind |-> "pair.rotate", old |-> op.pair, expected |-> seen.record,
         pair |-> op.new, record |-> [Fresh EXCEPT !.policy = seen.record.policy]]}
  ELSE {}

\* A status a pair must be in, and the one it gets (conditionalStatus).
StatusMutation(p, t, status) ==
  IF t.pairs[p].status = "active" THEN {Set(p, [t.pairs[p] EXCEPT !.status = status])} ELSE {}

\* atomicMutate with the mutation of a revocation or of a policy change.
AtomicMutation(op, t) ==
  IF t.pairs[op.pair] = Absent THEN {}
  ELSE {Set(op.pair, IF op.kind = "revoke" THEN [t.pairs[op.pair] EXCEPT !.status = "revoked"]
                     ELSE [t.pairs[op.pair] EXCEPT !.policy = "new"])}

\* The mutation an operation decides on from the tables it reads, if any;
\* stamp is the requestedAt of a new registration.
Decide(op, seen, t, stamp) ==
  CASE op.kind = "setPending" -> {[kind |-> "pending.set", token |-> op.token, stamp |-> stamp]}
    [] op.kind = "deletePending" -> {[kind |-> "pending.delete", token |-> op.token]}
    [] op.kind = "approvePending" -> ApproveMutation(op, seen, t)
    [] op.kind = "rotatePair" -> RotateMutation(op, seen, t)
    [] op.kind = "claimSuccessfulUse" -> ClaimMutation(op.pair, t.pairs[op.pair], seen.record)
    [] op.kind = "lock" -> StatusMutation(op.pair, t, "locked")
    [] op.kind = "delete" -> {[kind |-> "pair.delete", pair |-> op.pair]}
    [] OTHER -> AtomicMutation(op, t)

\* The statements of a mutation; those of the source and of the applier are
\* the same.
Apply(t, m) ==
  CASE m.kind = "pair.set" -> [t EXCEPT !.pairs[m.pair] = m.record]
    [] m.kind = "pair.delete" -> [t EXCEPT !.pairs[m.pair] = Absent]
    [] m.kind = "pending.set" -> [t EXCEPT !.pending[m.token] = m.stamp]
    [] m.kind = "pending.delete" -> [t EXCEPT !.pending[m.token] = 0]
    [] m.kind = "pair.approve" -> [t EXCEPT !.pending[m.token] = 0, !.pairs[m.pair] = m.record]
    [] m.kind = "pair.rotate" -> [t EXCEPT !.pairs[m.old].status = "rotated",
                                           !.pairs[m.pair] = m.record]

\* What applyInTx demands of the replica; when it fails the stream stops.
Applicable(t, m) ==
  CASE m.kind = "pair.approve" -> t.pending[m.token] = m.stamp /\ t.pairs[m.pair] = Absent
    [] m.kind = "pair.rotate" -> t.pairs[m.old] = m.expected /\ t.pairs[m.pair] = Absent
    [] OTHER -> TRUE

-----------------------------------------------------------------------------
(* Calls and connections.                                                  *)

NoTxn == [at |-> "idle"]
Running == {"begun", "committing", "discarding", "failing"}
Errors == {"none", "error", "serialization", "aborted"}

Txn == [at: {"idle"}] \cup
       [at: {"acquiring", "sleeping"} \cup Running,
        op: Ops, id: Ids, seen: [stamp: Stamps, record: Pair], attempt: Nat,
        open: BOOLEAN,             \* it has a connection and releaseState = 'open'
        dispatched: BOOLEAN,       \* commitDispatched
        committed: BOOLEAN,        \* committed
        rolledBack: BOOLEAN,       \* commitDefinitivelyAborted
        reply: {"none", "COMMIT", "ROLLBACK", "serialization"},
        snapshot: Tables \cup {None}, base: Nat, error: Errors]

Commit == [id: Ids, base: Nat, mutation: Mutation \cup {None}]

TxTypeOK ==
  /\ db \in Tables /\ replica \in Tables
  /\ log \in Seq(Mutation) /\ applied \in 0..Len(log)
  /\ idle \in 0..PoolSize /\ dirty \in 0..idle
  /\ orphans \in Nat
  /\ txn \in [Txns -> Txn]
  /\ wire \subseteq Commit
  /\ started \in 0..MaxOps /\ faults \in 0..MaxFaults
  /\ outcome \in [Ids -> {"open", "done", "failed", "ambiguous", "postcommit"}]
  /\ commits \in [Ids -> Nat]

\* The snapshot both sides start from; a registration made before has the
\* stamp of no operation.
Imported == [pairs |-> [p \in PairIds |-> IF p \in Seeded THEN Fresh ELSE Absent],
             pending |-> [t \in Tokens |-> IF t \in Requested THEN MaxOps + 1 ELSE 0]]

TxInit ==
  /\ db = Imported /\ replica = Imported /\ log = <<>> /\ applied = 0
  /\ idle = PoolSize /\ dirty = 0 /\ orphans = 0
  /\ txn = [c \in Txns |-> NoTxn] /\ wire = {}
  /\ started = 0 /\ faults = 0
  /\ outcome = [i \in Ids |-> "open"] /\ commits = [i \in Ids |-> 0]

Fault == faults < MaxFaults /\ faults' = faults + 1
TxStep(c, r) == txn' = [txn EXCEPT ![c] = r]

\* A call of the store: runTransaction starts its first attempt.  A rotation of a
\* pair that is not active is refused before that.
Start(c, op) ==
  /\ txn[c].at = "idle" /\ started < MaxOps
  /\ op.kind = "rotatePair" => db.pairs[op.pair].status = "active"
  /\ started' = started + 1
  /\ TxStep(c, [at |-> "acquiring", op |-> op, id |-> started', seen |-> Expectation(op, db),
                attempt |-> 0, open |-> FALSE, dispatched |-> FALSE,
                committed |-> FALSE, rolledBack |-> FALSE, reply |-> "none",
                snapshot |-> None, base |-> 0, error |-> "none"])
  /\ UNCHANGED <<txVars, replica, applied, poolVars, orphans, wire, faults, outcome>>

\* acquire and the statements up to the continuity sentinel; the first SELECT
\* takes the snapshot.
Begin(c) ==
  /\ txn[c].at = "acquiring" /\ idle > 0
  /\ idle' = idle - 1
  /\ TxStep(c, [txn[c] EXCEPT !.at = "begun", !.open = TRUE,
                              !.snapshot = db, !.base = Len(log)])
  /\ UNCHANGED <<txVars, replica, applied, dirty, orphans, wire, started, faults, outcome>>

\* No connection in time, or the deadline: the call fails; the connection may
\* still arrive.
AcquireFails(c) ==
  /\ txn[c].at = "acquiring"
  /\ orphans' = orphans + 1
  /\ outcome' = [outcome EXCEPT ![txn[c].id] = "failed"]
  /\ TxStep(c, NoTxn)
  /\ UNCHANGED <<txVars, replica, applied, poolVars, wire, started, faults>>

\* It arrives, and is destroyed: the pool makes another one.
LateAcquire ==
  /\ orphans > 0 /\ idle > 0
  /\ orphans' = orphans - 1
  /\ UNCHANGED <<txVars, replica, applied, poolVars, txn, wire, started, faults, outcome>>

\* The callback throws, or it decides on the snapshot, appends and changes the
\* tables, the continuity check passes and COMMIT is sent; nothing of it is
\* visible before.  Appending behind a transaction that committed since is a
\* serialization failure.
Execute(c) ==
  /\ txn[c].at = "begun"
  /\ LET r == txn[c]
         ms == Decide(r.op, r.seen, r.snapshot, r.id)
     IN  \/ /\ Throws(r.op, r.seen, r.snapshot)
            /\ TxStep(c, [r EXCEPT !.at = "failing", !.error = "error"])
            /\ UNCHANGED wire
         \/ /\ ms # {} /\ r.base # Len(log)
            /\ TxStep(c, [r EXCEPT !.at = "failing", !.error = "serialization"])
            /\ UNCHANGED wire
         \/ \E m \in IF ms = {} THEN {None} ELSE ms :
              /\ ~Throws(r.op, r.seen, r.snapshot)
              /\ TxStep(c, [r EXCEPT !.at = "committing", !.dispatched = TRUE])
              /\ wire' = wire \cup {[id |-> r.id, base |-> r.base, mutation |-> m]}
  /\ UNCHANGED <<txVars, replica, applied, poolVars, orphans, started, faults, outcome>>

\* Every call that still waits for this COMMIT gets the reply.
Replied(t, reply) ==
  [c \in Txns |-> IF txn[c].at = "committing" /\ txn[c].id = t.id
                  THEN [txn[c] EXCEPT !.reply = reply] ELSE txn[c]]

\* The server processes a COMMIT.
ServerCommit(t) ==
  /\ wire' = wire \ {t}
  /\ IF t.mutation = None \/ t.base = Len(log)
     THEN /\ IF t.mutation = None THEN UNCHANGED <<db, log>>
             ELSE db' = Apply(db, t.mutation) /\ log' = Append(log, t.mutation)
          /\ commits' = [commits EXCEPT ![t.id] = @ + 1]
          /\ txn' = Replied(t, "COMMIT")
     ELSE /\ txn' = Replied(t, "serialization")
          /\ UNCHANGED txVars
  /\ UNCHANGED <<replica, applied, poolVars, orphans, started, faults, outcome>>

\* The transaction had failed already (its callback went on after an error), or
\* the COMMIT never reaches the server.
ServerRollback(t) ==
  /\ Fault
  /\ wire' = wire \ {t}
  /\ \E reply \in {"none", "ROLLBACK"} : txn' = Replied(t, reply)
  /\ UNCHANGED <<txVars, replica, applied, poolVars, orphans, started, outcome>>

\* The reply of the server to COMMIT.
OnReply(c) ==
  /\ txn[c].at = "committing" /\ txn[c].reply # "none"
  /\ TxStep(c, CASE txn[c].reply = "COMMIT" ->
                      [txn[c] EXCEPT !.at = "discarding", !.committed = TRUE]
                 [] txn[c].reply = "ROLLBACK" ->
                      [txn[c] EXCEPT !.at = "failing", !.rolledBack = TRUE, !.error = "error"]
                 [] OTHER -> [txn[c] EXCEPT !.at = "failing", !.error = "serialization"])
  /\ UNCHANGED <<txVars, replica, applied, poolVars, orphans, wire, started, faults, outcome>>

\* DISCARD ALL is confirmed: the connection goes back to the pool.
Finish(c) ==
  /\ txn[c].at = "discarding"
  /\ idle' = idle + 1
  /\ outcome' = [outcome EXCEPT ![txn[c].id] = "done"]
  /\ TxStep(c, NoTxn)
  /\ UNCHANGED <<txVars, replica, applied, dirty, orphans, wire, started, faults>>

\* A query fails, or is not confirmed.
QueryFails(c) ==
  /\ Fault
  /\ txn[c].at \in Running \ {"failing"}
  /\ TxStep(c, [txn[c] EXCEPT !.at = "failing", !.error = "error"])
  /\ UNCHANGED <<txVars, replica, applied, poolVars, orphans, wire, started, outcome>>

\* Mutant: the deadline does not cover the COMMIT.
AbortBeforeCommit(c) ==
  /\ txn[c].at = "begun"
  /\ TxStep(c, [txn[c] EXCEPT !.at = "failing", !.error = "aborted", !.open = FALSE])
  /\ idle' = idle + 1
  /\ UNCHANGED <<txVars, replica, applied, dirty, orphans, wire, started, faults, outcome>>

\* The deadline, or the caller's signal: the listener destroys the connection
\* at once, the query in flight rejects.
Abort(c) ==
  /\ txn[c].at \in Running \ {"failing"}
  /\ TxStep(c, [txn[c] EXCEPT !.at = "failing", !.error = "aborted", !.open = FALSE])
  /\ idle' = idle + 1
  /\ UNCHANGED <<txVars, replica, applied, dirty, orphans, wire, started, faults, outcome>>

\* Mutant: a COMMIT whose answer did not arrive counts as rolled back.
VerdictOptimistic(r) ==
  IF r.committed THEN "postcommit"
  ELSE IF r.error = "serialization" /\ r.attempt < MaxRetries THEN "retry"
  ELSE "failed"

\* The classification of an error by runOnce and the retry loop.  A connection
\* that cannot be disposed of changes the error, not the class.
Verdict(r) ==
  IF r.committed THEN "postcommit"
  ELSE IF r.dispatched /\ ~r.rolledBack THEN "ambiguous"
  ELSE IF r.error = "serialization" /\ r.attempt < MaxRetries THEN "retry"
  ELSE "failed"

\* Mutant: the connection of a failed transaction goes back to the pool.
DisposeReused(r) ==
  /\ idle' = IF r.open THEN idle + 1 ELSE idle
  /\ dirty' = IF r.open THEN dirty + 1 ELSE dirty

\* Roll back if the connection is open and COMMIT was not sent; then destroy
\* it, unless that was done before.
Dispose(r) ==
  /\ idle' = IF r.open THEN idle + 1 ELSE idle
  /\ UNCHANGED dirty

\* The catch block: dispose of the connection, classify, retry or throw.
Fail(c) ==
  /\ txn[c].at = "failing"
  /\ Dispose(txn[c])
  /\ LET r == txn[c]
     IN  IF Verdict(r) = "retry"
         THEN /\ TxStep(c, [r EXCEPT !.at = "sleeping", !.attempt = @ + 1,
                                     !.open = FALSE, !.dispatched = FALSE, !.rolledBack = FALSE,
                                     !.reply = "none", !.snapshot = None, !.base = 0,
                                     !.error = "none"])
              /\ UNCHANGED outcome
         ELSE /\ TxStep(c, NoTxn)
              /\ outcome' = [outcome EXCEPT ![r.id] = Verdict(r)]
  /\ UNCHANGED <<txVars, replica, applied, orphans, wire, started, faults>>

\* The back-off ends, or the deadline ends the call.
Retry(c) ==
  /\ txn[c].at = "sleeping"
  /\ \/ TxStep(c, [txn[c] EXCEPT !.at = "acquiring"]) /\ UNCHANGED outcome
     \/ TxStep(c, NoTxn) /\ outcome' = [outcome EXCEPT ![txn[c].id] = "failed"]
  /\ UNCHANGED <<txVars, replica, applied, poolVars, orphans, wire, started, faults>>

\* The replica applies the next mutation, or the stream stops.
ApplyInTx ==
  /\ applied < Len(log) /\ Applicable(replica, log[applied + 1])
  /\ replica' = Apply(replica, log[applied + 1])
  /\ applied' = applied + 1
  /\ UNCHANGED <<txVars, poolVars, orphans, txn, wire, started, faults, outcome>>

TxNext ==
  \/ \E c \in Txns : \/ \E op \in Ops : Start(c, op)
                     \/ Begin(c) \/ AcquireFails(c) \/ Execute(c) \/ OnReply(c)
                     \/ Finish(c) \/ QueryFails(c) \/ Abort(c) \/ Fail(c) \/ Retry(c)
  \/ LateAcquire
  \/ \E t \in wire : ServerCommit(t) \/ ServerRollback(t)
  \/ ApplyInTx

TxSpec == TxInit /\ [][TxNext]_txAllVars

\* The timers fire and catch blocks run; the server and the pool owe nothing.
TxFairSpec ==
  /\ TxSpec
  /\ \A c \in Txns : WF_txAllVars(AcquireFails(c) \/ Abort(c) \/ Fail(c) \/ Retry(c))

-----------------------------------------------------------------------------
(* Properties.                                                             *)

\* What a caller is told is what happened: a definite failure was and will be
\* committed by no attempt, a success and a post-commit error by exactly one,
\* and nothing twice, whatever COMMITs are still on their way
\* (AmbiguousCommitError, PostCommitReleaseError and the retry loop).
OutcomeIsTruthful ==
  \A i \in Ids : /\ commits[i] <= 1
                 /\ outcome[i] = "failed" => commits[i] = 0
                 /\ outcome[i] \in {"done", "postcommit"} => commits[i] = 1

\* No connection is released twice, kept by a call that has ended, or lent with
\* the session of a failed transaction (terminalRelease, late connections).
PoolIsSound ==
  /\ idle + Cardinality({c \in Txns : txn[c].at \in Running /\ txn[c].open}) = PoolSize
  /\ dirty = 0

\* The applier never meets a mutation whose preconditions fail, so the stream
\* is never parked by an approval or a rotation, and a replica that is up to
\* date has the tables of the source (applyInTx against approvePending,
\* rotatePair, atomicMutate and claimSuccessfulUse).
ReplicaFollows ==
  /\ applied < Len(log) => Applicable(replica, log[applied + 1])
  /\ applied = Len(log) => replica = db

\* The timers end every call, even when the pool has no connection and when the
\* server never answers the COMMIT (runTransaction, acquire, sleep).
EveryCallEnds == \A c \in Txns : txn[c].at # "idle" ~> txn[c].at = "idle"

=============================================================================
