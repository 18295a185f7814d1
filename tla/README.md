# TLA+ verification of the BPC protocol

TLA+ models of the parts of this repository that are hard to test: concurrent
requests on one pair, replays, key rotation, failure lockout, the durable outbox
with its HTTP transport and schema, the cutover of its source, the PostgreSQL
transactions and the Redis nonce authority under them, sessions, audit chain,
client failover and the Python server. TLC checks them on small instances, TLAPS
proves all their safety properties for every instance. `PROJECT.json` lists
components, runs, theorems and hazards, and maps every definition to the lines it
models. Paths below are under `packages/server/src/` unless they say otherwise.

## 1. The system

| part | state | operations | talks to |
|---|---|---|---|
| request verifier, `middleware.ts` | none of its own; each call has locals | `verifyBPCRequest` | registry, nonce store, anomaly engine, audit log, rate limiters |
| pair registry, `registry.ts` | failures per pair and address | requestPairing, approvePairing, revoke, unlock, updatePair, recordActivity, claims | pair store |
| atomic pair store, `memory-store.ts`, `store.ts` | pairs, pending registrations, one lock (a promise chain) | conditional operations | |
| rotation, `rotation.ts`; nonce store, `nonce-store.ts`; anomaly engine, `anomaly.ts` | nonces with expiry; counters, shadow state | handleRotation; checkAndConsume; getVerdict | pair store |
| PostgreSQL pair store, `pg-transactor.ts`, `pg-durable-pair-store.ts` | tables, a pool of connections | transactions with deadline, abort and retries | outbox |
| durable outbox, `ha-outbox-pg.ts` | fence, checkpoints, rows, lease, quarantine, applied history | appendInTx, drainOnce, verifyAndApplyInTx, PgPromotionFence.acquire | transport, receiver |
| schema authority, `ha-outbox-pg.ts` | catalogue, version stamp, readiness tokens | assertSchemaReady, provision, adopt, prepare, migrate | legacy writers |
| HTTP transport, `http-outbox-transport.ts` | replay-nonce table | deliverAndAwaitAck, createHttpOutboxReceiver | outbox, receiver |
| HA cutover, `bpc-ha-final.ts` | leases, Redis quorum fence, epoch witness, cutover chain | begin, markFenced, markActive, snapshot, import, promote | both databases |
| mirror, `replicating-store.ts`, `replica-receiver.ts`, `promotion.ts` | bounded backlog, sequence checkpoint | enqueue, drain, apply, promote | a second pair store |
| Redis nonce authority, `redis-governed.ts`, `redis-continuity.ts`, `redis-nonce.ts` | nonces, epoch, quarantine; a gate per process | consume, reconcile | verifier |
| rollback checkpoint, `rollback-checkpoint.ts` | witness generation | provision, check, reserve | Redis view |
| rate limiter, `rate-limiter.ts`; audit log, `audit.ts` | sliding windows; hash chain | check; write, verifyChain, head | verifier |
| principal sessions, `principal-session.ts`; agent cache, `agent-cache.ts` | principals, sessions, streams, checkpoints; sealed entries | bindSession, closeSession, rotatePrincipalKey, fallback authorization | |
| client SDK, `packages/client-sdk/src` | health per endpoint | read, write, probe | servers |
| Python server, `packages/bpc-server/bpc_server` | pairs, nonces | verify, register, revoke | |

Hard behaviour, by kind (each item with its line under `hazards`):

* *Interleaving.* A request, a bind, a transaction, a reconcile is a chain of
  awaits; between the read and the write that relies on it everything may change.
* *Time.* Freshness is checked before the signature, the nonce is consumed after
  it; stores forget; two clocks decide about one lease or one nonce; windows end.
* *Partial failure.* COMMIT without an answer, a delivery outside any transaction,
  a restored Redis, a lost quorum member, a migration under running writers.
* *Limits.* Usage caps, pools, queues, capacity, the safe-integer ceiling.

## 2. Modules

A definition marked *Mutant* is a plausible bug; no specification uses it.

**`PairVerifier`** models verifier, registry, atomic store, rotation, nonce store
and shadow state together, because their properties are about the interplay. A
request `r` has a program counter `pc[r]`; one action is the code between two
awaits:

| action | code |
|---|---|
| `Receive` | steps 0 to 3 of `verifyBPCRequest`: shadow check, rate limits, headers |
| `LookUp` | steps 4 and 5; `snap[r]` is the `AuthorizationContext` |
| `EnsureLocked`, `MarkExpired`, `MarkUsageExpired` | the conditional writes before a denial |
| `Verdict`, `Verify` | layer 8 verdict; steps 6 to 12 |
| `RecordSigFailure`, `RecordFailure`, `ApplyFailure` | `deny(.., true)`: anomaly counter; the synchronous part of `recordActivity`, which captures a count; its store operation, which writes that count |
| `Consume` | continuity guard, `checkAndConsume` with expiry and eviction, ghost trap |
| `Claim`, `ClearTracker` | `claimSuccessfulUseOutcome`: store operation, then the tracker |
| `BeginRequest`/`SetPending`, `BeginApprove`/`CommitApprove`, `BeginRotate`/`CommitRotate` | `requestPairing`, `approvePairing`, `handleRotation`: the read and the later commit |
| `Revoke`, `Unlock`, `UpdatePair`, `ClearShadow` | operator calls |

The bytes of a request are abstracted to `valid[r]`: whether decoding, HMAC,
binding, body hash and signature pass. `NonceAssumption` says a nonce is signed
once. `won` and `origin` are history variables. The store is the atomic one.
Inside the horizon of this module no failure window ends.

**`FailureLockout`** is the failure accounting of one pair over unbounded time:
windows that end, score decay, delayed writes, reset by success, unlock. It holds
ages in place of time stamps so that the state is finite.

**`PairTransactions`** runs the operations of `PgTransactionalPairStore` as
transactions of `NodePostgresTransactor`: a connection is acquired (or arrives
late), a snapshot is read, the mutation is decided and appended to the outbox,
COMMIT is sent; queries fail, deadlines pass, callers abort, the server processes
a COMMIT nobody waits for. The replica applies the log with
`PgPairMutationApplier` and its preconditions. An approval that finds the capacity
reached or the identity taken throws (`Throws`) and its transaction is rolled back.
`Verdict` is what the caller is told; `commits` counts what happened.

**`DurableOutbox`** is one stream of the PostgreSQL outbox. A transaction of a
publisher or the receiver is one action. An append is two: `BeginAppend` reads fence
and backlog in a snapshot, `AppendInTx` commits later, and only if the rows it locks
(`Serializable`) are still those of the snapshot; `AbortAppend` rolls it back. The
delivery between transactions is not atomic with anything: it may be
answered (`Deliver`), fail with or without effect (`DeliverFails`), arrive after
its publisher gave up (`DeliverLate`), or lose its publisher (`Crash`) or lease
(`ExpireLease`). A record stands for its own digest. **`ReplicatedLog`** is what
the outbox promises: a log, a replica that applies it in order and exactly once,
and a source that forgets only what is replicated.

**`OutboxTransport`** is the hop inside `Deliver`: attempts signed under fresh
nonces, copies that arrive at any time, a receiver that checks freshness by its
own clock, burns the nonce by the clock of its database, applies and answers; any
answer may reach any waiting attempt, damaged or not.

**`SchemaAuthority`** is who may call the database ready. A SERIALIZABLE
transaction is a begin, which takes the snapshot, and an end, which writes only
where the stamp it saw is still there. The migration takes both tables
exclusively and then reads them. Legacy writers, which insert, replace and delete
rows, a role with DDL rights and a later build run beside it. `Prepare` looks at the
posture of the pair tables only; `Migrate` accepts the known columns, be the layout
legacy or already v3.

**`Cutover`** is `bpc-ha-final.ts` in the order of `bpc-ha-acceptance-drill.mts`,
with two operators that race to promote different replicas: lease grants and
their installation, the gate a transaction passes, the quorum fence and the
witness that confirms it, the cutover chain, snapshot, import, drain, promotion.
Each database clock may lag.

**`Replication`** is `ReplicatingPairStore` on the primary, `handleReplicaIngest`
with its apply guard on the replica, and the promotion gate. A mutation is three
steps, because the code awaits twice in it, and calls overlap between them: `Write`,
`DrawSequence` (or `SequenceFails`, which may use a number up) and `Enqueue`, which
sheds the head of a full queue and starts
the drainer. `Push` is a call that is answered, `PushFails` one that is not, `Wake`
the end of the backoff, `PushLate` a request that outlived its timeout. `Crash`
loses queue and calls and keeps the primary store and the sequence source. The
history variable `overlapped` keeps the keys that two calls had written and not
numbered at one time.

**`GovernedNonce`** is the shared Redis with its two scripts, each atomic, and per
process the gate and the reconcile loop. A command that timed out may still run.
Redis may lose everything, or be replaced by an instance that misses the last
writes. Times are time left, so the clock never ends.

**`RollbackCheckpoint`** is the guard that reserves generations at a witness in
another failure domain. The callers, Redis and the database are external; their
faults (a restored snapshot, a deleted row, a lost answer, a crash) are actions. The
injected authorizer is taken to approve an epoch once (section 7).

**`PrincipalLedger`** is `MemoryPrincipalSessionLedger` and the two caches; a call
steps through its awaits. Hashes are injective, so a stream's head is its length.

**`Admission`** is the commands of `RedisRateLimiter.check`, each of which may fail
(`LimiterFails`), and the optimistic append of `PgAuditLog.write`, for processes
without a lock between them; anchors, of an empty log too, and truncation included.
Between them is the verification: `Verify` ends in an audit entry, `DenyShadow` is the
two denials of the verifier that return without one. The sorted set is a set of
members with their scores.

**`FailoverClient`** is `FailoverTransport`: all calls in flight share the belief
about the endpoints. An endpoint that is `up` answers requests and probes. The history
variable `misses` has the times at which an endpoint missed since it last answered.

**`PyVerifier`** is `BPCVerifier.verify` under the FastAPI middleware, where it
has no await and is one step; copies of signed requests arrive at any time.

`MCPairVerifier`, `MCGovernedNonce`, `MCPrincipals`, `MCPairTransactions`,
`MCCutover`, `MCOutbox`, `MCOutboxTransport`, `MCReplication` and `MCAdmission` hold
instances. `MCOutbox` and `MCReplication` restrict each behaviour to one of the
combinations in section 3, chosen in the initial state, because all of them at once are
beyond TLC. `MCFailures` and
`MCAuthorities` each hold components that share no state: a variable chosen in
the initial state says which one moves in a behaviour, so the run checks each of
them in full and no product of them.

How the modules fit: a granted request of `PairVerifier` passes the limiter and
the audit log of `Admission`, and its nonce the store of `GovernedNonce` in place
of the in-memory one; its claim is an operation of `PairTransactions`, whose log
is the row sequence of `DurableOutbox`, whose `Deliver` is an attempt of
`OutboxTransport`. `SchemaAuthority` decides whether the tables may be used and
`Cutover` who may append to them; it takes from `DurableOutbox` that a receiver
applies a prefix.

## 3. Runs

| run | bounds | what it shows |
|---|---|---|
| `verification` | 2 requests with 3 credentials: two on a pair with two uses, one on a ghost pair; window 1, retention 3, stall 1, clock 0..3; scope and cap change | a nonce passes once, two claims that race on one pair are both counted, and of two that race for its last use one is granted, every use is granted by the policy in force |
| `lifecycle` | 2 requests on a pair with one use left, 2 handlers, 3 identities, 1 token | races of approval, rotation, lock, unlock, revocation and claim |
| `lockout` | 2 addresses and calls without one, 2 calls in flight, limit 2, window 2; primary and replica, a read and a write; 2 requests of a Python pair that expires | thresholds and liveness of the lock; a read throws only after it tried all, an endpoint is given up only for enough misses in one window; a request is executed once |
| `outbox` | 2 publishers, 3 rows, backlog of 2, 2 fence tokens; 2 writers, or 1 writer and 2 faults; fair | all safety of the outbox, with appends that race from snapshots, the refinement of `ReplicatedLog`, and that every row is settled unless the stream is parked or fenced |
| `replication` | 3 mutations, queue of 2, promotions; 2 writers on 2 keys, 2 writers on 1 key and 2 faults, or 1 writer on 2 keys and 1 fault; fair | the replica stays on the history; without overflow or crash nothing is lost and at rest the replica equals the primary at every key whose calls did not overlap; a numbered mutation arrives unless it or an earlier one was shed or overtaken, or a call died |
| `nonce_authority` | 2 processes of one configuration, 1 nonce, window 1, 2 faults, fair | a nonce is granted once across loss and failover; the gate reopens |
| `sessions` | 2 keys, 2 agents, 2 nonces, 2 calls, 3 checkpoints | checkpoints commit all streams, proofs and nonces count once, caches grant no replaced context |
| `transactions` | 2 calls, pool of 2, 1 retry, 2 operations, 1 fault, fair | the outcome a caller sees is true, no dirty connection is lent, the replica follows, every call ends |
| `cutover` | source, 2 targets, 3 members, skew 1, window 1, clock 0..4, 1 write, fair | one writer, nothing lost, a cutover completes |
| `admission` | 2 processes, 2 requests each, limit 1, window 2, 2 retries, 1 anchor | the excess of the limiter is bounded, the chain does not fork, truncation is noticed, one row per answer but for the two denials without one |
| `transport` | 2 attempts, 2 handlers, freshness 1, skew 1, safety 1, retention 5 | a request is admitted once under two clocks; a receipt counts for its attempt |
| `authorities` | 2 processes, 2 writers, 1 key, 3 rows (one that v3 refuses); 3 callers, 2 epochs, ceiling 2 | the migration loses nothing, stamp and layout agree; a generation is reserved once and mirrors do not overtake |

Why the bounds suffice to make the cases happen: a replay needs two copies;
retention 3 is exactly `2 * window + stall`, and 5 exactly
`2 * freshness + safety + 2 * skew`, the smallest values for which the properties
hold, so the expiry instant is reached; two handlers and one token give every race
of two commits; a stolen lease needs two publishers, an overtaken request three
rows; two appends race for the last place of a backlog of two; a queue of two overflows at
the third mutation, while the first is being pushed; numbers overtake each other with
two writers; one key is inserted, replaced and deleted under the migration; a majority of three survives one member; two callers collide on a
generation and a third sees the result. `verification` enumerates changes of scope
and cap; changes of expiry follow the same path of the claim and are left to the
theorem. Deadlock is not checked where the system stops by itself (all requests
answered, all rows delivered, the clock at its bound); `lockout`, `replication`
and `authorities` go on for ever and are checked for deadlock.

Every property of a passing run has a mutant of a mapped definition that violates it (`mutants`).
A property with several conjuncts (`ThresholdsLock`, `GrantedOnce`,
`NoncesSpentOnce`, `NothingLost`, `AuditTrailSound`, `ReservedOnce`) is one promise
with its parts. Every module states its types in `TypeOK` (prefixed where section 5
says so); `lifecycle` checks the one of `PairVerifier`, and the types are part of
every inductive invariant of section 5.

## 4. Fairness

* `FailureLockout`: `ApplyFailure`; the store serves its promises in order.
* `DurableOutbox`: every publisher's next step (its scheduler calls `drainOnce`
  again) and lease expiry. Faults are bounded. Writers, fences and late requests
  are not fair.
* `Replication`: a writer's draw and enqueue, the answer to a push, the backoff
  timer. Writes, crashes, late requests and promotions are not fair.
* `GovernedNonce`: boot, the reconcile loop and the answers to commands; the
  clock strongly, since steps of processes may pause it.
* `PairTransactions`: timers and catch blocks only (`AcquireFails`, `Abort`,
  `Fail`, `Retry`). The pool, the database and the network owe nothing.
* `Cutover`: the control clock, the rollback at a transaction's deadline,
  installation of signed grants, delivery, and the operators' steps.

## 5. Theorems

Eight modules hold the proofs; a component's theorems are where its module is
extended. `PairTransactions`, `GovernedNonce` and `Admission` share a proof module
with another specification and therefore carry a prefix on `Init`, `Next`, `Spec`
and `TypeOK` (`TxSpec`, `NonceSpec`, `AdmissionSpec`).

| module | theorem | statement | argument |
|---|---|---|---|
| `PairVerifierProofs` | `TypeCorrect` | `[]TypeOK` of `PairVerifier` | one lemma per group of actions |
| | `ReplaySafe` | `[]NonceAcceptedOnce` | `ReplayInv`, below |
| | `TerminalIsTerminal` | `TerminalStaysTerminal` | every step is a quiet step, an approval or a rotation |
| | `OneLivePair` | `[]OneLivePairPerRegistration` | `DescentInv`: an unused identity descends from nothing, a token with a descendant is spent |
| | `CurrentPolicyAuthorizes` | `AuthorizedByCurrentPolicy` | `CheckedInv`: a request before its claim holds what it was checked against |
| | `UsesAreCounted` | `[]UseAccounting` | `UseInv`: an unused identity has no uses; a claim adds a request to the claimed ones and one to the counter, or neither; cardinalities |
| `OutboxProofs` | `OutboxCorrect`, `OutboxTyped`, `AckOnlyApplied`, `NeverAGap`, `ReplicaPrefix`, `DrainInOrder` | invariants of `DurableOutbox` | `OutboxInv`, below |
| | `BacklogBounded` | `[]BoundedOutbox` | `BacklogInv`, below |
| | `OutboxImplementsLog` | `ImplementsLog` | each action maps to a step of `ReplicatedLog` or a stutter |
| `HistoryProofs` | `ReplicationCorrect`, `ReplicationTyped`, `ReplicaOnHistory`, `NoLossWithoutOverflow` | invariants of `Replication` | `ReplInv`, below |
| | `MirrorEqualsPrimary` | `[]MirrorsWhenQuiet` | `PrimaryIsHistory`, below |
| | `AuditTrailIsSound` | `[]AuditTrailSound` | `AuditInv`, below |
| | `RateIsBounded` | `[]RateBounded` | `LimiterInv`, below |
| `NonceProofs` | `TransportCorrect`, `TransportTyped`, `NonceOnce`, `ReceiptBound` | invariants of `OutboxTransport` | `Timely`, `Remembered`, below |
| | `NonceGrantedOnce` | `[]GrantedOnce` of `GovernedNonce` | `NonceInv`, below |
| `AuthorityProofs` | `SchemaCorrect`, `SchemaTyped`, `RowsSurvive`, `StampOnLayout`, `ReadyStamped` | invariants of `SchemaAuthority` | below |
| | `StampForward` | `NoDowngrade` | from the same invariant, action by action |
| | `GenerationsReservedOnce` | `[]ReservedOnce` of `RollbackCheckpoint` | below |
| `CutoverProofs` | `NoWriteIsLost`, `OneNodeWrites` | `[]NothingLost`, `[]OneWriter` | `Over`, below |
| `FailureProofs` | `LockIsNotSkipped` | `[]ThresholdsLock` of `FailureLockout` | below |
| | `PythonExecutesOnce` | `[]ExecutedOnce` of `PyVerifier` | `SpentWhileFresh`, below |
| | `TransportThrowsAfterAll` | `[]ThrowsAfterAll` of `FailoverClient` | `PassesInOrder`, below |
| | `EndpointsGivenUpForCause` | `[]GivenUpForCause` of `FailoverClient` | below |
| `StoreProofs` | `ContinuityAlwaysVerifies`, `ProofsSpentOnce`, `CachesGrantWhatWasSeen` | `[]ContinuityHolds`, `[]NoncesSpentOnce`, `GrantsSeenContext` of `PrincipalLedger` | below |
| | `CallersAreToldTheTruth`, `ConnectionsAreAccountedFor`, `ReplicaIsNeverParked` | `[]OutcomeIsTruthful`, `[]PoolIsSound`, `[]ReplicaFollows` of `PairTransactions` | `TxInv`, below |

All are implications from the safety part of the specification, so no fairness
enters. They hold for every value of the constants that meets the named
assumptions of the module (`ConfigAssumption`, `NonceAssumption`,
`RequestsAssumption`, `TransactionAssumption`, `OperationAssumption`,
`CutoverAssumption`, `GovernedAssumption`, `AdmissionAssumption` and so on), which
are ranges, distinct model values and finite sets of actors, and which TLC
evaluates in the runs. Where a theorem needs more, it says so in an `ASSUME` of
its own; those are discussed here.

*Replay.* `NonceAcceptedOnce` is not inductive. `ReplayInv` adds that a request
before the gate was fresh at most `MaxStall` ago (`AtGate`), that a winner never
returns to the gate (`PastGate`), and that its entry outlives the last instant at
which a copy can arrive (`Held`). The theorem assumes
`Retention >= 2 * SigWindow + MaxStall` and room for the nonces in use.
`createBPCServer` and `deriveNonceRetentionMs` retain `2 * window + 10 s`: the
assumption is that no request spends more than ten seconds between its freshness
check and the gate. A `ServerNonceStore` built with its default of 120 s leaves no
room for any stall, and above 100 000 live nonces the capacity guard forgets
entries that are still needed; outside these assumptions nothing is claimed.

*Outbox.* `OutboxInv` is the type invariant with the parts that make
`AckedIsApplied` inductive: the replica is a prefix of the log; an acked row is
within the replica (`AckedOwned`); what was settled is a prefix of acked rows and
at most one parked row; every row before a record on its way, late ones included,
is acked (`Sent`); a publisher that was told "applied" or "duplicate-ok" was told
the truth (`Receipts`). Leases appear in none of them: safety does not depend on
who holds the lease, only on the row checks made under it. For the backlog,
`BacklogInv` adds that what a transaction counted in its snapshot still holds as long
as nobody else has committed an append (`Counted`): rows are settled meanwhile, none
is added. The lock on the checkpoint row refuses everyone else.

*Replication.* `ReplInv` is the type invariant, `ReplicaIsHistory`,
`LostOnlyByOverflow` and the link between drainer and queue (`Draining`): what is
being pushed is the head of the queue as long as nothing was shed. Exactly this
link is what an overflow breaks. The key lemma (`PutReflects`) is that writing
operation `last + 1` gives the history up to it, also after a write of the replica
that failed half-way. `MirrorEqualsPrimary` adds the same of the other side
(`PrimaryIsHistory`), for any number of callers: at a key whose calls did not overlap
the primary is what the numbered operations left, or what the one call left that has
written it and not drawn its number. Where calls of one key do overlap, the numbers
can be drawn in the other order (section 6) and nothing is claimed.

*Audit log.* The code reads the head, computes the next row and inserts it without
a lock. `ChainSound` says that an insert on its way is behind a row that is there
and that the rows up to any row are all there, which lets a truncated table have
a last row without counting. `RowsSound` says that a row belongs to a request that
is over (`Done`), so no process will write that content again: an anchor that lost
its row (`AnchorsSound`) never matches a later one, because its hash contains the
content. `ShadowSound` says that a request denied into the shadow state is over and
has no row.

*Rate limiter.* `RoomTaken` counts the members of the sorted set together with the
processes between their count and their add: the last of them found room, and each
adds one. `StillHeld` says that a request that passed is in the set as long as it
is in the window that ends now, because every trim uses the present time or an
earlier one (`ClockRead`); so each window was bounded by the set while it was open.

*Transport.* `Timely` says that a request between freshness check and nonce store
was fresh and has used up no more than the safety margin, and `Remembered` that
the row of an admitted nonce outlives its freshness by the skew, or the receiver's
clock is past it. A skew check both when the row is written and when rows are
pruned makes this inductive; that is why the retention needs the skew twice. The
assumption is the one `createHttpOutboxReceiver` enforces, and that a request gets
from the freshness check through the store within the margin (the deadline of the
transactor). `RepliesTruthful` carries the receipt's meaning across the network.

*Redis nonce authority.* `NonceInv` says what stands between a spent nonce and a
second grant (`Safe`): its key outlives its credential, or the quarantine does, or
Redis lacks the epoch or the configuration, so a quarantine comes first. The parts
around it: Redis has the newest epoch or none (`Counted`), processes ask only for
epochs that were checkpointed (`Trusting`), a request in flight was fresh when it
was sent (`Asking`), and a command that runs late is one of those (`AskedLate`).
The theorem covers every `Timeout < Buffer`; the run uses 0.

*Schema.* `LockHeld` and `Quiesced` say that the process that migrates holds the
tables, that nobody writes meanwhile and that what it read is what is there, so
the swap changes no row and brings none back. `SnapshotsAge` says that a stamp seen in a snapshot is
never later than the live one and that what was attested still holds unless
someone tampered: so a stamp written on the strength of an old snapshot is right.

*Rollback checkpoint.* Every state Redis is ever restored to was counted by the
witness (`SnapshotsCounted`), and a generation on its way to Redis is ahead of all
of them (`MirrorsAhead`).

*Cutover.* The argument does not lean on the fence. `Over` says that the last grant
of the source is a revocation and was waited out; then the source has no
transaction and is refused a new one on any clock within the skew
(`OverStopsSource`). Everything an operator does after its snapshot happens in such
a state: its bundle is the whole history (`OperatorsSound`), the recorded intent
binds it (`HeadSound`), and only the target of that intent is promoted, after it
applied all of it (`PromotedSound`).

*Failure lockout.* An address over the limit is on its way to be answered: a call
in flight carries a count that locks, or is about to clear the tracker
(`StormIsPending`); the record of an active pair is below the thresholds
(`RecordBelow`).

*Python server, client.* `SpentWhileFresh` is the retention argument again.
`PassesInOrder` says that a read throws only at the end of the last-resort pass,
which leaves out no endpoint, and that a write is not sent on. `CauseInv` ties the
streak of an endpoint to its recorded misses: the streak is a suffix of them and
began at the time it says.

*Principal sessions.* A call whose proof was accepted holds the only use of its
nonce (`NoncesHeld`); a sealed entry of the current checkpoint has the current
context (`SealedHonest`), and what a call will be judged by was seen during the
call (`SeenHonest`); only a principal that exists has checkpoints (`ExistsFirst`).

*Transactions.* `Belief` lists what a call may rely on at each step: before COMMIT
was sent nothing happened and nothing can, a reply tells the truth, without a
reply the operation may be on its way. `WireSound` says that a COMMIT on its way is
the only one of its operation and, if it can still succeed, was decided on the
tables as they are. `History` says that a sequence of tables exists in which each
mutation of the log applied to its predecessor, with source and replica on it;
that is what keeps the replica from being parked. `Pool` counts connections.

Only model-checked: the liveness properties (`StormLocks`, `EveryRowSettles`,
`CatchesUp`, `GateReopens`, `EveryCallEnds`, `CutoverCompletes`).
They hold under fairness, which is beyond the prover. Every other property of a
passing run is proved.

## 6. Observations

What the models showed of the code that is not a property of a run:

* `registry.ts:335`: the score adds up failures of all addresses, so a pair is
  locked although no address reached the limit; `registry.ts:65` says only the
  same address can lock it.
* `registry.ts:469`: nine failures per window add up to less than 18, the threshold
  is 20 at the default limit of 10; the pair is never locked, although
  `registry.ts:294` says it eventually is.
* `ha-outbox-pg.ts:1368`: `reject-fence` is handled as transient, but a row keeps
  its fence token and the receiver's token only grows; such a row is retried for
  ever and blocks the stream (`EveryRowSettles` names the exception).
* `replicating-store.ts:159`: the queue can shed the head that is being pushed;
  when the push succeeds, `drain` removes the next operation, never pushed and
  never reported.
* `replicating-store.ts:140`: two mutations of a pair whose calls overlap can be
  numbered in the other order than they reached the primary, and the replica ends with
  the older value (`MirrorsWhenQuiet` excepts these keys). A draw that fails leaves its
  write on the primary unnumbered.
* `replicating-store.ts:140`: `enqueue` queues in the order in which the answers of the
  sequence source come back. When a source answers two calls in the other order, the
  later number is at the head, a gap to the receiver, and is retried for ever, with
  nothing shed and nothing failed, although line 4 says "mirrors every mutation" and
  lines 14 to 18 name only shedding. `MemoryReplicaSequenceSource` answers in order; the
  interface does not ask for it. `CatchesUp` names the exception (`Overtaken`).
* `principal-session.ts:306`: rotations of one principal that overlap can leave key
  and fingerprint of different keys.
* `bpc-ha-final.ts:671`: ACTIVE is listed as a phase in which `markFenced` may be
  repeated; by then the lease it asks for is replaced and the retry throws.
* `rollback-checkpoint.ts:246`: a caller past its check when Redis is rolled back
  still reserves, and its mirror hides the rollback. The guarantee rests on the
  compare-and-advance and on an authorizer that approves an epoch once.
* `audit.ts:89`: ids of two processes can collide in one millisecond; the id is made
  outside the retry loop, so such a write gives up.
* `audit.ts:316`: `head()` of an empty log returns number 0, which `verifyEntries`
  (148-153) rejects on every log, although line 82 says of `head()` "persist this
  externally as the truncation anchor" (`AuditTrailSound` says that it never verifies).
* `middleware.ts:262` and `286`: a pair at its failure threshold and the verdict
  "shadow" are answered without the audit entry that every other answer leaves
  (`AuditTrailSound` excepts them).
* `rate-limiter.ts:95`: a slow call that trims by an old clock can let more pass;
  `RateBounded` counts requests that pass in the instant they came.
* `failover-transport.ts:126`: nothing in the SDK schedules a probe; an endpoint that
  was given up comes back only when the application probes it or the last-resort pass
  reaches it, and a primary that was given up refuses writes until then.
* `failover-transport.ts:100`: a read that was executed but not answered is sent
  again under the same signed headers, gets a 401 for a replay, and that counts as
  an answer.
* `verifier.py:135`: a pending pair is served, although the comment says active;
  stale copies count towards the lockout, which never decays.

## 7. Assumptions and what is left out

* Cryptography, hashes (injective) and canonical encoding are assumed correct.
* `GovernedNonce`: the scripts rely on `Timeout < Buffer`; a same-epoch rollback, a
  selective eviction and the restore of an epoch a process still trusts are not
  detectable by this code and not modelled; a peer with another configuration
  keeps the fleet quarantined, which `GateReopens` excepts. The run uses Timeout 0.
* `PrincipalLedger`: contexts are replaced as one value (the code merges two
  records); DPAPI and key files are I/O.
* `Cutover`: two operators; the snapshot is taken after sleeping out the lease, as
  the drill does; clocks may lag by up to twice the skew; the server ends a
  transaction within the signed window; tickets and role posture are left out.
* `PairTransactions`: a serialization failure reported by COMMIT itself is
  ambiguous, as in the code.
* `SchemaAuthority`: a statement of a legacy writer touches one row; the lock of two
  writers on one row is its commit order.
* `RollbackCheckpoint`: the injected `ProvisioningAuthorizer` approves an epoch once.
  `provision` itself would create the row of a used epoch again after it was deleted,
  and generations would then repeat.
* `FailoverClient`: any answer to a read counts as success, as in the code.
* `PyVerifier`: FastAPI only. Under a threaded server the check-then-set of the
  nonce store and the `+=` of the registry are not atomic; both are documented for
  one instance in development.

Not modelled: the fall-back for stores without atomic operations (reserved for a
single writer by the code); shape and signature checks of replica envelopes (a
refused envelope is a failed push); catalogue SQL and manifests; file store,
admin listings, factory; key storage of the client SDK; the Python client; drills
and integration scripts except the acceptance drill, because they call modelled
operations in one fixed order.

Possible next: `Cutover` as a refinement of one log with a moving writer, and
`Replication` as a refinement of `ReplicatedLog` as long as nothing is shed.
