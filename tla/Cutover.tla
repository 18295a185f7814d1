------------------------------- MODULE Cutover -------------------------------
(***************************************************************************)
(* The governed change of the source of a pair stream (bpc-ha-final.ts),   *)
(* run the way bpc-ha-acceptance-drill.mts runs it.                        *)
(*                                                                         *)
(* A source node writes while its signed lease, the fence record on a      *)
(* majority of Redis members and the epoch witness of the control database *)
(* agree.  Operators move the source to a replica: they revoke the lease,  *)
(* wait it out, take a snapshot, record their intent, move the fence, mark *)
(* it FENCED, drain the tail, promote the replica and activate it.         *)
(*                                                                         *)
(* The rows of the old source are counted: a receiver applies a prefix of  *)
(* them (DurableOutbox.tla), so equal counts are equal histories and equal *)
(* state digests.  A digest of the signed lease chain is the length of the *)
(* chain, because every grant names the digest of its predecessor.         *)
(***************************************************************************)
EXTENDS Integers, Sequences, FiniteSets

CONSTANTS
  Source,       \* the node that holds epoch 1
  Targets,      \* the replicas; one operator tries to promote each of them
  Members,      \* the Redis members of the fence
  Skew,         \* maxClockSkewMs
  Window,       \* maxTransactionDurationMs, signed into the lease
  FirstExpiry,  \* expiry of the lease that the source starts with
  MaxTime,      \* bound: last instant of the control clock
  MaxWrites,    \* bound: transactions a node commits
  MaxGrants,    \* bound: grants signed for the source, revocation included
  MaxRollbacks, \* bound: Redis members that fall back to an older record
  None

ASSUME CutoverAssumption ==
  /\ Source \notin Targets
  /\ None \notin Targets \cup {Source}
  /\ {Skew, Window, FirstExpiry, MaxTime, MaxWrites, MaxGrants, MaxRollbacks} \subseteq Nat
  /\ MaxGrants > 0
  /\ IsFiniteSet(Members)
  /\ Cardinality(Members) >= 3
  /\ Cardinality(Members) % 2 = 1

VARIABLES
  now,        \* the control database's clock
  lag,        \* how far the source database's clock is behind it
  grants,     \* the chain of grants signed for the source, oldest first
  installed,  \* length of that chain in the source's and in the control database
  tx,         \* per node: its open transaction or None
  log,        \* per node: rows it has committed as the source
  applied,    \* per target: rows of the old source it has applied
  members,    \* per Redis member: its fence record or None
  rollbacks,  \* Redis members that have fallen back
  witness,    \* bpc_ha.epoch_witness.epoch
  head,       \* bpc_ha.cutover_head or None
  attested,   \* targets with a row in promotion_attestation
  promoted,   \* targets that were promoted to source
  activated,  \* targets that hold the ACTIVE receipt
  pc,         \* per target: the step its operator is at
  bundle      \* per target: final sequence of the operator's snapshot

clock == <<now, lag>>
lease == <<grants, installed>>
source == <<tx, log>>
redis == <<members, rollbacks>>
control == <<witness, head, attested>>
replica == <<applied, promoted, activated>>
operator == <<pc, bundle>>

vars == <<clock, lease, source, redis, control, replica, operator>>

Nodes == Targets \cup {Source}

Databases == {"source", "control"}

\* A fence record: epoch 1 is the genesis claim of the source, epoch 2 the claim
\* of the target of a cutover.
Claim(n) == [epoch |-> IF n = Source THEN 1 ELSE 2, node |-> n]

Claims == {Claim(n) : n \in Nodes}

Steps == {"revoke", "snapshot", "begin", "claim", "fence", "promote", "attest",
          "activate", "install", "done", "refused"}

Grant == [status : {"active", "revoked"}, expires : Nat]

Intent == [target : Targets, phase : {"PREPARING", "FENCED", "ACTIVE"},
           final : Nat, lease : Nat, expires : Nat]

ASSUME NoIntentAssumption == None \notin Intent

TypeOK ==
  /\ now \in 0..MaxTime
  /\ lag \in 0..(2 * Skew)
  /\ grants \in Seq(Grant)
  /\ Len(grants) \in 1..MaxGrants
  /\ installed \in [Databases -> 1..Len(grants)]
  /\ tx \in [Nodes -> [since : 0..MaxTime, phase : {"open", "written", "ready"}] \cup {None}]
  /\ log \in [Nodes -> 0..MaxWrites]
  /\ applied \in [Targets -> 0..MaxWrites]
  /\ members \in [Members -> Claims \cup {None}]
  /\ rollbacks \in 0..MaxRollbacks
  /\ witness \in {1, 2}
  /\ head \in Intent \cup {None}
  /\ attested \subseteq Targets
  /\ promoted \subseteq Targets
  /\ activated \subseteq Targets
  /\ pc \in [Targets -> Steps]
  /\ bundle \in [Targets -> 0..MaxWrites]

\* The state the drill sets up: epoch 1 is claimed on every member, witnessed, and
\* granted to the source in both databases.
Init ==
  /\ now = 0
  /\ lag \in 0..(2 * Skew)
  /\ grants = <<[status |-> "active", expires |-> FirstExpiry]>>
  /\ installed = [d \in Databases |-> 1]
  /\ tx = [n \in Nodes |-> None]
  /\ log = [n \in Nodes |-> 0]
  /\ applied = [n \in Targets |-> 0]
  /\ members = [m \in Members |-> Claim(Source)]
  /\ rollbacks = 0
  /\ witness = 1
  /\ head = None
  /\ attested = {}
  /\ promoted = {}
  /\ activated = {}
  /\ pc = [n \in Targets |-> "revoke"]
  /\ bundle = [n \in Targets |-> 0]

------------------------------------------------------------------------------
(* The Redis fence and its witness.                                        *)

Quorum == Cardinality(Members) \div 2 + 1

\* rawCurrent: a majority of the members holds the record.
Holds(r) == Cardinality({m \in Members : members[m] = r}) >= Quorum

\* Mutant: only the witnessed epoch is accepted, so no fence can ever move.
WitnessAcceptsCurrent(r) == r.epoch = witness

\* PgRedisFenceWitness.verify.
WitnessAccepts(r) ==
  \/ r = Claim(Source) /\ witness = 1 /\ head = None
  \/ /\ head # None
     /\ r = Claim(head.target)
     /\ \/ witness = 2
        \/ witness = 1 /\ head.phase = "PREPARING"

\* CLAIM_FENCE on one member.
Accepts(m, r) == members[m] = None \/ members[m].epoch < r.epoch \/ members[m] = r

\* BpcRedisQuorumFenceStore.claim: the members of reached answer in time.
ClaimOn(reached, r) ==
  /\ WitnessAccepts(r)
  /\ members' = [m \in Members |-> IF m \in reached /\ Accepts(m, r) THEN r ELSE members[m]]

Claimed(reached, r) == Cardinality({m \in reached : Accepts(m, r)}) >= Quorum

------------------------------------------------------------------------------
(* The lease of the source and the write gate.                             *)

LastGrant == grants[Len(grants)]

LeaseIn(d) == grants[installed[d]]

\* The guard signs the next grant of the chain: the expiry never decreases within
\* the epoch, and a revoked epoch is not granted again.
SignGrant(status, expires) ==
  /\ Len(grants) < MaxGrants
  /\ LastGrant.status = "active"
  /\ expires >= LastGrant.expires
  /\ grants' = Append(grants, [status |-> status, expires |-> expires])

\* The lease is renewed for one more unit of time.
Renew ==
  /\ Len(grants) + 1 < MaxGrants
  /\ SignGrant("active", LastGrant.expires + 1)
  /\ UNCHANGED <<clock, installed, source, redis, control, replica, operator>>

\* installSourceLeaseGrant takes the lease row FOR UPDATE, so it waits for the
\* transactions that read it FOR SHARE; a grant that does not follow the head of
\* the database's chain is refused.
Install(d) ==
  /\ installed[d] < Len(grants)
  /\ d = "source" => tx[Source] = None
  /\ installed' = [installed EXCEPT ![d] = @ + 1]
  /\ UNCHANGED <<clock, grants, source, redis, control, replica, operator>>

\* The lease row as read_source_lease_for_write returns it: held by this node,
\* active and not expired on the clock of the node's own database.  The lease of
\* a target is issued for longer than the horizon of the model.
LeaseHeld(n) ==
  IF n = Source
  THEN LeaseIn("source").status = "active" /\ now - lag + Skew < LeaseIn("source").expires
  ELSE n \in promoted

\* PgSourceLeaseFence.assertWritableInTx.
Writable(n) ==
  /\ LeaseHeld(n)
  /\ n # Source => n \in activated
  /\ Holds(Claim(n))
  /\ WitnessAccepts(Claim(n))

\* A transaction of the pair authority: it opens with the gate, appends its row and
\* applies its mutation, passes the gate again before COMMIT, and commits.
Open(n) ==
  /\ tx[n] = None
  /\ log[n] < MaxWrites
  /\ Writable(n)
  /\ tx' = [tx EXCEPT ![n] = [since |-> now, phase |-> "open"]]
  /\ UNCHANGED <<clock, lease, log, redis, control, replica, operator>>

\* append_governed_outbox and apply_pair_mutation under a ticket of this
\* transaction: the row takes the next sequence of the locked checkpoint.
Write(n) ==
  /\ tx[n] # None
  /\ tx[n].phase = "open"
  /\ Writable(n)
  /\ tx' = [tx EXCEPT ![n].phase = "written"]
  /\ UNCHANGED <<clock, lease, log, redis, control, replica, operator>>

PreCommit(n) ==
  /\ tx[n] # None
  /\ tx[n].phase = "written"
  /\ Writable(n)
  /\ tx' = [tx EXCEPT ![n].phase = "ready"]
  /\ UNCHANGED <<clock, lease, log, redis, control, replica, operator>>

Commit(n) ==
  /\ tx[n] # None
  /\ tx[n].phase = "ready"
  /\ tx' = [tx EXCEPT ![n] = None]
  /\ log' = [log EXCEPT ![n] = @ + 1]
  /\ UNCHANGED <<clock, lease, redis, control, replica, operator>>

\* The gate refuses, a statement fails, or the deadline ends the transaction.
Rollback(n) ==
  /\ tx[n] # None
  /\ tx' = [tx EXCEPT ![n] = None]
  /\ UNCHANGED <<clock, lease, log, redis, control, replica, operator>>

\* No transaction outlives its window.
Tick ==
  /\ now < MaxTime
  /\ \A n \in Nodes : tx[n] # None => now < tx[n].since + Window
  /\ now' = now + 1
  /\ UNCHANGED <<lag, lease, source, redis, control, replica, operator>>

\* A Redis member comes back empty or with the record of the previous epoch.
LoseMember(m) ==
  /\ rollbacks < MaxRollbacks
  /\ \E r \in {None, Claim(Source)} :
        /\ r # members[m]
        /\ members' = [members EXCEPT ![m] = r]
  /\ rollbacks' = rollbacks + 1
  /\ UNCHANGED <<clock, lease, source, control, replica, operator>>

\* The signed genesis record is written back.
RestoreGenesis ==
  /\ \E reached \in SUBSET Members : ClaimOn(reached, Claim(Source))
  /\ members' # members
  /\ UNCHANGED <<clock, lease, source, rollbacks, control, replica, operator>>

------------------------------------------------------------------------------
(* The replicas: bootstrap from a snapshot, then the tail in order.        *)

\* importPairSnapshotBundle into an empty authority.
Import(n) ==
  /\ applied[n] = 0
  /\ log[Source] > 0
  /\ n \notin promoted
  /\ applied' = [applied EXCEPT ![n] = log[Source]]
  /\ UNCHANGED <<clock, lease, source, redis, control, promoted, activated, operator>>

\* One row of the outbox is delivered and applied.
Deliver(n) ==
  /\ applied[n] < log[Source]
  /\ applied' = [applied EXCEPT ![n] = @ + 1]
  /\ UNCHANGED <<clock, lease, source, redis, control, promoted, activated, operator>>

------------------------------------------------------------------------------
(* The operator of target n.  A step whose answer is lost leaves pc where  *)
(* it is and is run again.                                                 *)

Goto(n, step) == \/ pc' = [pc EXCEPT ![n] = step]
                 \/ UNCHANGED pc

\* The grant that revokes the source is signed once and then installed.
Revoke(n) ==
  /\ pc[n] = "revoke"
  /\ \/ SignGrant("revoked", LastGrant.expires)
     \/ LastGrant.status = "revoked" /\ UNCHANGED grants
  /\ pc' = [pc EXCEPT ![n] = "snapshot"]
  /\ UNCHANGED <<clock, installed, source, redis, control, replica, bundle>>

\* Mutant: the transactions that passed the gate are not waited for.
WaitedOutLease(expires) == now >= expires + Skew

\* The lease is over on every clock and the last transaction with it.
WaitedOut(expires) == now >= expires + Skew + Window

\* Mutant: the snapshot is taken as soon as the lease is revoked.
SnapshotEarly(n) ==
  /\ pc[n] = "snapshot"
  /\ LeaseIn("control").status = "revoked"
  /\ bundle' = [bundle EXCEPT ![n] = log[Source]]
  /\ pc' = [pc EXCEPT ![n] = "begin"]
  /\ UNCHANGED <<clock, lease, source, redis, control, replica>>

\* buildPairSnapshotBundle at the head of the source, once the operator has seen
\* the revocation in the control database and has slept the lease out.
Snapshot(n) ==
  /\ pc[n] = "snapshot"
  /\ LeaseIn("control").status = "revoked"
  /\ WaitedOut(LeaseIn("control").expires)
  /\ bundle' = [bundle EXCEPT ![n] = log[Source]]
  /\ pc' = [pc EXCEPT ![n] = "begin"]
  /\ UNCHANGED <<clock, lease, source, redis, control, replica>>

\* BpcCutoverController.begin: PREPARING is written once; the same intent is
\* answered with it, another one is refused.
Begin(n) ==
  /\ pc[n] = "begin"
  /\ \/ /\ head = None
        /\ witness = 1
        /\ head' = [target |-> n, phase |-> "PREPARING", final |-> bundle[n],
                    lease |-> Len(grants), expires |-> LastGrant.expires]
        /\ Goto(n, "claim")
     \/ /\ head # None
        /\ pc' = [pc EXCEPT ![n] = IF head.target = n THEN "claim" ELSE "refused"]
        /\ UNCHANGED head
  /\ UNCHANGED <<clock, lease, source, redis, witness, attested, replica, bundle>>

\* The operator claims the fence, and claims it again whenever it was lost.
ClaimTarget(n) ==
  /\ pc[n] \notin {"revoke", "snapshot", "begin", "refused"}
  /\ \E reached \in SUBSET Members :
        /\ ClaimOn(reached, Claim(n))
        /\ IF pc[n] = "claim"
           THEN pc' = [pc EXCEPT ![n] = IF Claimed(reached, Claim(n)) THEN "fence" ELSE "claim"]
           ELSE UNCHANGED pc
  /\ UNCHANGED <<clock, lease, source, rollbacks, control, replica, bundle>>

\* What markFenced asks of the control database and of Redis.
Fenceable(n) ==
  /\ LeaseIn("control").status = "revoked"
  /\ installed["control"] = head.lease
  /\ LeaseIn("control").expires = head.expires
  /\ WaitedOut(head.expires)
  /\ Holds(Claim(n))

\* BpcCutoverController.markFenced moves the witness; a repeated call finds it moved.
MarkFenced(n) ==
  /\ pc[n] = "fence"
  /\ head.target = n
  /\ Fenceable(n)
  /\ head.phase # "ACTIVE"
  /\ head' = [head EXCEPT !.phase = "FENCED"]
  /\ witness' = 2
  /\ Goto(n, "promote")
  /\ UNCHANGED <<clock, lease, source, redis, attested, replica, bundle>>

\* promoteReceiverToSource: the receiver has applied the whole frozen history.  The
\* grant of the new epoch is installed with it.
Promote(n) ==
  /\ pc[n] = "promote"
  /\ n \in promoted \/ applied[n] = bundle[n]
  /\ promoted' = promoted \cup {n}
  /\ Goto(n, "attest")
  /\ UNCHANGED <<clock, lease, source, redis, control, applied, activated, bundle>>

\* buildPromotionReadinessAttestation and its row in the control database.
Attest(n) ==
  /\ pc[n] = "attest"
  /\ n \in promoted
  /\ applied[n] = head.final
  /\ log[n] = 0
  /\ attested' = attested \cup {n}
  /\ Goto(n, "activate")
  /\ UNCHANGED <<clock, lease, source, redis, witness, head, replica, bundle>>

\* markActive: the second transaction, after the attestation was stored.
MarkActive(n) ==
  /\ pc[n] = "activate"
  /\ n \in attested
  /\ head.target = n
  /\ head.phase \in {"FENCED", "ACTIVE"}
  /\ head' = [head EXCEPT !.phase = "ACTIVE"]
  /\ Goto(n, "install")
  /\ UNCHANGED <<clock, lease, source, redis, witness, attested, replica, bundle>>

\* installActiveCutoverReceipt in the database of the new source.
InstallActive(n) ==
  /\ pc[n] = "install"
  /\ activated' = activated \cup {n}
  /\ Goto(n, "done")
  /\ UNCHANGED <<clock, lease, source, redis, control, applied, promoted, bundle>>

Operator(n) ==
  \/ Revoke(n) \/ Snapshot(n) \/ Begin(n) \/ ClaimTarget(n) \/ MarkFenced(n)
  \/ Promote(n) \/ Attest(n) \/ MarkActive(n) \/ InstallActive(n)

Next ==
  \/ Tick
  \/ Renew
  \/ RestoreGenesis
  \/ \E d \in Databases : Install(d)
  \/ \E n \in Nodes : Open(n) \/ Write(n) \/ PreCommit(n) \/ Commit(n) \/ Rollback(n)
  \/ \E m \in Members : LoseMember(m)
  \/ \E n \in Targets : Import(n) \/ Deliver(n) \/ Operator(n)

Spec == Init /\ [][Next]_vars

\* Clocks run, a transaction ends by its deadline, signed grants are installed, rows
\* are delivered, and an operator repeats a step until it succeeds.
FairSpec ==
  /\ Spec
  /\ WF_vars(Tick)
  /\ \A d \in Databases : WF_vars(Install(d))
  /\ \A n \in Nodes : WF_vars(Rollback(n))
  /\ \A n \in Targets :
        /\ WF_vars(Deliver(n))
        /\ WF_vars(Revoke(n))
        /\ WF_vars(Snapshot(n))
        /\ WF_vars(Begin(n))
        /\ WF_vars(ClaimTarget(n))
        /\ WF_vars(MarkFenced(n))
        /\ WF_vars(Promote(n))
        /\ WF_vars(Attest(n))
        /\ WF_vars(MarkActive(n))
        /\ WF_vars(InstallActive(n))

------------------------------------------------------------------------------
(* Properties.                                                             *)

\* No acknowledged write is lost: once the control database says FENCED, the old
\* source has committed exactly the rows of the snapshot that the intent binds,
\* whatever its clock says, whichever of its transactions were past the gate, and
\* whatever the Redis members fall back to afterwards; and a replica becomes the source
\* on top of everything the old source ever committed, transactions that were past the
\* gate when the fence moved included.
NothingLost ==
  /\ head # None /\ head.phase # "PREPARING" => log[Source] = head.final
  /\ \A n \in promoted : applied[n] = log[Source]

\* One node writes: once a replica is the source in its own database, no other node
\* has a transaction open, whatever the clock of its database reads.
OneWriter ==
  \A n \in promoted : \A m \in Nodes \ {n} : tx[m] = None

\* A cutover that was started ends with a target that is let through the gate.
CutoverCompletes ==
  (\E n \in Targets : pc[n] # "revoke") ~> (\E n \in Targets : Writable(n))

==============================================================================
