---------------------------- MODULE CutoverProofs ----------------------------
(***************************************************************************)
(* Proofs about Cutover: for any number of replicas and Redis members and  *)
(* any skew, window and horizon, no acknowledged write is lost and one     *)
(* node writes.                                                            *)
(*                                                                         *)
(* The argument does not lean on the fence: once the last grant of the     *)
(* source is a revocation and has been waited out (Over), the source has   *)
(* no transaction and is refused a new one, on any clock within the skew;  *)
(* everything an operator does after the snapshot happens in such a state. *)
(***************************************************************************)
EXTENDS Cutover, TLAPS

\* The source's lease is revoked for good, and every transaction that it could have
\* let through has reached its deadline.
Over == LastGrant.status = "revoked" /\ WaitedOut(LastGrant.expires)

\* Only the last grant of the chain can be a revocation, and none expires later.
ChainSound ==
  \A i \in 1..Len(grants) : /\ grants[i].expires <= LastGrant.expires
                            /\ i < Len(grants) => grants[i].status = "active"

\* An open transaction is within its window, and one of the source was let through
\* by a lease of the chain.
TxTimely ==
  /\ \A n \in Nodes : tx[n] # None => /\ tx[n].since <= now
                                      /\ now <= tx[n].since + Window
                                      /\ log[n] < MaxWrites
  /\ tx[Source] # None => tx[Source].since < LastGrant.expires + Skew

Begun == {"claim", "fence", "promote", "attest", "activate", "install", "done"}

\* An operator past its snapshot holds the whole history of the source, and the one
\* whose intent was recorded is the target of the head.
OperatorsSound ==
  \A n \in Targets :
    /\ pc[n] \notin {"revoke", "snapshot"} => Over /\ bundle[n] = log[Source]
    /\ pc[n] \in Begun => head # None /\ head.target = n

\* The recorded intent binds the whole history of the source.
HeadSound == head # None => Over /\ head.final = log[Source]

\* Only the target of the head is promoted, with the whole history, and only a
\* promoted target has transactions.
PromotedSound ==
  /\ \A n \in promoted : head # None /\ head.target = n /\ applied[n] = log[Source]
  /\ \A n \in Targets : tx[n] # None => n \in promoted

IInv ==
  /\ TypeOK
  /\ ChainSound
  /\ TxTimely
  /\ OperatorsSound
  /\ HeadSound
  /\ PromotedSound

------------------------------------------------------------------------------
(* Facts about the lease chain.                                            *)

LEMMA Constants ==
  /\ Skew \in Nat /\ Window \in Nat /\ FirstExpiry \in Nat /\ MaxTime \in Nat
  /\ MaxWrites \in Nat /\ MaxGrants \in Nat /\ MaxGrants > 0 /\ MaxRollbacks \in Nat
BY CutoverAssumption

LEMMA GrantTypes ==
  ASSUME TypeOK
  PROVE  /\ Len(grants) \in Nat /\ Len(grants) >= 1
         /\ LastGrant \in Grant /\ LastGrant.expires \in Nat
         /\ \A i \in 1..Len(grants) : grants[i] \in Grant /\ grants[i].expires \in Nat
         /\ \A d \in Databases : installed[d] \in 1..Len(grants) /\ LeaseIn(d) \in Grant
         /\ now \in Nat /\ lag \in 0..(2 * Skew)
<1>1. /\ grants \in Seq(Grant) /\ Len(grants) \in 1..MaxGrants
      /\ installed \in [Databases -> 1..Len(grants)]
      /\ now \in 0..MaxTime /\ lag \in 0..(2 * Skew)
  BY DEF TypeOK
<1>2. Len(grants) \in Nat /\ Len(grants) >= 1 /\ now \in Nat
  BY <1>1, Constants
<1>3. \A g \in Grant : g.expires \in Nat
  BY DEF Grant
<1>4. \A i \in 1..Len(grants) : grants[i] \in Grant
  BY <1>1
<1>. QED BY <1>1, <1>2, <1>3, <1>4 DEF LastGrant, LeaseIn

\* The lease a database knows expires no later than the last one, and one that it
\* knows to be revoked is the last one.
LEMMA LeaseIsBounded ==
  ASSUME TypeOK, ChainSound, NEW d \in Databases
  PROVE  /\ LeaseIn(d).expires <= LastGrant.expires
         /\ LeaseIn(d).status = "revoked" => LeaseIn(d) = LastGrant
<1>1. installed[d] \in 1..Len(grants) /\ Len(grants) \in Nat
  BY GrantTypes
<1>2. LeaseIn(d).expires <= LastGrant.expires
  BY <1>1 DEF ChainSound, LeaseIn
<1>3. LeaseIn(d).status = "revoked" => installed[d] = Len(grants)
  BY <1>1 DEF ChainSound, LeaseIn
<1>. QED BY <1>2, <1>3 DEF LeaseIn, LastGrant

\* Once the lease is over the source has no transaction and cannot open one.
LEMMA OverStopsSource ==
  ASSUME TypeOK, ChainSound, TxTimely, Over
  PROVE  tx[Source] = None /\ ~Writable(Source)
<1>1. tx[Source] = None
  <2> SUFFICES ASSUME tx[Source] # None PROVE FALSE
    OBVIOUS
  <2>1. Source \in Nodes
    BY DEF Nodes
  <2>2. tx[Source].since \in Nat
    BY <2>1, Constants DEF TypeOK
  <2>. QED BY <2>1, <2>2, Constants, GrantTypes DEF TxTimely, Over, WaitedOut
<1>2. ~Writable(Source)
  <2>1. "source" \in Databases
    BY DEF Databases
  <2>2. LeaseIn("source").expires \in Nat
    BY <2>1, GrantTypes DEF Grant
  <2>. QED
    BY <2>1, <2>2, Constants, GrantTypes, LeaseIsBounded DEF Writable, LeaseHeld, Over, WaitedOut
<1>. QED BY <1>1, <1>2

\* A step that leaves the chain alone leaves the last grant alone, and time only helps.
LEMMA OverIsKept ==
  ASSUME TypeOK, grants' = grants, now' = now \/ now' = now + 1
  PROVE  LastGrant' = LastGrant /\ (Over => Over')
BY GrantTypes, Constants DEF LastGrant, Over, WaitedOut

\* Nothing is signed after a revocation.
LEMMA SignGrantKeeps ==
  ASSUME TypeOK, ChainSound,
         NEW s \in {"active", "revoked"}, NEW e \in Nat, SignGrant(s, e)
  PROVE  /\ ~Over
         /\ grants' \in Seq(Grant)
         /\ Len(grants') = Len(grants) + 1 /\ Len(grants) < MaxGrants
         /\ LastGrant' = [status |-> s, expires |-> e]
         /\ LastGrant.expires <= e
         /\ ChainSound'
<1>1. grants \in Seq(Grant) /\ [status |-> s, expires |-> e] \in Grant
  BY DEF TypeOK, Grant
<1>2. grants' = Append(grants, [status |-> s, expires |-> e]) /\ LastGrant.expires <= e
  BY GrantTypes DEF SignGrant
<1>3. /\ grants' \in Seq(Grant) /\ Len(grants') = Len(grants) + 1
      /\ \A i \in 1..Len(grants) : grants'[i] = grants[i]
      /\ grants'[Len(grants) + 1] = [status |-> s, expires |-> e]
  BY <1>1, <1>2
<1>4. LastGrant' = [status |-> s, expires |-> e]
  BY <1>3 DEF LastGrant
<1>5. ChainSound'
  <2> SUFFICES ASSUME NEW i \in 1..Len(grants')
               PROVE  /\ grants'[i].expires <= e
                      /\ i < Len(grants') => grants'[i].status = "active"
    BY <1>4 DEF ChainSound
  <2>1. CASE i = Len(grants) + 1
    BY <2>1, <1>3
  <2>2. CASE i \in 1..Len(grants)
    <3>1. grants[i].expires \in Nat /\ LastGrant.expires \in Nat
      BY <2>2, GrantTypes
    <3>2. grants[i].expires <= e
      BY <3>1, <2>2, <1>2 DEF ChainSound
    <3>3. grants[i].status = "active"
      BY <2>2, GrantTypes DEF ChainSound, LastGrant, SignGrant
    <3>. QED BY <3>2, <3>3, <2>2, <1>3
  <2>. QED BY <2>1, <2>2, <1>3, GrantTypes
<1>6. ~Over /\ Len(grants) < MaxGrants
  BY DEF SignGrant, Over
<1>. QED BY <1>2, <1>3, <1>4, <1>5, <1>6

------------------------------------------------------------------------------
(* The initial states.                                                     *)

LEMMA InitIInv == Init => IInv
<1> SUFFICES ASSUME Init PROVE IInv
  OBVIOUS
<1>1. TypeOK
  <2>1. grants \in Seq(Grant) /\ Len(grants) = 1
    BY Constants DEF Init, Grant
  <2>2. Claim(Source) \in Claims
    BY DEF Claims, Nodes
  <2>. QED BY <2>1, <2>2, Constants DEF Init, TypeOK, Steps
<1>2. ChainSound
  <2>1. Len(grants) = 1 /\ grants[1].expires = FirstExpiry
    BY DEF Init
  <2>. QED BY <2>1, Constants DEF ChainSound, LastGrant
<1>3. Source \in Nodes /\ Targets \subseteq Nodes
  BY DEF Nodes
<1>. QED
  BY <1>1, <1>2, <1>3 DEF Init, IInv, TxTimely, OperatorsSound, HeadSound, PromotedSound, Begun
------------------------------------------------------------------------------
(* Steps, grouped by the state that they change.                           *)

\* A step of a transaction: only tx and log change.
LEMMA TransactionStep ==
  ASSUME IInv, NEW n \in Nodes,
         Open(n) \/ Write(n) \/ PreCommit(n) \/ Commit(n) \/ Rollback(n)
  PROVE  IInv'
<1>1. /\ UNCHANGED <<now, lag, grants, installed, members, rollbacks, witness, head, attested,
                     applied, promoted, activated, pc, bundle>>
      /\ \A m \in Nodes : m # n => tx'[m] = tx[m] /\ log'[m] = log[m]
  BY DEF Open, Write, PreCommit, Commit, Rollback, IInv, TypeOK, clock, lease, redis, control,
         replica, operator
<1>2. LastGrant' = LastGrant /\ Over' = Over /\ Source \in Nodes /\ Targets \subseteq Nodes
  BY <1>1 DEF LastGrant, Over, WaitedOut, Nodes
<1>3. Over => n # Source
  BY OverStopsSource DEF IInv, Open, Write, PreCommit, Commit, Rollback
<1>4. Over => log'[Source] = log[Source]
  BY <1>1, <1>2, <1>3
<1>5. tx[n] # None => /\ tx[n] \in [since : 0..MaxTime, phase : {"open", "written", "ready"}]
                      /\ log[n] < MaxWrites
  BY DEF IInv, TypeOK, TxTimely
<1>6. /\ tx' \in [Nodes -> [since : 0..MaxTime, phase : {"open", "written", "ready"}] \cup {None}]
      /\ log' \in [Nodes -> 0..MaxWrites]
  <2>0. /\ tx \in [Nodes -> [since : 0..MaxTime, phase : {"open", "written", "ready"}] \cup {None}]
        /\ log \in [Nodes -> 0..MaxWrites] /\ now \in 0..MaxTime
    BY DEF IInv, TypeOK
  <2>1. CASE Open(n)
    BY <2>0, <2>1 DEF Open
  <2>2. CASE Write(n) \/ PreCommit(n)
    BY <2>0, <2>2, <1>5 DEF Write, PreCommit
  <2>3. CASE Commit(n)
    <3>1. log[n] + 1 \in 0..MaxWrites
      BY <2>0, <2>3, <1>5, Constants DEF Commit
    <3>. QED BY <2>0, <2>3, <3>1 DEF Commit
  <2>4. CASE Rollback(n)
    BY <2>0, <2>4 DEF Rollback
  <2>. QED BY <2>1, <2>2, <2>3, <2>4
<1>7. tx'[n] # None =>
        /\ log'[n] < MaxWrites
        /\ \/ tx[n] # None /\ tx'[n].since = tx[n].since
           \/ tx[n] = None /\ tx'[n].since = now /\ Writable(n)
  BY <1>5 DEF Open, Write, PreCommit, Commit, Rollback, IInv, TypeOK
<1>8. TypeOK'
  BY <1>1, <1>6 DEF IInv, TypeOK
<1>9. ChainSound'
  BY <1>1, <1>2 DEF IInv, ChainSound
<1>10. Writable(Source) => now < LastGrant.expires + Skew
  <2>1. "source" \in Databases
    BY DEF Databases
  <2>2. LeaseIn("source").expires \in Nat /\ LeaseIn("source").expires <= LastGrant.expires
    BY <2>1, GrantTypes, LeaseIsBounded DEF Grant, IInv
  <2>. QED BY <2>2, GrantTypes, Constants DEF IInv, Writable, LeaseHeld
<1>11. TxTimely'
  <2>1. ASSUME NEW m \in Nodes, tx'[m] # None
        PROVE  tx'[m].since <= now /\ now <= tx'[m].since + Window /\ log'[m] < MaxWrites
    <3>1. CASE m # n
      BY <2>1, <3>1, <1>1 DEF IInv, TxTimely
    <3>2. CASE m = n
      BY <2>1, <3>2, <1>7, GrantTypes, Constants DEF IInv, TxTimely
    <3>. QED BY <3>1, <3>2
  <2>2. ASSUME tx'[Source] # None
        PROVE  tx'[Source].since < LastGrant.expires + Skew
    BY <2>2, <1>1, <1>2, <1>7, <1>10 DEF IInv, TxTimely
  <2>. QED BY <2>1, <2>2, <1>1, <1>2 DEF TxTimely
<1>12. OperatorsSound' /\ HeadSound'
  BY <1>1, <1>2, <1>4 DEF IInv, OperatorsSound, HeadSound
<1>13. PromotedSound'
  <2>1. promoted # {} => Over
    BY DEF IInv, PromotedSound, HeadSound
  <2>2. \A m \in Targets : m # Source
    BY CutoverAssumption
  <2>3. ASSUME NEW m \in Targets, tx'[m] # None PROVE m \in promoted
    BY <2>2, <2>3, <1>1, <1>2, <1>7 DEF IInv, PromotedSound, Writable, LeaseHeld
  <2>. QED BY <2>1, <2>3, <1>1, <1>4 DEF IInv, PromotedSound
<1>. QED BY <1>8, <1>9, <1>11, <1>12, <1>13 DEF IInv

\* Time, the lease chain, the Redis members and the replicas.
LEMMA EnvironmentStep ==
  ASSUME IInv, Tick \/ Renew \/ RestoreGenesis \/ (\E d \in Databases : Install(d))
                 \/ (\E m \in Members : LoseMember(m))
  PROVE  IInv'
<1>1. CASE Tick
  <2>1. LastGrant' = LastGrant /\ (Over => Over') /\ now \in Nat /\ now' = now + 1
    BY <1>1, OverIsKept, GrantTypes DEF Tick, IInv, lease
  <2>2. TypeOK'
    BY <1>1, Constants DEF Tick, IInv, TypeOK, lease, source, redis, control, replica, operator
  <2>3. ChainSound'
    BY <1>1, <2>1 DEF Tick, IInv, ChainSound, lease
  <2>4. ASSUME NEW n \in Nodes, tx[n] # None
        PROVE  tx[n].since <= now + 1 /\ now + 1 <= tx[n].since + Window
    <3>1. tx[n].since \in Nat
      BY <2>4, Constants DEF IInv, TypeOK
    <3>. QED BY <1>1, <2>1, <2>4, <3>1, Constants DEF Tick, IInv, TxTimely
  <2>5. TxTimely'
    BY <1>1, <2>1, <2>4 DEF Tick, IInv, TxTimely, source
  <2>6. OperatorsSound' /\ HeadSound' /\ PromotedSound'
    BY <1>1, <2>1 DEF Tick, IInv, OperatorsSound, HeadSound, PromotedSound, source, control,
                      replica, operator
  <2>. QED BY <2>2, <2>3, <2>5, <2>6 DEF IInv
<1>2. CASE Renew
  <2>1. LastGrant.expires + 1 \in Nat
    BY GrantTypes DEF IInv
  <2>2. /\ ~Over /\ grants' \in Seq(Grant)
        /\ Len(grants') = Len(grants) + 1 /\ Len(grants) < MaxGrants
        /\ LastGrant'.expires >= LastGrant.expires /\ LastGrant'.expires \in Nat
        /\ ChainSound'
    BY <1>2, <2>1, SignGrantKeeps, GrantTypes DEF Renew, IInv
  <2>3. UNCHANGED <<now, lag, installed, tx, log, members, rollbacks, witness, head, attested,
                    applied, promoted, activated, pc, bundle>>
    BY <1>2 DEF Renew, clock, source, redis, control, replica, operator
  <2>4. TypeOK'
    <3>1. installed \in [Databases -> 1..(Len(grants) + 1)]
      BY GrantTypes DEF IInv, TypeOK
    <3>2. Len(grants') \in 1..MaxGrants
      BY <2>2, GrantTypes, Constants DEF IInv
    <3>. QED BY <2>2, <2>3, <3>1, <3>2 DEF IInv, TypeOK
  <2>5. TxTimely'
    <3>1. tx[Source] # None => tx[Source].since \in Nat
      BY Constants DEF IInv, TypeOK, Nodes
    <3>. QED BY <2>2, <2>3, <3>1, GrantTypes, Constants DEF IInv, TxTimely
  <2>6. OperatorsSound' /\ HeadSound' /\ PromotedSound'
    BY <2>2, <2>3 DEF IInv, OperatorsSound, HeadSound, PromotedSound, Begun
  <2>. QED BY <2>2, <2>4, <2>5, <2>6 DEF IInv
<1>3. CASE RestoreGenesis \/ (\E m \in Members : LoseMember(m))
  <2>1. UNCHANGED <<now, lag, grants, installed, tx, log, witness, head, attested,
                    applied, promoted, activated, pc, bundle>>
    BY <1>3 DEF RestoreGenesis, LoseMember, clock, lease, source, control, replica, operator
  <2>2. members' \in [Members -> Claims \cup {None}] /\ rollbacks' \in 0..MaxRollbacks
    <3>1. Claim(Source) \in Claims
      BY DEF Claims, Nodes
    <3>2. CASE RestoreGenesis
      <4>1. PICK reached \in SUBSET Members : ClaimOn(reached, Claim(Source))
        BY <3>2 DEF RestoreGenesis
      <4>. QED BY <4>1, <3>1, <3>2 DEF RestoreGenesis, ClaimOn, IInv, TypeOK
    <3>3. CASE \E m \in Members : LoseMember(m)
      <4>1. PICK m \in Members : LoseMember(m)
        BY <3>3
      <4>2. members' \in [Members -> Claims \cup {None}]
        BY <4>1, <3>1 DEF LoseMember, IInv, TypeOK
      <4>. QED BY <4>1, <4>2, Constants DEF LoseMember, IInv, TypeOK
    <3>. QED BY <1>3, <3>2, <3>3
  <2>3. LastGrant' = LastGrant /\ Over' = Over
    BY <2>1 DEF LastGrant, Over, WaitedOut
  <2>4. TypeOK'
    BY <2>1, <2>2 DEF IInv, TypeOK
  <2>. QED BY <2>1, <2>3, <2>4 DEF IInv, ChainSound, TxTimely, OperatorsSound, HeadSound, PromotedSound
<1>4. CASE \E d \in Databases : Install(d)
  <2>1. PICK d \in Databases : Install(d)
    BY <1>4
  <2>2. UNCHANGED <<now, lag, grants, tx, log, members, rollbacks, witness, head, attested,
                    applied, promoted, activated, pc, bundle>>
    BY <2>1 DEF Install, clock, source, redis, control, replica, operator
  <2>3. installed' \in [Databases -> 1..Len(grants)]
    BY <2>1, GrantTypes DEF Install, IInv, TypeOK
  <2>4. LastGrant' = LastGrant /\ Over' = Over
    BY <2>2 DEF LastGrant, Over, WaitedOut
  <2>5. TypeOK'
    BY <2>2, <2>3 DEF IInv, TypeOK
  <2>. QED BY <2>2, <2>4, <2>5 DEF IInv, ChainSound, TxTimely, OperatorsSound, HeadSound, PromotedSound
<1>. QED BY <1>1, <1>2, <1>3, <1>4

\* A row is applied by a replica.
LEMMA ReplicaStep ==
  ASSUME IInv, NEW n \in Targets, Import(n) \/ Deliver(n)
  PROVE  IInv'
<1>1. UNCHANGED <<now, lag, grants, installed, tx, log, members, rollbacks, witness, head,
                  attested, promoted, activated, pc, bundle>>
  BY DEF Import, Deliver, clock, lease, source, redis, control, operator
<1>2. log[Source] \in 0..MaxWrites /\ applied[n] \in 0..MaxWrites
  BY DEF IInv, TypeOK, Nodes
<1>3. /\ applied' \in [Targets -> 0..MaxWrites]
      /\ n \notin promoted
      /\ \A m \in Targets : m # n => applied'[m] = applied[m]
  <2>1. applied \in [Targets -> 0..MaxWrites]
    BY DEF IInv, TypeOK
  <2>2. CASE Import(n)
    BY <1>2, <2>1, <2>2 DEF Import
  <2>3. CASE Deliver(n)
    <3>1. applied[n] + 1 \in 0..MaxWrites /\ applied[n] # log[Source]
      BY <1>2, <2>3, Constants DEF Deliver
    <3>. QED BY <2>1, <2>3, <3>1 DEF Deliver, IInv, PromotedSound
  <2>. QED BY <2>2, <2>3
<1>4. LastGrant' = LastGrant /\ Over' = Over
  BY <1>1 DEF LastGrant, Over, WaitedOut
<1>5. TypeOK'
  BY <1>1, <1>3 DEF IInv, TypeOK
<1>6. PromotedSound'
  BY <1>1, <1>3 DEF IInv, TypeOK, PromotedSound
<1>. QED BY <1>1, <1>4, <1>5, <1>6 DEF IInv, ChainSound, TxTimely, OperatorsSound, HeadSound

\* The revocation is signed at most once, before any operator takes its snapshot.
LEMMA RevokeStep ==
  ASSUME IInv, NEW n \in Targets, Revoke(n)
  PROVE  IInv'
<1>1. /\ UNCHANGED <<now, lag, installed, tx, log, members, rollbacks, witness, head,
                     attested, applied, promoted, activated, bundle>>
      /\ pc' = [pc EXCEPT ![n] = "snapshot"]
  BY DEF Revoke, clock, source, redis, control, replica
<1>2. pc' \in [Targets -> Steps]
  BY <1>1 DEF IInv, TypeOK, Steps
<1>3. /\ grants' \in Seq(Grant) /\ Len(grants') \in 1..MaxGrants /\ Len(grants') >= Len(grants)
      /\ LastGrant'.expires = LastGrant.expires
      /\ Over => Over'
      /\ ChainSound'
  <2>1. CASE SignGrant("revoked", LastGrant.expires)
    <3>1. LastGrant.expires \in Nat /\ Len(grants) \in Nat /\ Len(grants) >= 1
      BY GrantTypes DEF IInv
    <3>. QED BY <2>1, <3>1, SignGrantKeeps, Constants DEF IInv
  <2>2. CASE UNCHANGED grants
    BY <1>1, <2>2 DEF IInv, TypeOK, Over, WaitedOut, LastGrant, ChainSound
  <2>. QED BY <2>1, <2>2 DEF Revoke
<1>4. TypeOK'
  <2>1. installed \in [Databases -> 1..Len(grants')]
    BY <1>3, GrantTypes DEF IInv, TypeOK
  <2>. QED BY <1>1, <1>2, <1>3, <2>1 DEF IInv, TypeOK
<1>5. OperatorsSound'
  BY <1>1, <1>3 DEF IInv, TypeOK, OperatorsSound, Begun
<1>. QED BY <1>1, <1>3, <1>4, <1>5 DEF IInv, TxTimely, HeadSound, PromotedSound

\* Every later step of an operator leaves the lease chain, the clocks, the
\* transactions and what replicas have applied alone.
LEMMA OperatorStep ==
  ASSUME IInv, NEW n \in Targets, Operator(n), ~Revoke(n)
  PROVE  IInv'
<1>1. UNCHANGED <<now, lag, grants, installed, tx, log, applied>>
  BY DEF Operator, Snapshot, Begin, ClaimTarget, MarkFenced, Promote, Attest, MarkActive,
         InstallActive, clock, lease, source, replica
<1>2. LastGrant' = LastGrant /\ Over' = Over
  BY <1>1 DEF LastGrant, Over, WaitedOut
<1>3. ChainSound' /\ TxTimely'
  BY <1>1, <1>2 DEF IInv, ChainSound, TxTimely
<1>4. log[Source] \in 0..MaxWrites /\ bundle[n] \in Nat
  BY Constants DEF IInv, TypeOK, Nodes
<1>5. pc[n] \notin {"revoke", "snapshot"} => Over /\ bundle[n] = log[Source]
  BY DEF IInv, OperatorsSound
<1>6. pc[n] \in Begun => head # None /\ head.target = n /\ head \in Intent
  BY DEF IInv, OperatorsSound, TypeOK
<1>7. CASE Snapshot(n)
  <2>1. Over
    <3>1. "control" \in Databases
      BY DEF Databases
    <3>. QED BY <1>7, <3>1, LeaseIsBounded DEF Snapshot, Over, IInv
  <2>2. UNCHANGED <<members, rollbacks, witness, head, attested, promoted, activated>>
    BY <1>7 DEF Snapshot, redis, control, replica
  <2>3. TypeOK'
    BY <1>7, <1>1, <1>4, <2>2 DEF Snapshot, IInv, TypeOK, Steps
  <2>4. OperatorsSound'
    BY <1>7, <1>1, <1>2, <2>1, <2>2 DEF Snapshot, IInv, TypeOK, OperatorsSound, Begun
  <2>. QED BY <1>1, <1>2, <1>3, <2>2, <2>3, <2>4 DEF IInv, HeadSound, PromotedSound
<1>8. CASE Begin(n)
  <2>1. UNCHANGED <<members, rollbacks, witness, attested, promoted, activated, bundle>>
    BY <1>8 DEF Begin, redis, replica
  <2>2. Over /\ bundle[n] = log[Source]
    BY <1>8, <1>5 DEF Begin
  <2>3. CASE head # None
    <3>1. /\ head' = head
          /\ pc' = [pc EXCEPT ![n] = IF head.target = n THEN "claim" ELSE "refused"]
      BY <1>8, <2>3 DEF Begin
    <3>2. TypeOK'
      BY <1>1, <2>1, <3>1 DEF IInv, TypeOK, Steps
    <3>3. OperatorsSound'
      BY <1>1, <1>2, <2>1, <2>2, <2>3, <3>1 DEF IInv, TypeOK, OperatorsSound, Begun
    <3>. QED BY <1>1, <1>2, <1>3, <2>1, <3>1, <3>2, <3>3 DEF IInv, HeadSound, PromotedSound
  <2>4. CASE head = None
    <3>1. /\ head' = [target |-> n, phase |-> "PREPARING", final |-> bundle[n],
                      lease |-> Len(grants), expires |-> LastGrant.expires]
          /\ pc' = [pc EXCEPT ![n] = "claim"] \/ pc' = pc
      BY <1>8, <2>4 DEF Begin, Goto
    <3>2. head' \in Intent /\ head' # None /\ head'.target = n /\ head'.final = bundle[n]
      BY <3>1, <1>4, GrantTypes, NoIntentAssumption DEF Intent, IInv
    <3>3. TypeOK'
      BY <1>1, <2>1, <3>1, <3>2 DEF IInv, TypeOK, Steps
    <3>4. \A m \in Targets : pc[m] \notin Begun
      BY <2>4 DEF IInv, OperatorsSound
    <3>5. OperatorsSound'
      BY <1>1, <1>2, <2>1, <2>2, <3>1, <3>2, <3>4 DEF IInv, TypeOK, OperatorsSound, Begun
    <3>6. HeadSound' /\ PromotedSound'
      BY <1>1, <1>2, <2>1, <2>2, <2>4, <3>2 DEF IInv, HeadSound, PromotedSound
    <3>. QED BY <1>3, <3>3, <3>5, <3>6 DEF IInv
  <2>. QED BY <2>3, <2>4
<1>9. CASE ClaimTarget(n)
  <2>1. UNCHANGED <<rollbacks, witness, head, attested, promoted, activated, bundle>>
    BY <1>9 DEF ClaimTarget, control, replica
  <2>2. pc[n] \in Begun
    BY <1>9 DEF ClaimTarget, IInv, TypeOK, Steps, Begun
  <2>3. PICK reached \in SUBSET Members : ClaimOn(reached, Claim(n))
    BY <1>9 DEF ClaimTarget
  <2>4. members' \in [Members -> Claims \cup {None}]
    <3>1. Claim(n) \in Claims
      BY DEF Claims, Nodes
    <3>. QED BY <2>3, <3>1 DEF ClaimOn, IInv, TypeOK
  <2>5. \E s \in Begun : pc' = [pc EXCEPT ![n] = s]
    BY <1>9, <2>2 DEF ClaimTarget, Begun, IInv, TypeOK
  <2>6. TypeOK'
    BY <1>1, <2>1, <2>4, <2>5 DEF IInv, TypeOK, Steps, Begun
  <2>7. OperatorsSound'
    BY <1>1, <1>2, <1>5, <1>6, <2>1, <2>2, <2>5 DEF IInv, TypeOK, OperatorsSound, Begun
  <2>. QED BY <1>1, <1>2, <1>3, <2>1, <2>6, <2>7 DEF IInv, HeadSound, PromotedSound
<1>10. CASE MarkFenced(n) \/ MarkActive(n)
  <2>1. UNCHANGED <<members, rollbacks, promoted, activated, bundle>> /\ attested' = attested
    BY <1>10 DEF MarkFenced, MarkActive, redis, replica
  <2>2. pc[n] \in Begun /\ \E s \in Begun : pc' = [pc EXCEPT ![n] = s]
    BY <1>10 DEF MarkFenced, MarkActive, Goto, Begun, IInv, TypeOK
  <2>3. /\ head' \in Intent /\ head' # None
        /\ head'.target = head.target /\ head'.final = head.final
        /\ witness' \in {1, 2}
    <3>1. \E ph \in {"FENCED", "ACTIVE"} : head' = [head EXCEPT !.phase = ph]
      BY <1>10 DEF MarkFenced, MarkActive
    <3>2. witness' \in {1, 2}
      BY <1>10 DEF MarkFenced, MarkActive, IInv, TypeOK
    <3>. QED BY <1>6, <2>2, <3>1, <3>2, NoIntentAssumption DEF Intent
  <2>4. TypeOK'
    BY <1>1, <2>1, <2>2, <2>3 DEF IInv, TypeOK, Steps, Begun
  <2>5. OperatorsSound'
    BY <1>1, <1>2, <1>5, <1>6, <2>1, <2>2, <2>3 DEF IInv, TypeOK, OperatorsSound, Begun
  <2>. QED BY <1>1, <1>2, <1>3, <1>6, <2>1, <2>2, <2>3, <2>4, <2>5 DEF IInv, HeadSound, PromotedSound
<1>11. CASE Promote(n) \/ Attest(n) \/ InstallActive(n)
  <2>1. UNCHANGED <<members, rollbacks, witness, head, bundle>>
    BY <1>11 DEF Promote, Attest, InstallActive, redis, control
  <2>2. pc[n] \in Begun /\ \E s \in Begun : pc' = [pc EXCEPT ![n] = s]
    BY <1>11 DEF Promote, Attest, InstallActive, Goto, Begun, IInv, TypeOK
  <2>3. attested' \subseteq Targets /\ activated' \subseteq Targets
    BY <1>11 DEF Promote, Attest, InstallActive, control, replica, IInv, TypeOK
  <2>4. promoted' = promoted \/ (promoted' = promoted \cup {n} /\ (n \in promoted \/ applied[n] = bundle[n]))
    BY <1>11 DEF Promote, Attest, InstallActive, replica
  <2>5. TypeOK'
    BY <1>1, <2>1, <2>2, <2>3, <2>4 DEF IInv, TypeOK, Steps, Begun
  <2>6. OperatorsSound'
    BY <1>1, <1>2, <1>5, <1>6, <2>1, <2>2 DEF IInv, TypeOK, OperatorsSound, Begun
  <2>7. bundle[n] = log[Source]
    BY <1>5, <2>2 DEF Begun
  <2>8. PromotedSound'
    BY <1>1, <1>6, <2>1, <2>2, <2>4, <2>7 DEF IInv, PromotedSound
  <2>. QED BY <1>1, <1>2, <1>3, <2>1, <2>5, <2>6, <2>8 DEF IInv, HeadSound
<1>. QED BY <1>7, <1>8, <1>9, <1>10, <1>11 DEF Operator

LEMMA NextIInv == IInv /\ [Next]_vars => IInv'
<1> SUFFICES ASSUME IInv, [Next]_vars PROVE IInv'
  OBVIOUS
<1>1. CASE UNCHANGED vars
  <2>1. UNCHANGED <<now, lag, grants, installed, tx, log, members, rollbacks, witness, head,
                    attested, applied, promoted, activated, pc, bundle>>
    BY <1>1 DEF vars, clock, lease, source, redis, control, replica, operator
  <2>2. LastGrant' = LastGrant /\ Over' = Over
    BY <2>1 DEF LastGrant, Over, WaitedOut
  <2>3. TypeOK'
    BY <2>1 DEF IInv, TypeOK
  <2>. QED BY <2>1, <2>2, <2>3 DEF IInv, ChainSound, TxTimely, OperatorsSound, HeadSound, PromotedSound
<1>2. CASE Next
  BY <1>2, TransactionStep, EnvironmentStep, ReplicaStep, RevokeStep, OperatorStep DEF Next, Operator
<1>. QED BY <1>1, <1>2

------------------------------------------------------------------------------
(* The theorems.                                                           *)

\* The inductive invariant: what Over implies for the source, the operators, the head of
\* the cutover and the promoted replica.
THEOREM Invariance == Spec => []IInv
BY InitIInv, NextIInv, PTL DEF Spec

\* The type invariant of the cutover.
THEOREM CutoverTypes == Spec => []TypeOK
BY Invariance, PTL DEF IInv

\* No acknowledged write is lost: when markFenced has moved the witness, the old source
\* has committed exactly the rows of the bound snapshot, and a replica is promoted on
\* top of all of them, transactions past the gate included.
THEOREM NoWriteIsLost == Spec => []NothingLost
<1>1. IInv => NothingLost
  BY DEF IInv, HeadSound, PromotedSound, NothingLost
<1>. QED BY <1>1, Invariance, PTL

\* One node writes: while a replica is the source, no other node has a transaction that
\* passed assertWritableInTx, whatever the clock of its database reads.
THEOREM OneNodeWrites == Spec => []OneWriter
<1>1. IInv => OneWriter
  <2> SUFFICES ASSUME IInv, NEW n \in promoted, NEW m \in Nodes \ {n} PROVE tx[m] = None
    BY DEF OneWriter
  <2>1. Over /\ head.target = n
    BY DEF IInv, PromotedSound, HeadSound
  <2>2. CASE m = Source
    BY <2>1, <2>2, OverStopsSource DEF IInv
  <2>3. CASE m \in Targets
    BY <2>1, <2>3 DEF IInv, PromotedSound
  <2>. QED BY <2>2, <2>3 DEF Nodes
<1>. QED BY <1>1, Invariance, PTL

==============================================================================
