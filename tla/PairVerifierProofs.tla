------------------------- MODULE PairVerifierProofs -------------------------
(***************************************************************************)
(* Theorems about PairVerifier, for every choice of its constants: its     *)
(* types and refusals, the single acceptance of a signed request, and what *)
(* concurrent requests, rotations, approvals and operators may do.         *)
(***************************************************************************)
EXTENDS PairVerifier, FiniteSetTheorems, TLAPS

\* The store operations keep a record a record.
LEMMA NewPairType ==
  ASSUME NEW reg \in Registration
  PROVE  NewPair(reg) \in Pair
BY DEF NewPair, Registration, Pair, Statuses

LEMMA PolicyType ==
  ASSUME NEW pair \in Pair
  PROVE  Policy(pair) \in Policies
BY DEF Policy, Policies, Pair

\* A record of the store stays one when one of its fields is written.
LEMMA FieldType ==
  ASSUME NEW rec \in Pair
  PROVE  /\ \A s \in Statuses : [rec EXCEPT !.status = s] \in Pair
         /\ \A s \in Scopes : [rec EXCEPT !.scope = s] \in Pair
         /\ \A e \in Nat \cup {Never} : [rec EXCEPT !.expiresAt = e] \in Pair
         /\ \A n \in Nat : /\ [rec EXCEPT !.maxRequests = n] \in Pair
                           /\ [rec EXCEPT !.requests = n] \in Pair
                           /\ [rec EXCEPT !.failedSigs = n] \in Pair
                           /\ [rec EXCEPT !.cumulativeFailures = n] \in Pair
BY DEF Pair

LEMMA AfterClaimType ==
  ASSUME NEW pair \in Pair, NEW at \in Nat, NEW expected \in Policies
  PROVE  AfterClaim(pair, at, expected) \in Pair
<1> DEFINE used == [pair EXCEPT !.requests = @ + 1, !.failedSigs = 0,
                                !.cumulativeFailures = 0]
           status == IF Exhausted(used) THEN "expired" ELSE "active"
<1>1. used \in Pair
  <2>1. pair.requests + 1 \in Nat
    BY DEF Pair
  <2>2. used = [[[pair EXCEPT !.requests = @ + 1] EXCEPT !.failedSigs = 0]
                EXCEPT !.cumulativeFailures = 0]
    BY DEF Pair
  <2> QED
    BY <2>1, <2>2, FieldType
<1>2. status \in Statuses
  BY DEF Statuses
<1>3. AfterClaim(pair, at, expected) \in
        {[used EXCEPT !.status = status], [pair EXCEPT !.status = "expired"], pair}
  BY Zenon DEF AfterClaim
<1> HIDE DEF used, status
<1>4. [used EXCEPT !.status = status] \in Pair
  BY <1>1, <1>2, FieldType
<1>5. [pair EXCEPT !.status = "expired"] \in Pair
  BY FieldType DEF Statuses
<1> QED
  BY <1>3, <1>4, <1>5

LEMMA AfterFailureType ==
  ASSUME NEW pair \in Pair, NEW failures \in Nat
  PROVE  AfterFailure(pair, failures) \in Pair
<1> DEFINE scored == [pair EXCEPT !.failedSigs = failures,
                                  !.cumulativeFailures = @ + 1]
<1>1. scored \in Pair
  <2>1. pair.cumulativeFailures + 1 \in Nat
    BY DEF Pair
  <2>2. scored = [[pair EXCEPT !.failedSigs = failures]
                  EXCEPT !.cumulativeFailures = @ + 1]
    BY DEF Pair
  <2> QED
    BY <2>1, <2>2, FieldType DEF Pair
<1>2. AfterFailure(pair, failures) \in {[scored EXCEPT !.status = "locked"], scored}
  BY Zenon DEF AfterFailure
<1> HIDE DEF scored
<1>3. [scored EXCEPT !.status = "locked"] \in Pair
  BY <1>1, FieldType DEF Statuses
<1> QED
  BY <1>1, <1>2, <1>3

LEMMA AbsentType == Absent \in Pair
BY DEF Absent, Pair, Scopes, Kinds

-----------------------------------------------------------------------------
(* Type correctness.                                                       *)

LEMMA InitType == Init => TypeOK
<1> SUFFICES ASSUME Init PROVE TypeOK
  OBVIOUS
<1>1. pairs \in [PairIds -> Pair]
  BY ConfigAssumption, NewPairType, AbsentType DEF Init
<1>2. Policy(Absent) \in Policies
  BY AbsentType, PolicyType
<1>3. (CHOOSE c \in Credentials : TRUE) \in Credentials
  BY ConfigAssumption
<1>4. (CHOOSE i \in Ips : TRUE) \in Ips
  BY ConfigAssumption
<1>5. (CHOOSE p \in PairIds : TRUE) \in PairIds
  BY ConfigAssumption
<1> QED
  BY <1>1, <1>2, <1>3, <1>4, <1>5, AbsentType DEF Init, TypeOK, ReqPcs

\* The steps of a request that leave the store alone.
LEMMA RequestType ==
  ASSUME TypeOK, NEW r \in Requests
  PROVE  /\ \A c \in Credentials, ok \in BOOLEAN, i \in Ips : Receive(r, c, ok, i) => TypeOK'
         /\ LookUp(r) => TypeOK'
         /\ Verdict(r) => TypeOK'
         /\ Verify(r) => TypeOK'
         /\ RecordSigFailure(r) => TypeOK'
         /\ RecordFailure(r) => TypeOK'
         /\ ClearTracker(r) => TypeOK'
<1> USE DEF TypeOK, Goto, Source, storeVars, anomVars, opVars, ReqPcs
<1>0. cred[r].pair \in PairIds /\ Source(r) \in PairIds \X Ips
  BY ConfigAssumption
<1>1. ASSUME NEW c \in Credentials, NEW ok \in BOOLEAN, NEW i \in Ips, Receive(r, c, ok, i)
      PROVE  TypeOK'
  BY <1>1 DEF Receive
<1>2. ASSUME LookUp(r) PROVE TypeOK'
  BY <1>0, <1>2, PolicyType DEF LookUp
<1>3. ASSUME Verdict(r) PROVE TypeOK'
  BY <1>0, <1>3 DEF Verdict
<1>4. ASSUME Verify(r) PROVE TypeOK'
  BY <1>4 DEF Verify
<1>5. ASSUME RecordFailure(r) PROVE TypeOK'
  BY <1>0, <1>5 DEF RecordFailure
<1>6. ASSUME ClearTracker(r) PROVE TypeOK'
  BY <1>6 DEF ClearTracker
<1>7. ASSUME RecordSigFailure(r) PROVE TypeOK'
  BY <1>0, <1>7 DEF RecordSigFailure
<1> QED
  BY <1>1, <1>2, <1>3, <1>4, <1>5, <1>6, <1>7

\* The steps of a request that write the pair store or the nonce store.
LEMMA StoreType ==
  ASSUME TypeOK, NEW r \in Requests
  PROVE  /\ EnsureLocked(r) => TypeOK'
         /\ MarkExpired(r) => TypeOK'
         /\ MarkUsageExpired(r) => TypeOK'
         /\ ApplyFailure(r) => TypeOK'
         /\ Consume(r) => TypeOK'
         /\ Claim(r) => TypeOK'
<1> USE DEF TypeOK, Goto, Source, storeVars, anomVars, opVars, ReqPcs
<1> DEFINE id == cred[r].pair
<1>0. id \in PairIds /\ Source(r) \in PairIds \X Ips /\ cred[r].nonce \in Nonces
  BY ConfigAssumption DEF Nonces
<1>s. /\ [pairs[id] EXCEPT !.status = "locked"] \in Pair
      /\ [pairs[id] EXCEPT !.status = "expired"] \in Pair
  BY <1>0, FieldType DEF Statuses
<1>1. ASSUME EnsureLocked(r) PROVE TypeOK'
  BY <1>0, <1>s, <1>1 DEF EnsureLocked
<1>2. ASSUME NEW step, NEW due, Expire(r, step, due) PROVE TypeOK'
  BY <1>0, <1>s, <1>2 DEF Expire
<1>3. ASSUME ApplyFailure(r) PROVE TypeOK'
  BY <1>0, <1>3, AfterFailureType DEF ApplyFailure
<1>4. ASSUME Consume(r) PROVE TypeOK'
  <2>1. Unexpired \in [Nonces -> Nat]
    BY DEF Unexpired
  <2>2. clock + Retention \in Nat
    BY ConfigAssumption
  <2>3. seen' \in [Nonces -> Nat]
    BY <1>4, <2>1, <2>2 DEF Consume
  <2> QED
    BY <1>0, <1>4, <2>3 DEF Consume
<1>5. ASSUME Claim(r) PROVE TypeOK'
  BY <1>0, <1>5, AfterClaimType DEF Claim
<1> QED
  BY <1>1, <1>2, <1>3, <1>4, <1>5 DEF MarkExpired, MarkUsageExpired

LEMMA OperatorType ==
  ASSUME TypeOK, NEW o \in Operators
  PROVE  /\ \A t \in Tokens : BeginApprove(o, t) => TypeOK'
         /\ \A p \in PairIds : BeginRotate(o, p) => TypeOK'
         /\ \A p \in PairIds : CommitApprove(o, p) => TypeOK'
         /\ \A p \in PairIds : CommitRotate(o, p) => TypeOK'
         /\ \A reg \in Registrations : BeginRequest(o, reg) => TypeOK'
         /\ \A t \in Tokens : SetPending(o, t) => TypeOK'
<1> USE DEF TypeOK, OpDone, storeVars, anomVars, reqVars
<1>1. ASSUME NEW t \in Tokens, BeginApprove(o, t) PROVE TypeOK'
  BY <1>1, ConfigAssumption DEF BeginApprove
<1>2. ASSUME NEW p \in PairIds, BeginRotate(o, p) PROVE TypeOK'
  BY <1>2, ConfigAssumption DEF BeginRotate
<1>3. ASSUME NEW p \in PairIds, CommitApprove(o, p) PROVE TypeOK'
  <2>1. opKey[o] \in Tokens /\ NewPair(opSnap[o]) \in Pair
    BY <1>3, NewPairType, ConfigAssumption DEF CommitApprove
  <2> QED
    BY <1>3, <2>1, AbsentType DEF CommitApprove
<1>4. ASSUME NEW p \in PairIds, CommitRotate(o, p) PROVE TypeOK'
  <2>1. opKey[o] \in PairIds /\ opSnap[o] \in Pair
    BY <1>4 DEF CommitRotate
  <2>2. NewPair(opSnap[o]) \in Pair
    BY <2>1 DEF NewPair, Pair, Statuses
  <2>3. [pairs[opKey[o]] EXCEPT !.status = "rotated"] \in Pair
    BY <2>1, FieldType DEF Statuses
  <2> QED
    BY <1>4, <2>1, <2>2, <2>3, AbsentType DEF CommitRotate
<1>5. ASSUME NEW reg \in Registrations, BeginRequest(o, reg) PROVE TypeOK'
  BY <1>5 DEF BeginRequest
<1>6. ASSUME NEW t \in Tokens, SetPending(o, t) PROVE TypeOK'
  BY <1>6, AbsentType DEF SetPending
<1> QED
  BY <1>1, <1>2, <1>3, <1>4, <1>5, <1>6

LEMMA AdminType ==
  ASSUME TypeOK
  PROVE  /\ \A p \in PairIds : Revoke(p) \/ Unlock(p) \/ UpdatePair(p) => TypeOK'
         /\ \A p \in PairIds, i \in Ips : ClearShadow(p, i) => TypeOK'
         /\ Tick => TypeOK'
<1> USE DEF TypeOK, storeVars, anomVars, reqVars, opVars
<1>2. ASSUME NEW p \in PairIds, NEW rec \in Pair, Mutate(p, rec) PROVE TypeOK'
  BY <1>2 DEF Mutate
<1>3. ASSUME NEW p \in PairIds, Revoke(p) \/ Unlock(p) \/ UpdatePair(p) PROVE TypeOK'
  <2>1. [pairs[p] EXCEPT !.status = "revoked"] \in Pair
    BY FieldType DEF Statuses
  <2>2. [pairs[p] EXCEPT !.status = "active", !.failedSigs = 0] \in Pair
    <3>1. [pairs[p] EXCEPT !.status = "active", !.failedSigs = 0]
            = [[pairs[p] EXCEPT !.status = "active"] EXCEPT !.failedSigs = 0]
      BY DEF Pair
    <3> QED
      BY <3>1, FieldType DEF Statuses
  <2>3. CASE Revoke(p)
    BY <2>1, <2>3, <1>2 DEF Revoke
  <2>4. CASE Unlock(p)
    BY <2>2, <2>4, <1>2 DEF Unlock
  <2>5. CASE UpdatePair(p)
    <3>1. pairs[p] \in Pair
      OBVIOUS
    <3>2. ASSUME NEW s \in Scopes, NEW e \in Nat \cup {Never}, NEW m \in Nat
          PROVE  [pairs[p] EXCEPT !.scope = s, !.expiresAt = e, !.maxRequests = m] \in Pair
      BY <3>1 DEF Pair
    <3>3. pairs[p].scope \in Scopes /\ pairs[p].expiresAt \in Nat \cup {Never}
          /\ pairs[p].maxRequests \in Nat
      BY <3>1 DEF Pair
    <3> QED
      BY <2>5, <1>2, <3>2, <3>3, ConfigAssumption DEF UpdatePair
  <2> QED
    BY <1>3, <2>3, <2>4, <2>5
<1>4. ASSUME NEW p \in PairIds, NEW i \in Ips, ClearShadow(p, i) PROVE TypeOK'
  BY <1>4 DEF ClearShadow
<1>5. ASSUME Tick PROVE TypeOK'
  BY <1>5 DEF Tick
<1> QED
  BY <1>3, <1>4, <1>5

\* Every step of PairVerifier keeps the state well typed.
LEMMA NextType == TypeOK /\ [Next]_vars => TypeOK'
<1> SUFFICES ASSUME TypeOK, [Next]_vars PROVE TypeOK'
  OBVIOUS
<1>1. ASSUME NEW r \in Requests, RequestStep(r) PROVE TypeOK'
  BY <1>1, RequestType, StoreType DEF RequestStep
<1>2. ASSUME NEW o \in Operators, OperatorStep(o) PROVE TypeOK'
  BY <1>2, OperatorType DEF OperatorStep
<1>3. CASE UNCHANGED vars
  BY <1>3 DEF vars, storeVars, anomVars, reqVars, opVars, TypeOK
<1> QED
  BY <1>1, <1>2, <1>3, AdminType DEF Next

\* In every behaviour of the verifier and its store, whatever the pairs,
\* requests, operators and bounds, the state is well typed.
THEOREM TypeCorrect == Spec => []TypeOK
BY InitType, NextType, PTL DEF Spec

-----------------------------------------------------------------------------
(***************************************************************************)
(* One signed request is accepted at most once, for every number of        *)
(* requests, pairs, operators and every clock horizon.                     *)
(*                                                                         *)
(* NonceAcceptedOnce is not inductive: it says nothing of the entry that   *)
(* keeps the next request out.  ReplayInv adds how long that entry lasts,  *)
(* and how late a request may arrive at the gate.                          *)
(***************************************************************************)

\* The last instant at which a request stamped ts can reach checkAndConsume.
LastGate(ts) == ts + SigWindow + MaxStall

\* A request before the gate passed the freshness check at most MaxStall ago.
AtGate ==
  \A r \in Requests : pc[r] = "consume" =>
    /\ checkedAt[r] - cred[r].ts <= SigWindow
    /\ cred[r].ts - checkedAt[r] <= SigWindow
    /\ checkedAt[r] <= clock
    /\ clock <= checkedAt[r] + MaxStall

\* A request that consumed its nonce is past the gate for good.
PastGate == \A r \in won : pc[r] \in {"claim", "clear", "accepted", "denied"}

\* Its entry is held until no copy of it can reach the gate any more.
Held ==
  \A r \in won : \/ seen[cred[r].nonce] >= LastGate(cred[r].ts)
                 \/ clock > LastGate(cred[r].ts)

ReplayInv == TypeOK /\ AtGate /\ PastGate /\ Held /\ NonceAcceptedOnce

\* The steps that do not touch the clock or the nonce store.
LEMMA AwayFromGate ==
  ASSUME ReplayInv, TypeOK', UNCHANGED <<clock, seen, won>>,
         \A q \in Requests :
           \/ /\ pc'[q] = pc[q] /\ cred'[q] = cred[q] /\ checkedAt'[q] = checkedAt[q]
           \/ /\ pc'[q] # "consume"
              /\ \/ q \notin won
                 \/ cred'[q] = cred[q] /\ pc'[q] \in {"claim", "clear", "accepted", "denied"}
  PROVE  ReplayInv'
<1>1. AtGate'
  BY DEF ReplayInv, AtGate
<1>2. won \subseteq Requests /\ won' = won
  BY DEF ReplayInv, TypeOK
<1>3. PastGate'
  BY <1>2 DEF ReplayInv, PastGate
<1>4. \A q \in won : cred'[q] = cred[q]
  BY <1>2
<1>5. Held'
  BY <1>2, <1>4 DEF ReplayInv, Held
<1>6. NonceAcceptedOnce'
  BY <1>2, <1>4 DEF ReplayInv, NonceAcceptedOnce
<1> QED
  BY <1>1, <1>3, <1>5, <1>6 DEF ReplayInv

LEMMA RequestAwayFromGate ==
  ASSUME ReplayInv, TypeOK', NEW r \in Requests,
         \/ \E c \in Credentials, ok \in BOOLEAN, i \in Ips : Receive(r, c, ok, i)
         \/ LookUp(r) \/ EnsureLocked(r) \/ MarkExpired(r) \/ MarkUsageExpired(r)
         \/ Verdict(r) \/ RecordSigFailure(r) \/ RecordFailure(r) \/ ApplyFailure(r)
         \/ Claim(r) \/ ClearTracker(r)
  PROVE  ReplayInv'
<1> USE DEF Goto
<1>1. UNCHANGED <<clock, seen, won>>
  BY DEF Receive, LookUp, EnsureLocked, MarkExpired, MarkUsageExpired, Expire,
         Verdict, RecordSigFailure, RecordFailure, ApplyFailure, Claim, ClearTracker, storeVars, anomVars
<1>2. /\ \A q \in Requests \ {r} : pc'[q] = pc[q] /\ cred'[q] = cred[q] /\ checkedAt'[q] = checkedAt[q]
      /\ pc'[r] # "consume"
      /\ \/ pc[r] \in {"idle", "lookup", "ensureLocked", "markExpired", "markUsage",
                       "verdict", "fail", "count", "applyFail"}
         \/ cred'[r] = cred[r] /\ pc'[r] \in {"claim", "clear", "accepted", "denied"}
  <2> USE DEF ReplayInv, TypeOK
  <2>1. CASE \E c \in Credentials, ok \in BOOLEAN, i \in Ips : Receive(r, c, ok, i)
    BY <2>1 DEF Receive
  <2>2. CASE LookUp(r)
    BY <2>2 DEF LookUp
  <2>3. CASE EnsureLocked(r)
    BY <2>3 DEF EnsureLocked
  <2>4. CASE MarkExpired(r) \/ MarkUsageExpired(r)
    BY <2>4 DEF MarkExpired, MarkUsageExpired, Expire
  <2>5. CASE Verdict(r)
    BY <2>5 DEF Verdict
  <2>6. CASE RecordSigFailure(r) \/ RecordFailure(r)
    BY <2>6 DEF RecordSigFailure, RecordFailure
  <2>7. CASE ApplyFailure(r)
    BY <2>7 DEF ApplyFailure
  <2>8. CASE Claim(r)
    BY <2>8 DEF Claim
  <2>9. CASE ClearTracker(r)
    BY <2>9 DEF ClearTracker
  <2> QED
    BY <2>1, <2>2, <2>3, <2>4, <2>5, <2>6, <2>7, <2>8, <2>9
<1>3. \A q \in Requests :
        \/ /\ pc'[q] = pc[q] /\ cred'[q] = cred[q] /\ checkedAt'[q] = checkedAt[q]
        \/ /\ pc'[q] # "consume"
           /\ \/ q \notin won
              \/ cred'[q] = cred[q] /\ pc'[q] \in {"claim", "clear", "accepted", "denied"}
  BY <1>2 DEF ReplayInv, PastGate
<1> QED
  BY <1>1, <1>3, AwayFromGate

\* The freshness check brings a request before the gate.
LEMMA VerifyReplay ==
  ASSUME ReplayInv, TypeOK', NEW r \in Requests, Verify(r)
  PROVE  ReplayInv'
<1> USE DEF Goto
<1>1. /\ UNCHANGED <<clock, seen, won, cred>>
      /\ \A q \in Requests \ {r} : pc'[q] = pc[q] /\ checkedAt'[q] = checkedAt[q]
      /\ checkedAt'[r] = clock /\ pc[r] = "verify"
      /\ pc'[r] = "consume" => Fresh(cred[r].ts)
  BY DEF Verify, ReplayInv, TypeOK
<1>2. AtGate'
  BY <1>1, ConfigAssumption DEF ReplayInv, AtGate, Fresh, TypeOK
<1>3. r \notin won
  BY <1>1 DEF ReplayInv, PastGate
<1>4. PastGate'
  BY <1>1, <1>3 DEF ReplayInv, PastGate, TypeOK
<1>5. Held' /\ NonceAcceptedOnce'
  BY <1>1 DEF ReplayInv, Held, NonceAcceptedOnce
<1> QED
  BY <1>2, <1>4, <1>5 DEF ReplayInv

\* Time never moves past the last instant of a request before the gate.
LEMMA TickReplay == ReplayInv /\ Tick /\ TypeOK' => ReplayInv'
<1> SUFFICES ASSUME ReplayInv, Tick, TypeOK' PROVE ReplayInv'
  OBVIOUS
<1>1. UNCHANGED <<seen, won, cred, pc, checkedAt>> /\ clock' = clock + 1
  BY DEF Tick, reqVars
<1>2. AtGate'
  BY <1>1, ConfigAssumption DEF Tick, ReplayInv, AtGate, TypeOK
<1>3. \A q \in won : LastGate(cred[q].ts) \in Nat
  BY ConfigAssumption DEF ReplayInv, TypeOK, LastGate
<1>4. Held'
  BY <1>1, <1>3 DEF ReplayInv, Held, TypeOK
<1> QED
  BY <1>1, <1>2, <1>4 DEF ReplayInv, PastGate, NonceAcceptedOnce

\* With room for every nonce in use, the capacity guard evicts nothing.
LEMMA NothingEvicted ==
  ASSUME TypeOK, IsFiniteSet(Nonces), Cardinality(Nonces) <= MaxNonces,
         NEW n \in Nonces, Unexpired[n] = 0
  PROVE  Evictable(Unexpired) = {{}}
<1> DEFINE held == {m \in Nonces : Unexpired[m] # 0}
<1>1. held \subseteq Nonces \ {n}
  OBVIOUS
<1>2. IsFiniteSet(Nonces \ {n}) /\ Cardinality(Nonces \ {n}) = Cardinality(Nonces) - 1
  BY FS_RemoveElement
<1>3. IsFiniteSet(held) /\ Cardinality(held) <= Cardinality(Nonces \ {n})
  BY <1>1, <1>2, FS_Subset
<1>4. Cardinality(held) \in Nat /\ Cardinality(Nonces) \in Nat
  BY <1>3, FS_CardinalityType
<1>5. Cardinality(held) < MaxNonces
  BY <1>2, <1>3, <1>4, ConfigAssumption
<1> QED
  BY <1>5 DEF Evictable

\* The gate itself.
LEMMA ConsumeReplay ==
  ASSUME ReplayInv, TypeOK', NEW r \in Requests, Consume(r),
         Retention >= 2 * SigWindow + MaxStall,
         IsFiniteSet(Nonces), Cardinality(Nonces) <= MaxNonces
  PROVE  ReplayInv'
<1> DEFINE n == cred[r].nonce
           last == LastGate(cred[r].ts)
<1> USE DEF Goto
<1>1. /\ UNCHANGED <<clock, cred, checkedAt>>
      /\ \A q \in Requests \ {r} : pc'[q] = pc[q]
      /\ pc[r] = "consume" /\ pc'[r] \in {"claim", "denied"}
  BY DEF Consume, ReplayInv, TypeOK
<1>2. n \in Nonces /\ r \notin won /\ won \subseteq Requests
  BY <1>1 DEF Nonces, ReplayInv, TypeOK, PastGate
<1>3. cred[r].ts \in Nat /\ last \in Nat \ {0} /\ clock \in Nat /\ SigWindow \in Nat /\ MaxStall \in Nat
      /\ checkedAt[r] \in Nat
  BY ConfigAssumption DEF ReplayInv, TypeOK, LastGate
<1>4. clock <= last /\ clock + Retention >= last
  BY <1>1, <1>3, ConfigAssumption DEF ReplayInv, AtGate, LastGate
<1>5. \A q \in won : LastGate(cred[q].ts) \in Nat /\ cred[q].nonce \in Nonces
  BY ConfigAssumption DEF ReplayInv, TypeOK, LastGate, Nonces
<1>6. AtGate'
  BY <1>1 DEF ReplayInv, AtGate
<1>7. \A q \in won : Unexpired[cred[q].nonce] >= LastGate(cred[q].ts) \/ clock > LastGate(cred[q].ts)
  BY <1>3, <1>5 DEF ReplayInv, Held, TypeOK, Unexpired
<1>0. CASE UNCHANGED <<seen, won>>
  <2>1. PastGate' /\ NonceAcceptedOnce' /\ Held'
    BY <1>0, <1>1, <1>2 DEF ReplayInv, PastGate, NonceAcceptedOnce, Held
  <2> QED
    BY <1>6, <2>1 DEF ReplayInv
<1> SUFFICES ASSUME ~UNCHANGED <<seen, won>> PROVE ReplayInv'
  BY <1>0
<1>8. CASE Unexpired[n] # 0
  <2>1. seen' = Unexpired /\ won' = won
    BY <1>8 DEF Consume
  <2>2. PastGate' /\ NonceAcceptedOnce'
    BY <2>1, <1>1, <1>2 DEF ReplayInv, PastGate, NonceAcceptedOnce
  <2>3. Held'
    BY <2>1, <1>1, <1>7 DEF Held
  <2> QED
    BY <1>6, <2>2, <2>3 DEF ReplayInv
<1>9. CASE Unexpired[n] = 0
  <2>1. Evictable(Unexpired) = {{}}
    BY <1>2, <1>9, NothingEvicted DEF ReplayInv
  <2>2. /\ won' = won \cup {r}
        /\ seen' = [m \in Nonces |-> IF m = n THEN clock + Retention ELSE Unexpired[m]]
    BY <1>9, <2>1 DEF Consume
  <2>3. \A q \in won : cred[q].nonce # n
    <3> SUFFICES ASSUME NEW q \in won, cred[q].nonce = n PROVE FALSE
      OBVIOUS
    <3>1. cred[q] = cred[r]
      BY <1>2, NonceAssumption DEF ReplayInv, TypeOK
    <3> QED
      BY <3>1, <1>3, <1>4, <1>7, <1>9
  <2>4. PastGate'
    BY <1>1, <1>2, <2>2 DEF ReplayInv, PastGate
  <2>5. NonceAcceptedOnce'
    BY <1>1, <2>2, <2>3 DEF ReplayInv, NonceAcceptedOnce
  <2>6. Held'
    <3>1. \A q \in won : seen'[cred[q].nonce] = Unexpired[cred[q].nonce]
      BY <1>5, <2>2, <2>3
    <3>2. seen'[n] >= last
      BY <1>2, <1>4, <2>2
    <3> QED
      BY <1>1, <1>7, <2>2, <3>1, <3>2 DEF Held
  <2> QED
    BY <1>6, <2>4, <2>5, <2>6 DEF ReplayInv
<1> QED
  BY <1>8, <1>9

\* The replay store's promise (middleware.ts, the first-acceptance gate).  It
\* rests on three facts about a deployment: the retention covers the signature
\* window on both sides of the stamp plus the longest stall between the
\* freshness check and the gate (deriveNonceRetentionMs with its safety
\* buffer), and the store has room for the nonces in use.
THEOREM ReplaySafe ==
  ASSUME Retention >= 2 * SigWindow + MaxStall,
         IsFiniteSet(Nonces), Cardinality(Nonces) <= MaxNonces
  PROVE  Spec => []NonceAcceptedOnce
<1>1. Init => ReplayInv
  BY InitType DEF Init, ReplayInv, AtGate, PastGate, Held, NonceAcceptedOnce
<1>2. ReplayInv /\ [Next]_vars => ReplayInv'
  <2> SUFFICES ASSUME ReplayInv, [Next]_vars PROVE ReplayInv'
    OBVIOUS
  <2>1. TypeOK'
    BY NextType DEF ReplayInv
  <2>2. ASSUME NEW r \in Requests, RequestStep(r) PROVE ReplayInv'
    BY <2>1, <2>2, RequestAwayFromGate, VerifyReplay, ConsumeReplay DEF RequestStep
  <2>3. CASE Tick
    BY <2>1, <2>3, TickReplay
  <2>4. CASE UNCHANGED <<clock, seen, won, pc, cred, checkedAt>>
    BY <2>1, <2>4, AwayFromGate
  <2>5. CASE UNCHANGED vars
    BY <2>4, <2>5 DEF vars, reqVars
  <2>6. ASSUME NEW o \in Operators, OperatorStep(o) PROVE ReplayInv'
    BY <2>4, <2>6 DEF OperatorStep, BeginRequest, SetPending, BeginApprove, BeginRotate,
                       CommitApprove, CommitRotate, reqVars
  <2>7. CASE \/ \E p \in PairIds : Revoke(p) \/ Unlock(p) \/ UpdatePair(p)
             \/ \E p \in PairIds, i \in Ips : ClearShadow(p, i)
    BY <2>4, <2>7 DEF Revoke, Unlock, UpdatePair, Mutate, ClearShadow, reqVars
  <2> QED
    BY <2>2, <2>3, <2>5, <2>6, <2>7 DEF Next
<1>3. ReplayInv => NonceAcceptedOnce
  BY DEF ReplayInv
<1> QED
  BY <1>1, <1>2, <1>3, PTL DEF Spec

-----------------------------------------------------------------------------
(***************************************************************************)
(* What concurrent requests, rotations, approvals and operators may do to  *)
(* a pair, for every number of each.                                       *)
(***************************************************************************)

\* What a step that creates no pair may do to the status of one.
StatusMove(a, b) ==
  \/ b = a
  \/ a = "active" /\ b \in {"locked", "expired", "revoked"}
  \/ a = "locked" /\ b \in {"active", "revoked"}
  \/ a \in {"expired", "rotated"} /\ b = "revoked"

QuietStep ==
  /\ UNCHANGED origin
  /\ \A p \in PairIds : StatusMove(pairs[p].status, pairs'[p].status)
  /\ \A t \in Tokens : pending[t] = Spent => pending'[t] = Spent

\* A step that puts a pair under identity new: the approval of a token, or the
\* rotation of an active pair.
ApproveStep(new, t) ==
  /\ pairs[new].status = "absent" /\ pairs'[new].status = "active"
  /\ \A p \in PairIds \ {new} : pairs'[p].status = pairs[p].status
  /\ pending[t] # Spent /\ pending' = [pending EXCEPT ![t] = Spent]
  /\ origin' = [origin EXCEPT ![new] = t]

RotateStep(new, old) ==
  /\ pairs[new].status = "absent" /\ pairs'[new].status = "active"
  /\ pairs[old].status = "active" /\ pairs'[old].status = "rotated"
  /\ \A p \in PairIds \ {new, old} : pairs'[p].status = pairs[p].status
  /\ UNCHANGED pending
  /\ origin' = [origin EXCEPT ![new] = origin[old]]

PairStep ==
  \/ QuietStep
  \/ \E new \in PairIds, t \in Tokens : ApproveStep(new, t)
  \/ \E new \in PairIds, old \in PairIds : RotateStep(new, old)

-----------------------------------------------------------------------------

LEMMA ClaimMove ==
  ASSUME NEW pair \in Pair, NEW at, NEW expected
  PROVE  LET after == AfterClaim(pair, at, expected) IN
         \/ after.status = pair.status
         \/ pair.status \in {"active", "expired"} /\ after.status = "expired"
<1> DEFINE used == [pair EXCEPT !.requests = @ + 1, !.failedSigs = 0,
                                !.cumulativeFailures = 0]
           status == IF Exhausted(used) THEN "expired" ELSE "active"
           outcome == ClaimOutcome(pair, at, expected)
<1>1. CASE outcome = "claimed"
  <2>1. AfterClaim(pair, at, expected) = [used EXCEPT !.status = status]
    BY <1>1, Zenon DEF AfterClaim
  <2>2. pair.status = "active"
    BY <1>1 DEF ClaimOutcome
  <2>3. [used EXCEPT !.status = status].status = status
    BY DEF Pair
  <2> HIDE DEF used
  <2> QED
    BY <2>1, <2>2, <2>3
<1>2. CASE outcome \in {"time-expired", "usage-exhausted"}
  <2>1. AfterClaim(pair, at, expected) = [pair EXCEPT !.status = "expired"]
    BY <1>2, Zenon DEF AfterClaim
  <2>2. pair.status \in {"active", "expired"}
    BY <1>2 DEF ClaimOutcome
  <2> QED
    BY <2>1, <2>2 DEF Pair
<1>3. CASE outcome \notin {"claimed", "time-expired", "usage-exhausted"}
  <2>1. AfterClaim(pair, at, expected) = pair
    BY <1>3, Zenon DEF AfterClaim
  <2> QED
    BY <2>1
<1> QED
  BY <1>1, <1>2, <1>3

LEMMA FailureMove ==
  ASSUME NEW pair \in Pair, NEW failures \in Nat
  PROVE  LET after == AfterFailure(pair, failures) IN
         \/ after.status = pair.status
         \/ pair.status = "active" /\ after.status = "locked"
BY DEF AfterFailure, Pair

\* A step that writes one pair and creates none.
LEMMA OnePairMove ==
  ASSUME TypeOK, NEW p \in PairIds, NEW rec,
         pairs' = [pairs EXCEPT ![p] = rec],
         StatusMove(pairs[p].status, rec.status),
         UNCHANGED <<pending, origin>>
  PROVE  QuietStep
BY DEF TypeOK, QuietStep, StatusMove

LEMMA SamePairsMove ==
  ASSUME TypeOK, UNCHANGED storeVars
  PROVE  QuietStep
BY DEF TypeOK, QuietStep, StatusMove, storeVars

LEMMA RequestMove ==
  ASSUME TypeOK, NEW r \in Requests, RequestStep(r)
  PROVE  QuietStep
<1> DEFINE id == cred[r].pair
<1>0. id \in PairIds /\ pairs[id] \in Pair /\ ipFails[r] \in Nat
  BY ConfigAssumption DEF TypeOK
<1>s. ASSUME NEW s \in Statuses PROVE [pairs[id] EXCEPT !.status = s].status = s
  BY <1>0 DEF Pair
<1>1. CASE UNCHANGED storeVars
  BY <1>1, SamePairsMove
<1>2. CASE EnsureLocked(r)
  <2>1. CASE pairs' = pairs
    BY <1>1, <1>2, <2>1 DEF EnsureLocked, storeVars
  <2>2. CASE pairs' # pairs
    <3>1. /\ pairs' = [pairs EXCEPT ![id] = [pairs[id] EXCEPT !.status = "locked"]]
          /\ pairs[id].status = "active"
      BY <1>0, <1>2, <2>2 DEF EnsureLocked, TypeOK
    <3> QED
      BY <1>0, <1>2, <1>s, <3>1, OnePairMove DEF EnsureLocked, StatusMove, Statuses
  <2> QED
    BY <2>1, <2>2
<1>3. ASSUME NEW step, NEW due, Expire(r, step, due) PROVE QuietStep
  <2>1. CASE pairs' = pairs
    BY <1>1, <1>3, <2>1 DEF Expire, storeVars
  <2>2. CASE pairs' # pairs
    <3>1. /\ pairs' = [pairs EXCEPT ![id] = [pairs[id] EXCEPT !.status = "expired"]]
          /\ pairs[id].status = "active"
      BY <1>0, <1>3, <2>2 DEF Expire, TypeOK
    <3> QED
      BY <1>0, <1>3, <1>s, <3>1, OnePairMove DEF Expire, StatusMove, Statuses
  <2> QED
    BY <2>1, <2>2
<1>4. CASE ApplyFailure(r)
  <2>1. CASE pairs[id].status = "absent"
    BY <1>1, <1>4, <2>1 DEF ApplyFailure, storeVars
  <2>2. CASE pairs[id].status # "absent"
    <3>1. pairs' = [pairs EXCEPT ![id] = AfterFailure(pairs[id], ipFails[r])]
      BY <1>0, <1>4, <2>2 DEF ApplyFailure, TypeOK
    <3> QED
      BY <1>0, <1>4, <3>1, FailureMove, OnePairMove DEF ApplyFailure, StatusMove
  <2> QED
    BY <2>1, <2>2
<1>5. CASE Claim(r)
  <2>1. pairs' = [pairs EXCEPT ![id] = AfterClaim(pairs[id], clock, snap[r])]
    BY <1>0, <1>5 DEF Claim, TypeOK
  <2>2. StatusMove(pairs[id].status, AfterClaim(pairs[id], clock, snap[r]).status)
    BY <1>0, ClaimMove DEF StatusMove
  <2> QED
    BY <1>0, <1>5, <2>1, <2>2, OnePairMove DEF Claim
<1>6. CASE \/ \E c \in Credentials, ok \in BOOLEAN, i \in Ips : Receive(r, c, ok, i)
           \/ LookUp(r) \/ Verdict(r) \/ Verify(r) \/ RecordSigFailure(r) \/ RecordFailure(r)
           \/ Consume(r) \/ ClearTracker(r)
  BY <1>1, <1>6 DEF Receive, LookUp, Verdict, Verify, RecordSigFailure, RecordFailure, Consume, ClearTracker
<1> QED
  BY <1>2, <1>3, <1>4, <1>5, <1>6 DEF RequestStep, MarkExpired, MarkUsageExpired

LEMMA AdminMove ==
  ASSUME TypeOK
  PROVE  /\ \A p \in PairIds : Revoke(p) \/ Unlock(p) \/ UpdatePair(p) => QuietStep
         /\ \A p \in PairIds, i \in Ips : ClearShadow(p, i) => QuietStep
         /\ Tick => QuietStep
<1>2. ASSUME NEW p \in PairIds, NEW rec, Mutate(p, rec), StatusMove(pairs[p].status, rec.status)
      PROVE  QuietStep
  BY <1>2, OnePairMove DEF Mutate
<1>3. ASSUME NEW p \in PairIds, Revoke(p) \/ Unlock(p) \/ UpdatePair(p)
      PROVE  QuietStep
  <2>0. pairs[p] \in Pair
    BY DEF TypeOK
  <2>1. CASE Revoke(p)
    <3>1. [pairs[p] EXCEPT !.status = "revoked"].status = "revoked"
      BY <2>0 DEF Pair
    <3>2. pairs[p].status \in Statuses
      BY <2>0, <2>1 DEF Pair, Revoke, Mutate
    <3>3. StatusMove(pairs[p].status, "revoked")
      BY <3>2 DEF StatusMove, Statuses
    <3> QED
      BY <1>2, <2>1, <3>1, <3>3 DEF Revoke
  <2>2. CASE Unlock(p)
    <3>1. [pairs[p] EXCEPT !.status = "active", !.failedSigs = 0].status = "active"
      BY <2>0 DEF Pair
    <3> QED
      BY <1>2, <2>2, <3>1 DEF Unlock, StatusMove
  <2>3. CASE UpdatePair(p)
    <3>1. \A s, e, m : [pairs[p] EXCEPT !.scope = s, !.expiresAt = e,
                                        !.maxRequests = m].status = pairs[p].status
      BY <2>0 DEF Pair
    <3>2. PICK s, e, m : Mutate(p, [pairs[p] EXCEPT !.scope = s, !.expiresAt = e,
                                                    !.maxRequests = m])
      BY <2>3, Zenon DEF UpdatePair
    <3>3. StatusMove(pairs[p].status, [pairs[p] EXCEPT !.scope = s, !.expiresAt = e,
                                                       !.maxRequests = m].status)
      BY <3>1 DEF StatusMove
    <3> QED
      BY <1>2, <3>2, <3>3
  <2> QED
    BY <1>3, <2>1, <2>2, <2>3
<1>4. ASSUME NEW p \in PairIds, NEW i \in Ips, ClearShadow(p, i) PROVE QuietStep
  BY <1>4, SamePairsMove DEF ClearShadow
<1>5. ASSUME Tick PROVE QuietStep
  BY <1>5, SamePairsMove DEF Tick
<1> QED
  BY <1>3, <1>4, <1>5

LEMMA OperatorMove ==
  ASSUME TypeOK, NEW o \in Operators, OperatorStep(o)
  PROVE  PairStep
<1>1. CASE UNCHANGED storeVars
  BY <1>1, SamePairsMove DEF PairStep
<1>2. ASSUME NEW new \in PairIds, CommitApprove(o, new) PROVE PairStep
  <2>1. CASE StillPending(o) /\ Cardinality(ActivePairs) < MaxActive
    <3>1. opKey[o] \in Tokens /\ opSnap[o] \in Registration
      BY <1>2, ConfigAssumption DEF CommitApprove, TypeOK
    <3>2. opSnap[o] # Spent
      BY <3>1 DEF Registration, Spent, Unissued, Kinds
    <3>3. NewPair(opSnap[o]).status = "active"
      BY DEF NewPair
    <3>4. ApproveStep(new, opKey[o])
      BY <1>2, <2>1, <3>1, <3>2, <3>3 DEF CommitApprove, StillPending, ApproveStep, TypeOK
    <3> QED
      BY <3>1, <3>4 DEF PairStep
  <2> QED
    BY <1>1, <1>2, <2>1 DEF CommitApprove
<1>3. ASSUME NEW new \in PairIds, CommitRotate(o, new) PROVE PairStep
  <2>1. CASE pairs[opKey[o]] = opSnap[o] /\ pairs[opKey[o]].status = "active"
    <3> DEFINE old == opKey[o]
    <3>1. old \in PairIds /\ pairs[old] \in Pair /\ pairs[new].status = "absent" /\ old # new
      BY <1>3, <2>1 DEF CommitRotate, TypeOK
    <3>2. [pairs[old] EXCEPT !.status = "rotated"].status = "rotated"
      BY <3>1 DEF Pair
    <3>3. NewPair(opSnap[o]).status = "active"
      BY DEF NewPair
    <3>4. RotateStep(new, old)
      BY <1>3, <2>1, <3>1, <3>2, <3>3 DEF CommitRotate, RotateStep, TypeOK
    <3> QED
      BY <3>1, <3>4 DEF PairStep
  <2> QED
    BY <1>1, <1>3, <2>1 DEF CommitRotate
<1>4. ASSUME NEW t \in Tokens, SetPending(o, t) PROVE PairStep
  <2>1. Unissued # Spent
    BY DEF Unissued, Spent
  <2>2. QuietStep
    BY <1>4, <2>1 DEF SetPending, QuietStep, StatusMove, TypeOK
  <2> QED
    BY <2>2 DEF PairStep
<1> QED
  BY <1>1, <1>2, <1>3, <1>4 DEF OperatorStep, BeginRequest, BeginApprove, BeginRotate

\* Every step moves statuses, approves one token or rotates one pair.
LEMMA NextMove == TypeOK /\ [Next]_vars => PairStep
<1> SUFFICES ASSUME TypeOK, [Next]_vars PROVE PairStep
  OBVIOUS
<1>1. CASE UNCHANGED vars
  BY <1>1, SamePairsMove DEF vars, PairStep
<1> QED
  BY <1>1, RequestMove, AdminMove, OperatorMove DEF Next, PairStep

\* A revoked, rotated or expired pair is never usable again, whichever delayed
\* writer reaches the store after it (registry.ts and memory-store.ts mutate
\* the current record under the lock, never the one they read).
THEOREM TerminalIsTerminal == Spec => TerminalStaysTerminal
<1>1. TypeOK /\ [Next]_vars => [\A p \in PairIds : KeepsTerminal(p)]_vars
  BY NextMove DEF PairStep, QuietStep, ApproveStep, RotateStep, StatusMove, KeepsTerminal
<1> QED
  BY <1>1, TypeCorrect, PTL DEF Spec, TerminalStaysTerminal

-----------------------------------------------------------------------------
(* One registration, one usable credential.                                *)

\* An identity not in use descends from nothing; a token that has a descendant
\* is spent; a descendant of a pair implies that pair was there.
Descent ==
  \A p \in PairIds :
    /\ pairs[p].status = "absent" => origin[p] = p
    /\ origin[p] \in Tokens => pending[origin[p]] = Spent
    /\ origin[p] \in PairIds /\ origin[p] # p => pairs[origin[p]].status # "absent"

DescentInv == TypeOK /\ Descent /\ OneLivePairPerRegistration

LEMMA DescentStep == DescentInv /\ PairStep /\ TypeOK' => DescentInv'
<1> SUFFICES ASSUME DescentInv, PairStep, TypeOK' PROVE DescentInv'
  OBVIOUS
<1> USE DEF DescentInv
<1>0. /\ origin \in [PairIds -> PairIds \cup Tokens]
      /\ origin' \in [PairIds -> PairIds \cup Tokens]
      /\ DOMAIN pending = Tokens
      /\ PairIds \cap Tokens = {}
  BY ConfigAssumption DEF TypeOK
<1>1. CASE QuietStep
  <2>1. Descent'
    BY <1>0, <1>1 DEF QuietStep, StatusMove, Descent
  <2>2. OneLivePairPerRegistration'
    BY <1>1 DEF QuietStep, StatusMove, OneLivePairPerRegistration, Live
  <2> QED
    BY <2>1, <2>2
<1>2. ASSUME NEW new \in PairIds, NEW t \in Tokens, ApproveStep(new, t) PROVE DescentInv'
  <2>1. \A p \in PairIds : origin[p] # t
    BY <1>2 DEF ApproveStep, Descent
  <2>2. Descent'
    BY <1>0, <1>2 DEF ApproveStep, Descent
  <2>3. OneLivePairPerRegistration'
    BY <1>0, <1>2, <2>1 DEF ApproveStep, OneLivePairPerRegistration, Live
  <2> QED
    BY <2>2, <2>3
<1>3. ASSUME NEW new \in PairIds, NEW old \in PairIds, RotateStep(new, old) PROVE DescentInv'
  <2>1. Descent'
    BY <1>0, <1>3 DEF RotateStep, Descent
  <2>2. OneLivePairPerRegistration'
    BY <1>0, <1>3 DEF RotateStep, OneLivePairPerRegistration, Live
  <2> QED
    BY <2>1, <2>2
<1> QED
  BY <1>1, <1>2, <1>3 DEF PairStep

\* Two approvals of one token, or rotations racing each other, a claim or a
\* lock, never leave two usable pairs of one registration (approvePending and
\* rotatePair of memory-store.ts compare with the record they were built from).
THEOREM OneLivePair == Spec => []OneLivePairPerRegistration
<1>1. Init => DescentInv
  <2> SUFFICES ASSUME Init PROVE DescentInv
    OBVIOUS
  <2>1. TypeOK
    BY InitType
  <2>2. Descent
    BY ConfigAssumption DEF Init, Descent
  <2>3. OneLivePairPerRegistration
    BY DEF Init, OneLivePairPerRegistration
  <2> QED
    BY <2>1, <2>2, <2>3 DEF DescentInv
<1>2. DescentInv /\ [Next]_vars => DescentInv'
  BY NextMove, NextType, DescentStep DEF DescentInv
<1>3. DescentInv => OneLivePairPerRegistration
  BY DEF DescentInv
<1> QED
  BY <1>1, <1>2, <1>3, PTL DEF Spec

-----------------------------------------------------------------------------
(* Authorization by the policy in force.                                   *)

\* A request that passed the checks holds what it was checked against.
Checked ==
  \A r \in Requests :
    /\ pc[r] \in {"consume", "claim"} =>
         valid[r] /\ cred[r].method \in AllowedMethods(snap[r].scope)
    /\ pc[r] = "claim" => snap[r].kind = "legitimate"

CheckedInv == TypeOK /\ Checked

LEMMA CheckedStep == CheckedInv /\ [Next]_vars => Checked'
<1> SUFFICES ASSUME CheckedInv, [Next]_vars PROVE Checked'
  OBVIOUS
<1> USE DEF CheckedInv, Goto
<1>1. CASE UNCHANGED <<pc, valid, cred, snap>>
  BY <1>1 DEF Checked
<1>2. ASSUME NEW r \in Requests,
             \A q \in Requests \ {r} : /\ pc'[q] = pc[q] /\ valid'[q] = valid[q]
                                       /\ cred'[q] = cred[q] /\ snap'[q] = snap[q],
             pc'[r] \notin {"consume", "claim"}
      PROVE  Checked'
  BY <1>2 DEF Checked
<1>3. ASSUME NEW r \in Requests, Verify(r) PROVE Checked'
  BY <1>3 DEF Verify, InScope, Checked, TypeOK
<1>4. ASSUME NEW r \in Requests, Consume(r) PROVE Checked'
  <2>1. snap[r].kind \in {"legitimate", "ghost"}
    BY DEF TypeOK, Policies, Kinds
  <2> QED
    BY <1>4, <2>1 DEF Consume, TrapSprung, Checked, TypeOK
<1>5. ASSUME NEW r \in Requests,
             \/ \E c \in Credentials, ok \in BOOLEAN, i \in Ips : Receive(r, c, ok, i)
             \/ LookUp(r) \/ EnsureLocked(r) \/ MarkExpired(r) \/ MarkUsageExpired(r)
             \/ Verdict(r)
      PROVE Checked'
  <2>2. \A q \in Requests \ {r} : /\ pc'[q] = pc[q] /\ valid'[q] = valid[q]
                                  /\ cred'[q] = cred[q] /\ snap'[q] = snap[q]
    BY <1>5 DEF Receive, LookUp, EnsureLocked, MarkExpired, MarkUsageExpired, Expire,
                Verdict, TypeOK
  <2>3. pc'[r] \notin {"consume", "claim"}
    BY <1>5 DEF Receive, LookUp, EnsureLocked, MarkExpired, MarkUsageExpired, Expire,
                Verdict, TypeOK
  <2> QED
    BY <1>2, <2>2, <2>3
<1>6. ASSUME NEW r \in Requests,
             RecordSigFailure(r) \/ RecordFailure(r) \/ ApplyFailure(r) \/ Claim(r) \/ ClearTracker(r)
      PROVE Checked'
  <2>1. \A q \in Requests \ {r} : /\ pc'[q] = pc[q] /\ valid'[q] = valid[q]
                                  /\ cred'[q] = cred[q] /\ snap'[q] = snap[q]
    BY <1>6 DEF RecordSigFailure, RecordFailure, ApplyFailure, Claim, ClearTracker, TypeOK
  <2>2. pc'[r] \notin {"consume", "claim"}
    BY <1>6 DEF RecordSigFailure, RecordFailure, ApplyFailure, Claim, ClearTracker, TypeOK
  <2> QED
    BY <1>2, <2>1, <2>2
<1>7. ASSUME NEW r \in Requests, RequestStep(r) PROVE Checked'
  BY <1>3, <1>4, <1>5, <1>6, <1>7 DEF RequestStep
<1>8. ASSUME NEW o \in Operators, OperatorStep(o) PROVE Checked'
  BY <1>1, <1>8 DEF OperatorStep, BeginRequest, SetPending, BeginApprove, BeginRotate, CommitApprove, CommitRotate, reqVars
<1>9. CASE \/ \E p \in PairIds : Revoke(p) \/ Unlock(p) \/ UpdatePair(p)
           \/ \E p \in PairIds, i \in Ips : ClearShadow(p, i)
           \/ Tick
  BY <1>1, <1>9 DEF Revoke, Unlock, UpdatePair, Mutate, ClearShadow, Tick, reqVars
<1>10. CASE UNCHANGED vars
  BY <1>1, <1>10 DEF vars, reqVars
<1> QED
  BY <1>7, <1>8, <1>9, <1>10 DEF Next

\* Only its claim moves a request out of the claim.
LEMMA LeavesClaim ==
  ASSUME TypeOK, [Next]_vars, NEW r \in Requests, pc[r] = "claim", pc'[r] # "claim"
  PROVE  Claim(r)
<1> USE DEF Goto
<1>1. pc' # pc
  OBVIOUS
<1>2. \E q \in Requests : RequestStep(q)
  BY <1>1 DEF Next, OperatorStep, BeginRequest, SetPending, BeginApprove, BeginRotate, CommitApprove, CommitRotate,
              Revoke, Unlock, UpdatePair, Mutate, ClearShadow, Tick, vars, reqVars
<1>3. PICK q \in Requests : RequestStep(q)
  BY <1>2
<1>4. q = r
  BY <1>3 DEF RequestStep, Receive, LookUp, EnsureLocked, MarkExpired, MarkUsageExpired,
              Expire, Verdict, Verify, RecordSigFailure, RecordFailure, ApplyFailure, Consume, Claim,
              ClearTracker, TypeOK
<1> QED
  BY <1>3, <1>4 DEF RequestStep, Receive, LookUp, EnsureLocked, MarkExpired, MarkUsageExpired,
              Expire, Verdict, Verify, RecordSigFailure, RecordFailure, ApplyFailure, Consume, ClearTracker

\* A use is granted by the pair as it is at the claim, although the request
\* was verified against a snapshot taken several awaits earlier
\* (claimSuccessfulUse compares the two under the store's lock).
THEOREM CurrentPolicyAuthorizes == Spec => AuthorizedByCurrentPolicy
<1>1. Init => CheckedInv
  BY InitType DEF Init, CheckedInv, Checked
<1>2. CheckedInv /\ [Next]_vars => CheckedInv'
  BY CheckedStep, NextType DEF CheckedInv
<1>3. CheckedInv /\ [Next]_vars => [\A r \in Requests : GrantedByCurrentPolicy(r)]_vars
  <2> SUFFICES ASSUME CheckedInv, [Next]_vars, NEW r \in Requests,
                      pc[r] = "claim", pc'[r] = "clear"
               PROVE  GrantedByCurrentPolicy(r)
    BY DEF GrantedByCurrentPolicy
  <2> DEFINE pair == pairs[cred[r].pair]
  <2>1. Claim(r)
    BY LeavesClaim DEF CheckedInv
  <2>2. ClaimOutcome(pair, clock, snap[r]) = "claimed"
    BY <2>1 DEF Claim, Goto, CheckedInv, TypeOK
  <2>3. /\ pair.status = "active" /\ ~Elapsed(pair, clock) /\ ~Exhausted(pair)
        /\ Policy(pair) = snap[r]
    BY <2>2 DEF ClaimOutcome
  <2>4. pair.scope = snap[r].scope /\ pair.kind = snap[r].kind
    BY <2>3 DEF Policy
  <2> QED
    BY <2>3, <2>4 DEF GrantedByCurrentPolicy, CheckedInv, Checked
<1> QED
  BY <1>1, <1>2, <1>3, PTL DEF Spec, AuthorizedByCurrentPolicy

-----------------------------------------------------------------------------
(* The usage counter.                                                      *)

\* The requests whose use of pair p the store has claimed.
Uses(p) == {r \in Claimed : cred[r].pair = p}

\* An identity not in use has no uses, which is what NewPair starts from.
AbsentUnused == \A p \in PairIds : pairs[p].status = "absent" => pairs[p].requests = 0

UseInv == TypeOK /\ AbsentUnused /\ UseAccounting

\* No counter moves.
CountersKept == \A p \in PairIds : pairs'[p].requests = pairs[p].requests

\* No request enters or leaves the claimed ones, and those keep their pair.
ClaimsKept ==
  \A r \in Requests : /\ r \in Claimed <=> pc'[r] \in {"clear", "accepted"}
                      /\ r \in Claimed => cred'[r] = cred[r]

LEMMA FailureKeepsUses ==
  ASSUME NEW pair \in Pair, NEW failures \in Nat
  PROVE  AfterFailure(pair, failures).requests = pair.requests
BY DEF AfterFailure, Pair

\* The claim counts one use exactly when it grants it.
LEMMA ClaimCounts ==
  ASSUME NEW pair \in Pair, NEW at, NEW expected
  PROVE  AfterClaim(pair, at, expected).requests =
           IF ClaimOutcome(pair, at, expected) = "claimed"
           THEN pair.requests + 1 ELSE pair.requests
<1> DEFINE used == [pair EXCEPT !.requests = @ + 1, !.failedSigs = 0,
                                !.cumulativeFailures = 0]
           status == IF Exhausted(used) THEN "expired" ELSE "active"
           outcome == ClaimOutcome(pair, at, expected)
<1>1. CASE outcome = "claimed"
  <2>1. AfterClaim(pair, at, expected) = [used EXCEPT !.status = status]
    BY <1>1, Zenon DEF AfterClaim
  <2>2. used.requests = pair.requests + 1
    BY DEF Pair
  <2>3. [used EXCEPT !.status = status].requests = used.requests
    BY DEF Pair
  <2> HIDE DEF used
  <2> QED
    BY <1>1, <2>1, <2>2, <2>3
<1>2. CASE outcome # "claimed"
  <2>1. AfterClaim(pair, at, expected) \in {[pair EXCEPT !.status = "expired"], pair}
    BY <1>2, Zenon DEF AfterClaim
  <2>2. [pair EXCEPT !.status = "expired"].requests = pair.requests
    BY DEF Pair
  <2> QED
    BY <1>2, <2>1, <2>2
<1> QED
  BY <1>1, <1>2

\* A write to one pair that leaves its counter alone.
LEMMA OnePairKeeps ==
  ASSUME TypeOK, NEW p \in PairIds, NEW rec,
         pairs' = [pairs EXCEPT ![p] = rec], rec.requests = pairs[p].requests
  PROVE  CountersKept
BY DEF TypeOK, CountersKept

\* A request other than one at its claim counts nothing.
LEMMA RequestKeeps ==
  ASSUME TypeOK, NEW r \in Requests, RequestStep(r), ~Claim(r)
  PROVE  CountersKept /\ ClaimsKept
<1> DEFINE id == cred[r].pair
<1>0. id \in PairIds /\ pairs[id] \in Pair /\ ipFails[r] \in Nat
  BY ConfigAssumption DEF TypeOK
<1>s. ASSUME NEW s \in Statuses
      PROVE  [pairs[id] EXCEPT !.status = s].requests = pairs[id].requests
  BY <1>0 DEF Pair
<1>1. CountersKept
  <2>1. CASE UNCHANGED pairs
    BY <2>1 DEF CountersKept
  <2>2. CASE pairs' # pairs /\ EnsureLocked(r)
    <3>1. pairs' = [pairs EXCEPT ![id] = [pairs[id] EXCEPT !.status = "locked"]]
      BY <1>0, <2>2 DEF EnsureLocked, TypeOK
    <3> QED
      BY <1>0, <1>s, <3>1, OnePairKeeps DEF Statuses
  <2>3. ASSUME pairs' # pairs, NEW step, NEW due, Expire(r, step, due) PROVE CountersKept
    <3>1. pairs' = [pairs EXCEPT ![id] = [pairs[id] EXCEPT !.status = "expired"]]
      BY <1>0, <2>3 DEF Expire, TypeOK
    <3> QED
      BY <1>0, <1>s, <3>1, OnePairKeeps DEF Statuses
  <2>4. CASE pairs' # pairs /\ ApplyFailure(r)
    <3>1. pairs' = [pairs EXCEPT ![id] = AfterFailure(pairs[id], ipFails[r])]
      BY <1>0, <2>4 DEF ApplyFailure, TypeOK
    <3> QED
      BY <1>0, <3>1, FailureKeepsUses, OnePairKeeps
  <2> QED
    BY <2>1, <2>2, <2>3, <2>4 DEF RequestStep, MarkExpired, MarkUsageExpired, Receive, LookUp,
      Verdict, Verify, RecordSigFailure, RecordFailure, Consume, ClearTracker, storeVars
<1>2. ClaimsKept
  <2>1. \A q \in Requests \ {r} : pc'[q] = pc[q] /\ cred'[q] = cred[q]
    BY DEF RequestStep, Receive, LookUp, EnsureLocked, MarkExpired, MarkUsageExpired, Expire,
           Verdict, Verify, RecordSigFailure, RecordFailure, ApplyFailure, Consume,
           ClearTracker, Goto, TypeOK
  <2>2. CASE \E c \in Credentials, ok \in BOOLEAN, i \in Ips : Receive(r, c, ok, i)
    <3>1. pc[r] = "idle" /\ pc'[r] \in {"lookup", "denied"}
      BY <2>2 DEF Receive, Goto, TypeOK
    <3> QED
      BY <2>1, <3>1 DEF ClaimsKept, Claimed
  <2>3. CASE ~\E c \in Credentials, ok \in BOOLEAN, i \in Ips : Receive(r, c, ok, i)
    <3>1. cred'[r] = cred[r]
      BY <2>3 DEF RequestStep, LookUp, EnsureLocked, MarkExpired, MarkUsageExpired, Expire,
           Verdict, Verify, RecordSigFailure, RecordFailure, ApplyFailure, Consume, ClearTracker
    <3>2. pc[r] \in {"clear", "accepted"} <=> pc'[r] \in {"clear", "accepted"}
      BY <2>3 DEF RequestStep, LookUp, EnsureLocked, MarkExpired, MarkUsageExpired, Expire,
           Verdict, Verify, RecordSigFailure, RecordFailure, ApplyFailure, Consume,
           ClearTracker, Goto, TypeOK
    <3> QED
      BY <2>1, <3>1, <3>2 DEF ClaimsKept, Claimed
  <2> QED
    BY <2>2, <2>3
<1> QED
  BY <1>1, <1>2

\* An operator, an approval or a rotation neither counts nor forgets a use: a
\* new pair takes an identity that had none.
LEMMA OthersKeep ==
  ASSUME TypeOK, AbsentUnused, [Next]_vars, ~\E r \in Requests : RequestStep(r)
  PROVE  CountersKept /\ UNCHANGED <<pc, cred>>
<1>1. CASE UNCHANGED vars
  BY <1>1 DEF vars, storeVars, reqVars, CountersKept
<1>2. ASSUME NEW o \in Operators, OperatorStep(o)
      PROVE  CountersKept /\ UNCHANGED <<pc, cred>>
  <2>1. UNCHANGED <<pc, cred>>
    BY <1>2 DEF OperatorStep, BeginRequest, SetPending, BeginApprove, BeginRotate,
                CommitApprove, CommitRotate, reqVars
  <2>2. CASE UNCHANGED pairs
    BY <2>1, <2>2 DEF CountersKept
  <2>n. NewPair(opSnap[o]).requests = 0
    BY DEF NewPair
  <2>3. ASSUME pairs' # pairs, NEW new \in PairIds, CommitApprove(o, new)
        PROVE  CountersKept
    <3>1. pairs' = [pairs EXCEPT ![new] = NewPair(opSnap[o])] /\ pairs[new].status = "absent"
      BY <2>3 DEF CommitApprove, storeVars
    <3> QED
      BY <2>n, <3>1, OnePairKeeps DEF AbsentUnused
  <2>4. ASSUME pairs' # pairs, NEW new \in PairIds, CommitRotate(o, new)
        PROVE  CountersKept
    <3> DEFINE old == opKey[o]
    <3>1. /\ pairs[new].status = "absent" /\ pairs[old].status = "active"
          /\ pairs' = [pairs EXCEPT ![old].status = "rotated", ![new] = NewPair(opSnap[o])]
      BY <2>4 DEF CommitRotate, storeVars
    <3>2. old \in PairIds /\ old # new /\ pairs[old] \in Pair
      BY <2>4, <3>1 DEF CommitRotate, TypeOK
    <3>3. [pairs[old] EXCEPT !.status = "rotated"].requests = pairs[old].requests
      BY <3>2 DEF Pair
    <3>4. pairs'[new] = NewPair(opSnap[o])
      BY <3>1 DEF TypeOK
    <3>5. pairs'[old] = [pairs[old] EXCEPT !.status = "rotated"]
      BY <3>1, <3>2 DEF TypeOK
    <3>6. \A p \in PairIds \ {new, old} : pairs'[p] = pairs[p]
      BY <3>1 DEF TypeOK
    <3>7. pairs[new].requests = 0
      BY <3>1 DEF AbsentUnused
    <3> HIDE DEF old
    <3> QED
      BY <2>n, <3>3, <3>4, <3>5, <3>6, <3>7 DEF CountersKept
  <2> QED
    BY <1>2, <2>1, <2>2, <2>3, <2>4 DEF OperatorStep, BeginRequest, SetPending, BeginApprove,
                                        BeginRotate, storeVars
<1>3. ASSUME NEW p \in PairIds, Revoke(p) \/ Unlock(p) \/ UpdatePair(p)
      PROVE  CountersKept /\ UNCHANGED <<pc, cred>>
  <2>0. pairs[p] \in Pair
    BY DEF TypeOK
  <2>1. ASSUME NEW rec, Mutate(p, rec), rec.requests = pairs[p].requests
        PROVE  CountersKept /\ UNCHANGED <<pc, cred>>
    BY <2>1, OnePairKeeps DEF Mutate, reqVars
  <2>2. CASE Revoke(p)
    <3>1. [pairs[p] EXCEPT !.status = "revoked"].requests = pairs[p].requests
      BY <2>0 DEF Pair
    <3> QED
      BY <2>1, <2>2, <3>1 DEF Revoke
  <2>3. CASE Unlock(p)
    <3>1. [pairs[p] EXCEPT !.status = "active", !.failedSigs = 0].requests = pairs[p].requests
      BY <2>0 DEF Pair
    <3> QED
      BY <2>1, <2>3, <3>1 DEF Unlock
  <2>4. CASE UpdatePair(p)
    <3>1. \A s, e, m : [pairs[p] EXCEPT !.scope = s, !.expiresAt = e,
                                        !.maxRequests = m].requests = pairs[p].requests
      BY <2>0 DEF Pair
    <3>2. PICK s, e, m : Mutate(p, [pairs[p] EXCEPT !.scope = s, !.expiresAt = e,
                                                    !.maxRequests = m])
      BY <2>4, Zenon DEF UpdatePair
    <3> QED
      BY <2>1, <3>1, <3>2
  <2> QED
    BY <1>3, <2>2, <2>3, <2>4
<1>4. CASE Tick \/ \E p \in PairIds, i \in Ips : ClearShadow(p, i)
  BY <1>4 DEF Tick, ClearShadow, storeVars, reqVars, CountersKept
<1> QED
  BY <1>1, <1>2, <1>3, <1>4 DEF Next

\* No step takes an identity out of use.
LEMMA StaysUnused ==
  ASSUME UseInv, TypeOK', PairStep, \A p \in PairIds :
           pairs'[p].status = "absent" => pairs'[p].requests = pairs[p].requests
  PROVE  AbsentUnused'
BY DEF UseInv, AbsentUnused, PairStep, QuietStep, StatusMove, ApproveStep, RotateStep

LEMMA UsesKept ==
  ASSUME UseInv, TypeOK', PairStep, CountersKept, ClaimsKept
  PROVE  UseInv'
<1>1. \A p \in PairIds : Uses(p)' = Uses(p)
  BY DEF Uses, Claimed, ClaimsKept
<1>2. UseAccounting'
  BY <1>1 DEF UseInv, UseAccounting, CountersKept, Uses
<1> QED
  BY <1>2, StaysUnused DEF UseInv, CountersKept

\* A claim adds its request to the claimed ones and one to the counter of its
\* pair, or does neither.
LEMMA ClaimKeepsAccount ==
  ASSUME UseInv, TypeOK', PairStep, NEW r \in Requests, Claim(r)
  PROVE  UseInv'
<1>0. PICK id \in PairIds : id = cred[r].pair
  BY ConfigAssumption DEF UseInv, TypeOK
<1> DEFINE claimed == ClaimOutcome(pairs[id], clock, snap[r]) = "claimed"
<1>t. pairs[id] \in Pair /\ pairs[id].requests \in Nat
  BY DEF UseInv, TypeOK, Pair
<1>1. /\ pc[r] = "claim" /\ cred' = cred
      /\ pc'[r] = IF claimed THEN "clear" ELSE "denied"
      /\ \A q \in Requests \ {r} : pc'[q] = pc[q]
  BY <1>0 DEF Claim, Goto, UseInv, TypeOK
<1>2. /\ pairs'[id] = AfterClaim(pairs[id], clock, snap[r])
      /\ \A p \in PairIds \ {id} : pairs'[p] = pairs[p]
  BY <1>0 DEF Claim, UseInv, TypeOK
<1>3. pairs'[id].requests = IF claimed THEN pairs[id].requests + 1 ELSE pairs[id].requests
  BY <1>t, <1>2, ClaimCounts
<1>4. CASE ~claimed
  <2>1. CountersKept
    BY <1>2, <1>3, <1>4 DEF CountersKept
  <2>2. ClaimsKept
    BY <1>1, <1>4 DEF ClaimsKept, Claimed
  <2> QED
    BY <2>1, <2>2, UsesKept
<1>5. CASE claimed
  <2>1. \A p \in PairIds \ {id} : Uses(p)' = Uses(p)
    BY <1>0, <1>1 DEF Uses, Claimed
  <2>2. Uses(id)' = Uses(id) \cup {r} /\ r \notin Uses(id)
    BY <1>0, <1>1, <1>5 DEF Uses, Claimed
  <2>3. Cardinality(Uses(id) \cup {r}) = Cardinality(Uses(id)) + 1
    <3>1. Uses(id) \in SUBSET Requests
      BY DEF Uses, Claimed
    <3>2. IsFiniteSet(Uses(id))
      BY <3>1, RequestsAssumption, FS_Subset
    <3> QED
      BY <2>2, <3>2, FS_AddElement
  <2>4. ASSUME NEW p \in PairIds PROVE pairs'[p].requests = Cardinality(Uses(p)')
    <3>1. pairs[p].requests = Cardinality(Uses(p))
      BY DEF UseInv, UseAccounting, Uses
    <3>2. CASE p = id
      BY <1>3, <1>5, <2>2, <2>3, <3>1, <3>2
    <3>3. CASE p # id
      BY <1>2, <2>1, <3>1, <3>3
    <3> QED
      BY <3>2, <3>3
  <2>5. UseAccounting'
    BY <2>4 DEF UseAccounting, Uses
  <2>6. pairs'[id].status # "absent"
    <3>1. pairs[id].status # "absent"
      BY <1>5 DEF ClaimOutcome
    <3> QED
      BY <3>1 DEF PairStep, QuietStep, StatusMove, ApproveStep, RotateStep
  <2> QED
    BY <1>2, <2>5, <2>6, StaysUnused DEF UseInv
<1> QED
  BY <1>4, <1>5

\* The counter that maxRequests is enforced against equals the number of uses
\* granted on the pair, for any number of concurrent calls, failures, updates,
\* revocations, approvals and rotations (claimSuccessfulUse counts under the
\* store's lock, and every other writer mutates the record it finds there).
THEOREM UsesAreCounted == Spec => []UseAccounting
<1>1. Init => UseInv
  <2> SUFFICES ASSUME Init PROVE UseInv
    OBVIOUS
  <2>1. \A p \in PairIds : pairs[p].requests = 0
    BY DEF Init, NewPair, Absent
  <2>2. \A p \in PairIds : Uses(p) = {}
    BY DEF Init, Uses, Claimed
  <2>3. UseAccounting
    BY <2>1, <2>2, FS_EmptySet DEF UseAccounting, Uses
  <2> QED
    BY <2>1, <2>3, InitType DEF UseInv, AbsentUnused
<1>2. UseInv /\ [Next]_vars => UseInv'
  <2> SUFFICES ASSUME UseInv, [Next]_vars PROVE UseInv'
    OBVIOUS
  <2>1. TypeOK' /\ PairStep
    BY NextType, NextMove DEF UseInv
  <2>2. ASSUME NEW r \in Requests, RequestStep(r), ~Claim(r) PROVE UseInv'
    BY <2>1, <2>2, RequestKeeps, UsesKept DEF UseInv
  <2>3. ASSUME NEW r \in Requests, Claim(r) PROVE UseInv'
    BY <2>1, <2>3, ClaimKeepsAccount
  <2>4. CASE ~\E r \in Requests : RequestStep(r)
    <3>1. CountersKept /\ UNCHANGED <<pc, cred>>
      BY <2>4, OthersKeep DEF UseInv
    <3>2. ClaimsKept
      BY <3>1 DEF ClaimsKept, Claimed
    <3> QED
      BY <2>1, <3>1, <3>2, UsesKept
  <2> QED
    BY <2>2, <2>3, <2>4
<1>3. UseInv => UseAccounting
  BY DEF UseInv
<1> QED
  BY <1>1, <1>2, <1>3, PTL DEF Spec

=============================================================================
