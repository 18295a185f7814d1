------------------------------ MODULE PairVerifier ------------------------------
(***************************************************************************)
(* The request verifier of the BPC server and the pair authority it reads  *)
(* and writes.                                                             *)
(*                                                                         *)
(* Several calls of verifyBPCRequest (middleware.ts) are in flight at the  *)
(* same time.  Each one is a chain of asynchronous steps; between two      *)
(* steps other calls, operators (revoke, unlock, updatePair, approval),    *)
(* key rotations and the clock move on.  One action below is one stretch   *)
(* of code between two awaits.  The store is the AtomicPairStore           *)
(* implemented by MemoryPairStore: every store operation runs under one    *)
(* exclusive lock and is a single step, and no time passes while it is     *)
(* queued.  An entry into shadow state right after such an operation is    *)
(* part of its action.                                                     *)
(*                                                                         *)
(* Time is counted in abstract ticks.  The model's horizon MaxTime is      *)
(* shorter than IP_FAILURE_WINDOW_MS (five minutes, where one minute is    *)
(* the signature window), so inside it no failure window expires and no    *)
(* cumulative score decays; module FailureLockout models those.            *)
(*                                                                         *)
(* Shadow mode and tarpit are enabled (the defaults) and the address of a  *)
(* request is known.  The optional collaborators enter as choices: a rate  *)
(* limiter, the global threat score or the continuity guard may deny a     *)
(* request at its step.  Audit writes, delays, response metadata, and the  *)
(* name, mode, key, secret and canary class of a pair are left out.        *)
(***************************************************************************)
EXTENDS Integers, FiniteSets

CONSTANTS
  PairIds,       \* the identities generateId('pair') hands out
  Seeded,        \* registrations of the pairs approved before the model starts
  Tokens,        \* approval tokens of pending registrations
  Registrations, \* what a client may ask to register
  Requests,      \* the calls of verifyBPCRequest
  Operators,     \* concurrent registration, approval and rotation handlers
  Credentials,   \* the requests clients signed: [nonce, pair, ts, method]
  Ips,           \* source addresses
  NewScopes,     \* values updatePair may write to scope,
  NewExpiries,   \*   to expiresAt
  NewCaps,       \*   and to maxRequests
  Never,         \* expiresAt is undefined
  SigWindow,     \* config.sigWindowMs
  Retention,     \* ServerNonceStore.windowMs, the ttl of a consumed nonce
  MaxNonces,     \* MAX_NONCE_ENTRIES
  EvictCount,    \* ceil(MAX_NONCE_ENTRIES * 0.1)
  MaxStall,      \* longest time from the freshness check to the consumption
  CfgLockout,    \* config.lockoutCount of the middleware
  RegLockout,    \* lockoutCount of the registry
  ShadowAt,      \* SHADOW_SIG_FAIL_THRESHOLD
  MaxActive,     \* maxPairs of the registry
  FailureWindow, \* IP_FAILURE_WINDOW_MS
  MaxTime        \* bound on the clock

Scopes   == {"read", "read-write", "admin"}
Kinds    == {"legitimate", "ghost"}
Statuses == {"active", "locked", "expired", "rotated", "revoked"}

SafeMethods == {"GET", "HEAD", "OPTIONS"}
Methods     == SafeMethods \cup {"POST", "PUT", "PATCH", "DELETE"}

AllowedMethods(scope) ==
  CASE scope = "read"       -> SafeMethods
    [] scope = "read-write" -> Methods \ {"DELETE"}
    [] scope = "admin"      -> Methods

Registration == [scope: Scopes, expiresAt: Nat \cup {Never},
                 maxRequests: Nat, kind: Kinds]

Nonces == {c.nonce : c \in Credentials}

ASSUME ConfigAssumption ==
  /\ Never \notin Nat
  /\ PairIds # {} /\ Credentials # {} /\ Ips # {}
  /\ Registrations \subseteq Registration
  /\ DOMAIN Seeded \subseteq PairIds
  /\ \A p \in DOMAIN Seeded : Seeded[p] \in Registration
  /\ PairIds \cap Tokens = {}
  /\ \A c \in Credentials : c.pair \in PairIds /\ c.ts \in Nat /\ c.method \in Methods
  /\ NewScopes \subseteq Scopes
  /\ NewExpiries \subseteq Nat \cup {Never}
  /\ NewCaps \subseteq Nat
  /\ SigWindow \in Nat \ {0} /\ Retention \in Nat \ {0} /\ MaxStall \in Nat
  /\ MaxNonces \in Nat \ {0} /\ EvictCount \in 1..MaxNonces
  /\ CfgLockout \in Nat \ {0} /\ RegLockout \in Nat \ {0}
  /\ ShadowAt \in Nat \ {0} /\ MaxActive \in Nat \ {0}
  /\ MaxTime \in Nat /\ FailureWindow \in Nat /\ MaxTime < FailureWindow

\* A nonce is a random UUID that its client signs once, in one request.
ASSUME NonceAssumption ==
  \A c, d \in Credentials : c.nonce = d.nonce => c = d

\* A server answers finitely many calls.
ASSUME RequestsAssumption == IsFiniteSet(Requests)

VARIABLES
  clock,     \* Date.now()
  pairs,     \* MemoryPairStore.pairs; status "absent" where there is none
  pending,   \* MemoryPairStore.pending; a registration, Unissued or Spent
  origin,    \* history: the registration a pair descends from
  seen,      \* MemoryNonceBackend.seen: expiry of the entry, 0 where none
  tracker,   \* PairRegistry.ipFailureTracker: failures per pair and address
  sigFails,  \* the anomaly store's ip:...:pair:...:sig_fail counters
  shadow,    \* AnomalyEngine.shadowState
  pc,        \* where a request is
  cred,      \* the credential it carries
  valid,     \* whether every cryptographic and binding check of it passes
  from,      \* its source address
  snap,      \* the AuthorizationContext it captured
  checkedAt, \* the time of its freshness check
  ipFails,   \* the failure count it captured in recordActivity
  won,       \* history: the requests that consumed their nonce
  opPc, opKey, opSnap \* the registration, approval and rotation handlers

storeVars == <<pairs, pending, origin>>
reqVars   == <<pc, cred, valid, from, snap, checkedAt, ipFails>>
anomVars  == <<tracker, sigFails, shadow>>
opVars    == <<opPc, opKey, opSnap>>
vars == <<clock, storeVars, seen, anomVars, reqVars, won, opVars>>

\* A token that was not issued yet, and one whose registration was approved
\* and deleted.  Tokens are random, so neither is ever issued again.
Unissued == [scope |-> "read", expiresAt |-> Never, maxRequests |-> 0, kind |-> "none"]
Spent    == [Unissued EXCEPT !.kind = "spent"]

Absent == [status |-> "absent", scope |-> "read", expiresAt |-> Never,
           maxRequests |-> 0, kind |-> "legitimate", requests |-> 0,
           failedSigs |-> 0, cumulativeFailures |-> 0]

Pair == [status: Statuses \cup {"absent"}, scope: Scopes,
         expiresAt: Nat \cup {Never}, maxRequests: Nat, kind: Kinds,
         requests: Nat, failedSigs: Nat, cumulativeFailures: Nat]

Policies == [status: Statuses \cup {"absent"}, scope: Scopes,
             expiresAt: Nat \cup {Never}, maxRequests: Nat, kind: Kinds]

ReqPcs == {"idle", "lookup", "ensureLocked", "markExpired", "markUsage",
           "verdict", "verify", "fail", "count", "applyFail", "consume",
           "claim", "clear", "accepted", "denied"}

TypeOK ==
  /\ clock \in Nat
  /\ pairs \in [PairIds -> Pair]
  /\ pending \in [Tokens -> Registrations \cup {Unissued, Spent}]
  /\ origin \in [PairIds -> PairIds \cup Tokens]
  /\ seen \in [Nonces -> Nat]
  /\ tracker \in [PairIds \X Ips -> Nat]
  /\ sigFails \in [PairIds \X Ips -> Nat]
  /\ shadow \subseteq PairIds \X Ips
  /\ pc \in [Requests -> ReqPcs]
  /\ cred \in [Requests -> Credentials]
  /\ valid \in [Requests -> BOOLEAN]
  /\ from \in [Requests -> Ips]
  /\ snap \in [Requests -> Policies]
  /\ checkedAt \in [Requests -> Nat]
  /\ ipFails \in [Requests -> Nat]
  /\ won \subseteq Requests
  /\ opPc \in [Operators -> {"idle", "request", "approve", "rotate"}]
  /\ opKey \in [Operators -> PairIds \cup Tokens]
  /\ opSnap \in [Operators -> Pair \cup Registrations]
  /\ \A o \in Operators :
       /\ opPc[o] = "request" => opSnap[o] \in Registrations
       /\ opPc[o] = "approve" => opKey[o] \in Tokens /\ opSnap[o] \in Registrations
       /\ opPc[o] = "rotate"  => opKey[o] \in PairIds /\ opSnap[o] \in Pair

-----------------------------------------------------------------------------
(* Operations of the atomic store on one pair.                             *)

\* A pair in its initial state, as approvePairing and handleRotation build it.
NewPair(reg) ==
  [status |-> "active", scope |-> reg.scope, expiresAt |-> reg.expiresAt,
   maxRequests |-> reg.maxRequests, kind |-> reg.kind, requests |-> 0,
   failedSigs |-> 0, cumulativeFailures |-> 0]

\* The part of a pair that successfulUsePolicyMatches compares.  The key, the
\* secret hash, the mode and the canary class of a pair never change.
Policy(pair) ==
  [status |-> pair.status, scope |-> pair.scope, expiresAt |-> pair.expiresAt,
   maxRequests |-> pair.maxRequests, kind |-> pair.kind]

Elapsed(pair, at) == pair.expiresAt # Never /\ pair.expiresAt < at

Exhausted(pair) == pair.maxRequests > 0 /\ pair.requests >= pair.maxRequests

\* Mutant: the claim trusts the snapshot of the request.
ClaimOutcomeStale(pair, at, expected) ==
  IF pair.status # "active" THEN "inactive"
  ELSE IF Elapsed(pair, at) THEN "time-expired"
  ELSE IF Exhausted(pair) THEN "usage-exhausted"
  ELSE "claimed"

\* The verdict of claimSuccessfulUse on the current record of the pair.
ClaimOutcome(pair, at, expected) ==
  IF pair.status = "absent" THEN "missing"
  ELSE IF pair.status \notin {"active", "expired"} THEN "inactive"
  ELSE IF Elapsed(pair, at) THEN "time-expired"
  ELSE IF Exhausted(pair) THEN "usage-exhausted"
  ELSE IF pair.status = "expired" THEN "inactive"
  ELSE IF Policy(pair) # expected THEN "policy-changed"
  ELSE "claimed"

\* Mutant: the counter is written from a record that was read before the other claim.
AfterClaimLost(pair, at, expected) ==
  IF ClaimOutcome(pair, at, expected) # "claimed" THEN pair
  ELSE [pair EXCEPT !.requests = 1]

\* What claimSuccessfulUse leaves in the store.
AfterClaim(pair, at, expected) ==
  LET used == [pair EXCEPT !.requests = @ + 1, !.failedSigs = 0,
                           !.cumulativeFailures = 0]
      outcome == ClaimOutcome(pair, at, expected)
  IN  IF outcome = "claimed"
      THEN [used EXCEPT !.status = IF Exhausted(used) THEN "expired" ELSE "active"]
      ELSE IF outcome \in {"time-expired", "usage-exhausted"}
      THEN [pair EXCEPT !.status = "expired"]
      ELSE pair

\* The record recordActivity(pairId, false, ip) writes for a captured count.
AfterFailure(pair, failures) ==
  LET scored == [pair EXCEPT !.failedSigs = failures,
                             !.cumulativeFailures = @ + 1]
  IN  IF /\ pair.status = "active"
         /\ \/ failures >= RegLockout
            \/ scored.cumulativeFailures >= 2 * RegLockout
      THEN [scored EXCEPT !.status = "locked"]
      ELSE scored

-----------------------------------------------------------------------------
(* The verifier: one request from its arrival to its answer.               *)

Init ==
  /\ clock = 0
  /\ pairs = [p \in PairIds |-> IF p \in DOMAIN Seeded THEN NewPair(Seeded[p]) ELSE Absent]
  /\ pending = [t \in Tokens |-> Unissued]
  /\ origin = [p \in PairIds |-> p]
  /\ seen = [n \in Nonces |-> 0]
  /\ tracker = [k \in PairIds \X Ips |-> 0]
  /\ sigFails = [k \in PairIds \X Ips |-> 0]
  /\ shadow = {}
  /\ pc = [r \in Requests |-> "idle"]
  /\ cred = [r \in Requests |-> CHOOSE c \in Credentials : TRUE]
  /\ valid = [r \in Requests |-> FALSE]
  /\ from = [r \in Requests |-> CHOOSE i \in Ips : TRUE]
  /\ snap = [r \in Requests |-> Policy(Absent)]
  /\ checkedAt = [r \in Requests |-> 0]
  /\ ipFails = [r \in Requests |-> 0]
  /\ won = {}
  /\ opPc = [o \in Operators |-> "idle"]
  /\ opKey = [o \in Operators |-> CHOOSE p \in PairIds : TRUE]
  /\ opSnap = [o \in Operators |-> Absent]

Goto(r, next) == pc' = [pc EXCEPT ![r] = next]

\* The key of the per-address counters of a request.
Source(r) == <<cred[r].pair, from[r]>>

\* A request arrives with credential c, intact or not, from address i.  An
\* address in shadow state is turned away here, and a rate limiter may do so.
Receive(r, c, ok, i) ==
  /\ pc[r] = "idle"
  /\ cred' = [cred EXCEPT ![r] = c]
  /\ valid' = [valid EXCEPT ![r] = ok]
  /\ from' = [from EXCEPT ![r] = i]
  /\ \/ <<c.pair, i>> \notin shadow /\ Goto(r, "lookup")
     \/ Goto(r, "denied")
  /\ UNCHANGED <<clock, storeVars, seen, anomVars, snap, checkedAt, ipFails, won, opVars>>

\* Step 4 and 5: read the pair, capture the context, branch on its state.
LookUp(r) ==
  LET p == pairs[cred[r].pair] IN
  /\ pc[r] = "lookup"
  /\ snap' = [snap EXCEPT ![r] = Policy(p)]
  /\ Goto(r, IF p.status # "active" THEN "denied"
             ELSE IF p.failedSigs >= CfgLockout THEN "ensureLocked"
             ELSE IF p.expiresAt \notin {Never, 0} /\ clock > p.expiresAt THEN "markExpired"
             ELSE IF Exhausted(p) THEN "markUsage"
             ELSE "verdict")
  /\ shadow' = IF p.status = "locked" THEN shadow \cup {Source(r)} ELSE shadow
  /\ UNCHANGED <<clock, storeVars, seen, tracker, sigFails, cred, valid, from,
                 checkedAt, ipFails, won, opVars>>

\* registry.ensureLocked: lock on the current record, then enter shadow state;
\* a record that is no longer over the threshold only denies the request.
EnsureLocked(r) ==
  LET id == cred[r].pair
      hit == pairs[id].status = "active" /\ pairs[id].failedSigs >= CfgLockout IN
  /\ pc[r] = "ensureLocked"
  /\ pairs' = IF hit THEN [pairs EXCEPT ![id].status = "locked"] ELSE pairs
  /\ shadow' = IF hit THEN shadow \cup {Source(r)} ELSE shadow
  /\ Goto(r, "denied")
  /\ UNCHANGED <<clock, pending, origin, seen, tracker, sigFails, cred, valid, from,
                 snap, checkedAt, ipFails, won, opVars>>

\* registry.markExpired and registry.markUsageExpired: persist the expiry
\* before the denial, if the current record still warrants it.
Expire(r, step, due) ==
  LET id == cred[r].pair IN
  /\ pc[r] = step
  /\ pairs' = IF pairs[id].status = "active" /\ due
              THEN [pairs EXCEPT ![id].status = "expired"] ELSE pairs
  /\ Goto(r, "denied")
  /\ UNCHANGED <<clock, pending, origin, seen, anomVars, cred, valid, from, snap,
                 checkedAt, ipFails, won, opVars>>

MarkExpired(r) == Expire(r, "markExpired", Elapsed(pairs[cred[r].pair], clock))

MarkUsageExpired(r) == Expire(r, "markUsage", Exhausted(pairs[cred[r].pair]))

\* anomaly.getVerdict: shadow state or too many failures of this address deny
\* the request, the global threat score may, a suspicious address only waits.
Verdict(r) ==
  /\ pc[r] = "verdict"
  /\ \/ /\ Source(r) \in shadow \/ sigFails[Source(r)] >= ShadowAt
        /\ shadow' = shadow \cup {Source(r)}
        /\ Goto(r, "denied")
     \/ /\ Source(r) \notin shadow /\ sigFails[Source(r)] < ShadowAt
        /\ UNCHANGED shadow
        /\ Goto(r, "verify") \/ Goto(r, "denied")
  /\ UNCHANGED <<clock, storeVars, seen, tracker, sigFails, cred, valid, from, snap,
                 checkedAt, ipFails, won, opVars>>

Fresh(ts) == clock - ts <= SigWindow /\ ts - clock <= SigWindow

InScope(r) == cred[r].method \in AllowedMethods(snap[r].scope)

\* Steps 6 to 12: decoding, HMAC, freshness, binding, scope, body and
\* signature.  A request that is not intact may fail before the scope check or
\* after it; a scope denial is not counted as a failure.  The time of the
\* freshness check is kept for the stall bound.
Verify(r) ==
  /\ pc[r] = "verify"
  /\ \/ ~Fresh(cred[r].ts) /\ Goto(r, "fail")
     \/ ~valid[r] /\ Goto(r, "fail")
     \/ Fresh(cred[r].ts) /\ ~InScope(r) /\ Goto(r, "denied")
     \/ Fresh(cred[r].ts) /\ InScope(r) /\ valid[r] /\ Goto(r, "consume")
  /\ checkedAt' = [checkedAt EXCEPT ![r] = clock]
  /\ UNCHANGED <<clock, storeVars, seen, anomVars, cred, valid, from, snap, ipFails,
                 won, opVars>>

\* deny(error, true): first the anomaly counters.
RecordSigFailure(r) ==
  /\ pc[r] = "fail"
  /\ sigFails' = [sigFails EXCEPT ![Source(r)] = @ + 1]
  /\ Goto(r, "count")
  /\ UNCHANGED <<clock, storeVars, seen, tracker, shadow, cred, valid, from, snap,
                 checkedAt, ipFails, won, opVars>>

\* Then the synchronous part of recordActivity, which counts the failure of
\* this address and captures the count.
RecordFailure(r) ==
  /\ pc[r] = "count"
  /\ tracker' = [tracker EXCEPT ![Source(r)] = @ + 1]
  /\ ipFails' = [ipFails EXCEPT ![r] = tracker[Source(r)] + 1]
  /\ Goto(r, "applyFail")
  /\ UNCHANGED <<clock, storeVars, seen, sigFails, shadow, cred, valid, from, snap,
                 checkedAt, won, opVars>>

\* The atomicMutate of recordActivity, with the count captured before it.
ApplyFailure(r) ==
  LET id == cred[r].pair IN
  /\ pc[r] = "applyFail"
  /\ pairs' = IF pairs[id].status = "absent" THEN pairs
              ELSE [pairs EXCEPT ![id] = AfterFailure(@, ipFails[r])]
  /\ Goto(r, "denied")
  /\ UNCHANGED <<clock, pending, origin, seen, anomVars, cred, valid, from, snap,
                 checkedAt, ipFails, won, opVars>>

\* Mutant: an entry is dropped at the instant it expires, not after it.
UnexpiredEarly == [n \in Nonces |-> IF seen[n] <= clock THEN 0 ELSE seen[n]]

\* The entries left after checkAndConsume deleted the expired ones.
Unexpired == [n \in Nonces |-> IF seen[n] < clock THEN 0 ELSE seen[n]]

\* The sets of entries the capacity guard may evict: the oldest ones.  The
\* expiry grows with the insertion, so the oldest are those that expire first.
Evictable(entries) ==
  LET held == {n \in Nonces : entries[n] # 0} IN
  IF Cardinality(held) < MaxNonces THEN {{}}
  ELSE {E \in SUBSET held :
          /\ Cardinality(E) = EvictCount
          /\ \A e \in E, k \in held \ E : entries[e] <= entries[k]}

\* A ghost pair is a trap that springs after full verification.
TrapSprung(r) == snap[r].kind = "ghost"

\* The gate on first acceptance: nonceStore.checkAndConsume.  The continuity
\* guard or an unavailable store denies the request before anything is
\* recorded; so does a nonce that is held; otherwise it is recorded.
Consume(r) ==
  LET n == cred[r].nonce IN
  /\ pc[r] = "consume"
  /\ \/ /\ Goto(r, "denied")
        /\ UNCHANGED <<seen, won, shadow>>
     \/ /\ Unexpired[n] # 0
        /\ seen' = Unexpired
        /\ Goto(r, "denied")
        /\ UNCHANGED <<won, shadow>>
     \/ /\ Unexpired[n] = 0
        /\ \E E \in Evictable(Unexpired) :
             seen' = [m \in Nonces |-> IF m = n THEN clock + Retention
                                      ELSE IF m \in E THEN 0 ELSE Unexpired[m]]
        /\ won' = won \cup {r}
        /\ Goto(r, IF TrapSprung(r) THEN "denied" ELSE "claim")
        /\ shadow' = IF TrapSprung(r) THEN shadow \cup {Source(r)} ELSE shadow
  /\ UNCHANGED <<clock, storeVars, tracker, sigFails, cred, valid, from, snap,
                 checkedAt, ipFails, opVars>>

\* registry.claimSuccessfulUseOutcome up to the end of the store operation.
Claim(r) ==
  LET id == cred[r].pair IN
  /\ pc[r] = "claim"
  /\ pairs' = [pairs EXCEPT ![id] = AfterClaim(@, clock, snap[r])]
  /\ Goto(r, IF ClaimOutcome(pairs[id], clock, snap[r]) = "claimed"
             THEN "clear" ELSE "denied")
  /\ UNCHANGED <<clock, pending, origin, seen, anomVars, cred, valid, from, snap,
                 checkedAt, ipFails, won, opVars>>

\* The rest of it: forget the failures recorded for the pair and answer ok.
ClearTracker(r) ==
  /\ pc[r] = "clear"
  /\ tracker' = [k \in PairIds \X Ips |-> IF k[1] = cred[r].pair THEN 0 ELSE tracker[k]]
  /\ Goto(r, "accepted")
  /\ UNCHANGED <<clock, storeVars, seen, sigFails, shadow, cred, valid, from, snap,
                 checkedAt, ipFails, won, opVars>>

-----------------------------------------------------------------------------
(* Lifecycle of pairs: registration, rotation and operator actions.        *)

ActivePairs == {p \in PairIds : pairs[p].status = "active"}

\* A handler returns; the record it read is gone.
OpDone(o) ==
  /\ opPc' = [opPc EXCEPT ![o] = "idle"]
  /\ opSnap' = [opSnap EXCEPT ![o] = Absent]
  /\ UNCHANGED opKey

\* requestPairing counts the active pairs first and stores the registration
\* under a fresh token later.
BeginRequest(o, reg) ==
  /\ opPc[o] = "idle"
  /\ Cardinality(ActivePairs) < MaxActive
  /\ opPc' = [opPc EXCEPT ![o] = "request"]
  /\ opSnap' = [opSnap EXCEPT ![o] = reg]
  /\ UNCHANGED <<clock, storeVars, seen, anomVars, reqVars, won, opKey>>

SetPending(o, t) ==
  /\ opPc[o] = "request"
  /\ pending[t] = Unissued
  /\ pending' = [pending EXCEPT ![t] = opSnap[o]]
  /\ OpDone(o)
  /\ UNCHANGED <<clock, pairs, origin, seen, anomVars, reqVars, won>>

\* approvePairing reads the pending registration first and commits later.
BeginApprove(o, t) ==
  /\ opPc[o] = "idle"
  /\ pending[t] \in Registrations
  /\ opPc' = [opPc EXCEPT ![o] = "approve"]
  /\ opKey' = [opKey EXCEPT ![o] = t]
  /\ opSnap' = [opSnap EXCEPT ![o] = pending[t]]
  /\ UNCHANGED <<clock, storeVars, seen, anomVars, reqVars, won>>

\* Mutant: any issued token will do.
OnceIssued(o) == pending[opKey[o]] # Unissued

\* The registration is still the one that was read.
StillPending(o) == pending[opKey[o]] = opSnap[o]

\* approvePending: under the lock, the registration must still be the one that
\* was read, and the number of active pairs below the maximum.
CommitApprove(o, new) ==
  LET t == opKey[o] IN
  /\ opPc[o] = "approve"
  /\ IF StillPending(o) /\ Cardinality(ActivePairs) < MaxActive
     THEN /\ pairs[new].status = "absent"
          /\ pending' = [pending EXCEPT ![t] = Spent]
          /\ pairs' = [pairs EXCEPT ![new] = NewPair(opSnap[o])]
          /\ origin' = [origin EXCEPT ![new] = t]
     ELSE UNCHANGED storeVars
  /\ OpDone(o)
  /\ UNCHANGED <<clock, seen, anomVars, reqVars, won>>

\* Mutant: the handler keeps the identity of its previous run.
BeginRotateStaleKey(o, p) ==
  /\ opPc[o] = "idle"
  /\ pairs[p].status = "active"
  /\ opPc' = [opPc EXCEPT ![o] = "rotate"]
  /\ opSnap' = [opSnap EXCEPT ![o] = pairs[p]]
  /\ UNCHANGED <<clock, storeVars, seen, anomVars, reqVars, won, opKey>>

\* handleRotation reads the old pair, verifies the request, commits later.
BeginRotate(o, p) ==
  /\ opPc[o] = "idle"
  /\ pairs[p].status = "active"
  /\ opPc' = [opPc EXCEPT ![o] = "rotate"]
  /\ opKey' = [opKey EXCEPT ![o] = p]
  /\ opSnap' = [opSnap EXCEPT ![o] = pairs[p]]
  /\ UNCHANGED <<clock, storeVars, seen, anomVars, reqVars, won>>

\* rotatePair: disable the old pair and add its replacement, or conflict.
CommitRotate(o, new) ==
  LET p == opKey[o] IN
  /\ opPc[o] = "rotate"
  /\ IF pairs[p] = opSnap[o] /\ pairs[p].status = "active"
     THEN /\ pairs[new].status = "absent"
          /\ pairs' = [pairs EXCEPT ![p].status = "rotated", ![new] = NewPair(opSnap[o])]
          /\ origin' = [origin EXCEPT ![new] = origin[p]]
          /\ UNCHANGED pending
     ELSE UNCHANGED storeVars
  /\ OpDone(o)
  /\ UNCHANGED <<clock, seen, anomVars, reqVars, won>>

\* An atomicMutate of the registry on an existing pair.
Mutate(p, record) ==
  /\ pairs[p].status # "absent"
  /\ pairs' = [pairs EXCEPT ![p] = record]
  /\ UNCHANGED <<clock, pending, origin, seen, anomVars, reqVars, won, opVars>>

Revoke(p) == Mutate(p, [pairs[p] EXCEPT !.status = "revoked"])

\* Mutant: whatever the status.
UnlockAny(p) == Mutate(p, [pairs[p] EXCEPT !.status = "active", !.failedSigs = 0])

Unlock(p) ==
  Mutate(p, IF pairs[p].status = "locked"
            THEN [pairs[p] EXCEPT !.status = "active", !.failedSigs = 0]
            ELSE pairs[p])

\* Each field is written or left as it is.
UpdatePair(p) ==
  \E scope \in NewScopes \cup {pairs[p].scope},
     expiresAt \in NewExpiries \cup {pairs[p].expiresAt},
     maxRequests \in NewCaps \cup {pairs[p].maxRequests} :
    Mutate(p, [pairs[p] EXCEPT !.scope = scope, !.expiresAt = expiresAt,
                               !.maxRequests = maxRequests])

ClearShadow(p, i) ==
  /\ shadow' = shadow \ {<<p, i>>}
  /\ UNCHANGED <<clock, storeVars, seen, tracker, sigFails, reqVars, won, opVars>>

\* Time passes, but a request does not stay longer than MaxStall between its
\* freshness check and the consumption of its nonce.
Tick ==
  /\ clock < MaxTime
  /\ \A r \in Requests : pc[r] = "consume" => clock < checkedAt[r] + MaxStall
  /\ clock' = clock + 1
  /\ UNCHANGED <<storeVars, seen, anomVars, reqVars, won, opVars>>

RequestStep(r) ==
  \/ \E c \in Credentials, ok \in BOOLEAN, i \in Ips : Receive(r, c, ok, i)
  \/ LookUp(r) \/ EnsureLocked(r) \/ MarkExpired(r) \/ MarkUsageExpired(r)
  \/ Verdict(r) \/ Verify(r)
  \/ RecordSigFailure(r) \/ RecordFailure(r) \/ ApplyFailure(r)
  \/ Consume(r) \/ Claim(r) \/ ClearTracker(r)

OperatorStep(o) ==
  \/ \E reg \in Registrations : BeginRequest(o, reg)
  \/ \E t \in Tokens : SetPending(o, t) \/ BeginApprove(o, t)
  \/ \E p \in PairIds : BeginRotate(o, p) \/ CommitApprove(o, p) \/ CommitRotate(o, p)

Next ==
  \/ \E r \in Requests : RequestStep(r)
  \/ \E o \in Operators : OperatorStep(o)
  \/ \E p \in PairIds : Revoke(p) \/ Unlock(p) \/ UpdatePair(p)
  \/ \E p \in PairIds, i \in Ips : ClearShadow(p, i)
  \/ Tick

Spec == Init /\ [][Next]_vars

-----------------------------------------------------------------------------
(* Properties.                                                             *)

\* The replay store's promise: of all the requests that carry one signed
\* nonce, however they are interleaved, delayed or repeated, at most one ever
\* passes checkAndConsume (middleware.ts, the first-acceptance gate).
NonceAcceptedOnce ==
  \A r, q \in won : cred[r].nonce = cred[q].nonce => r = q

Claimed == {r \in Requests : pc[r] \in {"clear", "accepted"}}

\* No authorized use is lost or invented: the usage counter that maxRequests
\* is enforced against equals the number of requests claimed on the pair, in
\* spite of concurrent claims, failures, updates, revocations and rotations.
UseAccounting ==
  \A p \in PairIds :
    pairs[p].requests = Cardinality({r \in Claimed : cred[r].pair = p})

Live(p) == pairs[p].status \in {"active", "locked"}

\* One registration yields one usable credential: two approvals of a token, or
\* an approval or rotation racing another rotation, never leave two pairs of
\* the same descent both usable (spec section 8: rotation "does not leave both
\* credentials active").
OneLivePairPerRegistration ==
  \A p, q \in PairIds : Live(p) /\ Live(q) /\ origin[p] = origin[q] => p = q

\* What holds of the record of the pair when the use of request r is granted.
GrantedByCurrentPolicy(r) ==
  LET p == pairs[cred[r].pair] IN
  pc[r] = "claim" /\ pc'[r] = "clear" =>
    /\ p.status = "active" /\ p.kind = "legitimate"
    /\ ~Elapsed(p, clock) /\ ~Exhausted(p)
    /\ valid[r] /\ cred[r].method \in AllowedMethods(p.scope)

\* A request is authorized only by the policy in force at its claim, never by
\* the snapshot it verified against: the pair is active, legitimate, not
\* elapsed, below its cap, and its present scope permits the method.
AuthorizedByCurrentPolicy == [][\A r \in Requests : GrantedByCurrentPolicy(r)]_vars

KeepsTerminal(p) ==
  pairs[p].status \in {"revoked", "rotated", "expired"} =>
    pairs'[p].status \in {pairs[p].status, "revoked"}

\* A pair that was revoked, rotated or expired is never usable again: no
\* delayed writer (failure record, lock, rotation, unlock, update) revives it.
TerminalStaysTerminal == [][\A p \in PairIds : KeepsTerminal(p)]_vars

=============================================================================
