---------------------------- MODULE PrincipalLedger ----------------------------
(***************************************************************************)
(* Principals, their provider sessions and the audit streams under them    *)
(* (MemoryPrincipalSessionLedger), and the two caches that authorize when  *)
(* the ledger cannot be asked: the sealed fall-back cache and the agents'  *)
(* credential cache.                                                       *)
(*                                                                         *)
(* A call runs without interruption between two awaits, so a call is a     *)
(* record that steps through them.  Hashes are taken to be injective: the  *)
(* streams and the checkpoints of a principal only grow, so the head hash  *)
(* of a stream is represented by its length and a checkpoint hash by its   *)
(* sequence number.  A principal is named by the fingerprint of the key it *)
(* was first bound with.  Requests with a bad shape, signature or proof    *)
(* age throw before they change anything and are left out.                 *)
(***************************************************************************)
EXTENDS Naturals, FiniteSetsExt

CONSTANTS
  Keys,       \* public keys; also the principals, named by their first key
  Sessions,   \* provider session ids
  Agents,     \* agent instances: one stream of a principal for each
  Nonces,     \* challenge nonces
  Contexts,   \* authorization contexts
  NoContext,  \* the empty context
  Calls,      \* calls that may be in flight together
  MaxCheckpoints, \* bound on the checkpoints of all principals together
  MaxSeals        \* bound on sealed and stored cache entries

ASSUME LedgerAssumption ==
  /\ NoContext \notin Contexts
  /\ MaxCheckpoints \in Nat /\ MaxSeals \in Nat

VARIABLES
  principal,   \* principals
  events,      \* number of events in the stream of each principal and agent
  policy,      \* what resolveAuthorizationContext answers now
  proofNonces, \* consumedProofNonces
  nonceStore,  \* nonces consumed by fall-back authorizations
  sealed,      \* sealed fall-back caches that were handed out
  stored,      \* the agents' cache: entry per principal
  seals,       \* cache entries made so far
  call,        \* the calls in flight
  binds,       \* history: sessions bound with each proof nonce
  grants       \* history: fall-back authorizations with each nonce

vars == <<principal, events, policy, proofNonces, nonceStore, sealed, stored, seals,
          call, binds, grants>>

AnyContext == Contexts \cup {NoContext}
Heads == [Agents -> Nat]

Principal == [exists: BOOLEAN, jwk: Keys, fingerprint: Keys, version: Nat,
              context: AnyContext, active: SUBSET Sessions,
              streams: SUBSET Agents, cpSeq: Nat, cpHeads: Heads]
Entry == [key: Keys, cp: Nat, context: AnyContext, nonces: SUBSET Nonces]

NoEntry == [context |-> "none"]
Idle == [at |-> "idle"]
Call == [at: {"idle", "granted"}]
   \cup [at: {"proved", "resolving", "upserting", "upserted"}, key: Keys, session: Sessions,
         agent: Agents, nonce: Nonces, context: AnyContext]
   \cup [at: {"hashing"}, key: Keys, jwk: Keys]
   \cup [at: {"consuming"}, key: Keys, entry: Entry, nonce: Nonces, seen: SUBSET AnyContext]
   \cup [at: {"protecting"}, key: Keys, entry: Entry]
   \cup [at: {"unsealing"}, key: Keys, entry: Entry, expect: AnyContext,
         seen: SUBSET AnyContext]

TypeOK ==
  /\ principal \in [Keys -> Principal]
  /\ events \in [Keys \X Agents -> Nat]
  /\ policy \in AnyContext
  /\ proofNonces \subseteq Nonces /\ nonceStore \subseteq Nonces
  /\ sealed \subseteq Entry
  /\ stored \in [Keys -> Entry \cup {NoEntry}]
  /\ seals \in Nat
  /\ call \in [Calls -> Call]
  /\ binds \in [Nonces -> Nat] /\ grants \in [Nonces -> Nat]

NewPrincipal(k) ==
  [exists |-> FALSE, jwk |-> k, fingerprint |-> k, version |-> 1, context |-> NoContext,
   active |-> {}, streams |-> {}, cpSeq |-> 0, cpHeads |-> [a \in Agents |-> 0]]

Init ==
  /\ principal = [k \in Keys |-> NewPrincipal(k)]
  /\ events = [s \in Keys \X Agents |-> 0]
  /\ policy = NoContext
  /\ proofNonces = {} /\ nonceStore = {} /\ sealed = {}
  /\ stored = [k \in Keys |-> NoEntry] /\ seals = 0
  /\ call = [c \in Calls |-> Idle]
  /\ binds = [n \in Nonces |-> 0] /\ grants = [n \in Nonces |-> 0]

Free(c) == call[c].at \in {"idle", "granted"}
Step(c, r) == call' = [call EXCEPT ![c] = r]
cacheVars == <<nonceStore, sealed, stored, seals, grants>>

\* The operator changes what the resolver answers.
SetPolicy(x) ==
  /\ policy # x
  /\ policy' = x
  /\ UNCHANGED <<principal, events, proofNonces, cacheVars, call, binds>>

-----------------------------------------------------------------------------
(* Streams and checkpoints.                                                *)

\* Every event and every rotation makes a checkpoint: the bound is on these.
Room == MapThenSumSet(LAMBDA k : principal[k].cpSeq, Keys) < MaxCheckpoints

\* appendCheckpoint: commit the heads of the streams as they are after e.
Checkpointed(pr, k, e) ==
  [pr EXCEPT !.cpSeq = @ + 1,
             !.cpHeads = [a \in Agents |-> IF a \in pr.streams THEN e[<<k, a>>] ELSE 0]]

\* appendEventToStream.
WithEvent(k, a) == [events EXCEPT ![<<k, a>>] = @ + 1]

\* A cached answer is judged by the contexts its principal had during the call.
SeenBy(r, k, context) ==
  IF r.at \in {"consuming", "unsealing"} /\ r.key = k
  THEN [r EXCEPT !.seen = @ \cup {context}] ELSE r

-----------------------------------------------------------------------------
(* bindSession.                                                            *)

\* The fingerprint is computed and the signed proof verifies.
StartBind(c, k, s, a, n) ==
  /\ Free(c)
  /\ Step(c, [at |-> "proved", key |-> k, session |-> s, agent |-> a, nonce |-> n,
              context |-> NoContext])
  /\ UNCHANGED <<principal, events, policy, proofNonces, cacheVars, binds>>

\* Mutant: the nonce is looked up, and added only when the session is bound.
ConsumeProofLate(c) ==
  /\ call[c].at = "proved"
  /\ IF call[c].nonce \in proofNonces THEN Step(c, Idle)
     ELSE Step(c, [call[c] EXCEPT !.at = "resolving"])
  /\ UNCHANGED <<principal, events, policy, proofNonces, cacheVars, binds>>

\* One use of the proof's nonce; then the resolver is asked.
ConsumeProof(c) ==
  /\ call[c].at = "proved"
  /\ IF call[c].nonce \in proofNonces
     THEN Step(c, Idle) /\ UNCHANGED proofNonces
     ELSE /\ Step(c, [call[c] EXCEPT !.at = "resolving"])
          /\ proofNonces' = proofNonces \cup {call[c].nonce}
  /\ UNCHANGED <<principal, events, policy, cacheVars, binds>>

\* The resolver answers with the policy of now, or fails.
Resolve(c) ==
  /\ call[c].at = "resolving"
  /\ \/ Step(c, [call[c] EXCEPT !.at = "upserting", !.context = policy])
     \/ Step(c, Idle)
  /\ UNCHANGED <<principal, events, policy, proofNonces, cacheVars, binds>>

\* upsertPrincipal: a principal that exists is returned as it is.
Upsert(c) ==
  /\ call[c].at = "upserting"
  /\ Step(c, [call[c] EXCEPT !.at = "upserted"])
  /\ LET k == call[c].key
     IN  principal' = IF principal[k].exists THEN principal
                      ELSE [principal EXCEPT ![k] =
                              [NewPrincipal(k) EXCEPT !.exists = TRUE,
                                                      !.context = call[c].context]]
  /\ UNCHANGED <<events, policy, proofNonces, cacheVars, binds>>

\* The principal after the stream, the session and a non-empty context are
\* entered.
Bound(pr, r) ==
  [pr EXCEPT !.streams = @ \cup {r.agent},
             !.active = @ \cup {r.session},
             !.context = IF r.context = NoContext THEN @ ELSE r.context]

\* Mutant: the context is updated without a checkpoint when it only changes.
FinishBindUncommitted(c) ==
  /\ call[c].at = "upserted" /\ Room
  /\ LET r == call[c]
         k == r.key
         new == Bound(principal[k], r)
         e == WithEvent(k, r.agent)
     IN  /\ events' = e
         /\ principal' = [principal EXCEPT ![k] =
                            IF r.session \in principal[k].active THEN new
                            ELSE Checkpointed(new, k, e)]
         /\ call' = [d \in Calls |-> IF d = c THEN Idle
                                     ELSE SeenBy(call[d], k, new.context)]
         /\ binds' = [binds EXCEPT ![r.nonce] = @ + 1]
  /\ UNCHANGED <<policy, proofNonces, cacheVars>>

\* The rest of bindSession: stream, session, context, event and checkpoint.
FinishBind(c) ==
  /\ call[c].at = "upserted" /\ Room
  /\ LET r == call[c]
         k == r.key
         new == Bound(principal[k], r)
         e == WithEvent(k, r.agent)
     IN  /\ events' = e
         /\ principal' = [principal EXCEPT ![k] = Checkpointed(new, k, e)]
         /\ call' = [d \in Calls |-> IF d = c THEN Idle
                                     ELSE SeenBy(call[d], k, new.context)]
         /\ binds' = [binds EXCEPT ![r.nonce] = @ + 1]
  /\ UNCHANGED <<policy, proofNonces, cacheVars>>

-----------------------------------------------------------------------------
(* Operations on a principal.                                              *)

\* appendStreamEvent.
AppendStreamEvent(k, a) ==
  /\ principal[k].exists /\ a \in principal[k].streams /\ Room
  /\ events' = WithEvent(k, a)
  /\ principal' = [principal EXCEPT ![k] = Checkpointed(@, k, events')]
  /\ UNCHANGED <<policy, proofNonces, cacheVars, call, binds>>

\* closeSession: the session leaves the active ones first; then the event is
\* appended, or the stream is unknown and the call throws.
CloseSession(k, a, s) ==
  /\ principal[k].exists /\ s \in principal[k].active
  /\ LET left == [principal[k] EXCEPT !.active = @ \ {s}]
     IN  \/ /\ a \notin left.streams
            /\ principal' = [principal EXCEPT ![k] = left]
            /\ UNCHANGED events
         \/ /\ a \in left.streams /\ Room
            /\ events' = WithEvent(k, a)
            /\ principal' = [principal EXCEPT ![k] = Checkpointed(left, k, events')]
  /\ UNCHANGED <<policy, proofNonces, cacheVars, call, binds>>

\* rotatePrincipalKey up to its await: the new key is in place, its
\* fingerprint is not.
StartRotate(c, k, jwk) ==
  /\ Free(c)
  /\ principal[k].exists
  /\ principal' = [principal EXCEPT ![k].jwk = jwk]
  /\ Step(c, [at |-> "hashing", key |-> k, jwk |-> jwk])
  /\ UNCHANGED <<events, policy, proofNonces, cacheVars, binds>>

FinishRotate(c) ==
  /\ call[c].at = "hashing" /\ Room
  /\ LET k == call[c].key
         new == [principal[k] EXCEPT !.fingerprint = call[c].jwk, !.version = @ + 1]
     IN  principal' = [principal EXCEPT ![k] = Checkpointed(new, k, events)]
  /\ Step(c, Idle)
  /\ UNCHANGED <<events, policy, proofNonces, cacheVars, binds>>

\* The key cannot be hashed: the call throws, the key stays in place.
RotateFails(c) ==
  /\ call[c].at = "hashing"
  /\ Step(c, Idle)
  /\ UNCHANGED <<principal, events, policy, proofNonces, cacheVars, binds>>

-----------------------------------------------------------------------------
(* The caches.                                                             *)

EntryOf(k) == [key |-> k, cp |-> principal[k].cpSeq, context |-> principal[k].context,
               nonces |-> proofNonces]

\* sealPrincipalCache, from the state a bind returned.
SealPrincipalCache(k) ==
  /\ principal[k].cpSeq > 0
  /\ seals < MaxSeals /\ seals' = seals + 1
  /\ sealed' = sealed \cup {EntryOf(k)}
  /\ UNCHANGED <<principal, events, policy, proofNonces, nonceStore, stored, call, binds,
                 grants>>

\* Mutant: the checkpoint of the cache is not compared.
FallbackAnyCheckpoint(entry, n) == n \notin entry.nonces

\* The checks of verifyFallbackAuthorization on an intact cache that has not
\* expired; the expected checkpoint is the head of the principal.
FallbackValid(entry, n) ==
  /\ entry.cp = principal[entry.key].cpSeq
  /\ n \notin entry.nonces

\* verifyFallbackAuthorization up to its await.
StartFallback(c, entry, n) ==
  /\ Free(c)
  /\ IF FallbackValid(entry, n)
     THEN Step(c, [at |-> "consuming", key |-> entry.key, entry |-> entry, nonce |-> n,
                   seen |-> {principal[entry.key].context}])
     ELSE Step(c, Idle)
  /\ UNCHANGED <<principal, events, policy, proofNonces, cacheVars, binds>>

\* The nonce store answers: nonceStore.checkAndConsume is atomic.
FinishFallback(c) ==
  /\ call[c].at = "consuming"
  /\ LET n == call[c].nonce
     IN  IF n \in nonceStore
         THEN Step(c, Idle) /\ UNCHANGED <<nonceStore, grants>>
         ELSE /\ Step(c, [at |-> "granted"])
              /\ nonceStore' = nonceStore \cup {n}
              /\ grants' = [grants EXCEPT ![n] = @ + 1]
  /\ UNCHANGED <<principal, events, policy, proofNonces, sealed, stored, seals, binds>>

\* DpapiFailClosedAgentCache.write: the entry is made, then protected ...
StartWrite(c, k) ==
  /\ Free(c)
  /\ principal[k].cpSeq > 0
  /\ seals < MaxSeals /\ seals' = seals + 1
  /\ Step(c, [at |-> "protecting", key |-> k, entry |-> EntryOf(k)])
  /\ UNCHANGED <<principal, events, policy, proofNonces, nonceStore, sealed, stored, binds,
                 grants>>

\* ... and put, whatever was put meanwhile; or protection fails.
FinishWrite(c) ==
  /\ call[c].at = "protecting"
  /\ \/ stored' = [stored EXCEPT ![call[c].key] = call[c].entry] /\ Step(c, Idle)
     \/ UNCHANGED stored /\ Step(c, Idle)
  /\ UNCHANGED <<principal, events, policy, proofNonces, nonceStore, sealed, seals, binds,
                 grants>>

\* read: the stored entry and the state the caller expects, taken now.
StartRead(c, k) ==
  /\ Free(c)
  /\ IF stored[k] = NoEntry THEN Step(c, Idle)
     ELSE Step(c, [at |-> "unsealing", key |-> k, entry |-> stored[k],
                   expect |-> principal[k].context, seen |-> {principal[k].context}])
  /\ UNCHANGED <<principal, events, policy, proofNonces, cacheVars, binds>>

\* validateEntryAgainstCurrentState.
IsCurrent(entry, expect) == entry.context = expect

\* An entry that has expired, cannot be unsealed or differs is refused.
FinishRead(c) ==
  /\ call[c].at = "unsealing"
  /\ \/ IsCurrent(call[c].entry, call[c].expect) /\ Step(c, [at |-> "granted"])
     \/ Step(c, Idle)
  /\ UNCHANGED <<principal, events, policy, proofNonces, cacheVars, binds>>

-----------------------------------------------------------------------------

Next ==
  \/ \E x \in Contexts : SetPolicy(x)
  \/ \E c \in Calls :
       \/ \E k \in Keys, s \in Sessions, a \in Agents, n \in Nonces : StartBind(c, k, s, a, n)
       \/ ConsumeProof(c) \/ Resolve(c) \/ Upsert(c) \/ FinishBind(c)
       \/ \E k, jwk \in Keys : StartRotate(c, k, jwk)
       \/ FinishRotate(c) \/ RotateFails(c)
       \/ \E entry \in sealed, n \in Nonces : StartFallback(c, entry, n)
       \/ FinishFallback(c)
       \/ \E k \in Keys : StartWrite(c, k) \/ StartRead(c, k)
       \/ FinishWrite(c) \/ FinishRead(c)
  \/ \E k \in Keys :
       \/ SealPrincipalCache(k)
       \/ \E a \in Agents : \/ AppendStreamEvent(k, a)
                            \/ \E s \in Sessions : CloseSession(k, a, s)

Spec == Init /\ [][Next]_vars

-----------------------------------------------------------------------------
(* Properties.                                                             *)

\* verifyPrincipalContinuity.
Continuous(k) ==
  /\ principal[k].cpSeq > 0
  /\ \A a \in Agents : principal[k].cpHeads[a] =
                         IF a \in principal[k].streams THEN events[<<k, a>>] ELSE 0

\* Whatever binds, rotations, events and closes interleave, the last checkpoint
\* of a principal commits the heads of all its streams: continuity verifies at
\* every moment after the first bind (bindSession, appendCheckpoint).
ContinuityHolds ==
  \A k \in Keys : principal[k].exists =>
     \/ Continuous(k)
     \/ /\ principal[k].cpSeq = 0
        /\ \E c \in Calls : call[c].at = "upserted" /\ call[c].key = k

\* A nonce is spent once, even when copies of a message are being verified at the
\* same time: a signed proof binds at most one session, and a request is authorized
\* at most once by the fall-back cache (consumedProofNonces in bindSession,
\* verifyFallbackAuthorization).
NoncesSpentOnce == \A n \in Nonces : binds[n] <= 1 /\ grants[n] <= 1

\* Neither cache grants a context that the principal did not have at some
\* moment of the call: a context that was replaced before the call is refused,
\* by the checkpoint or by the permissions of the entry
\* (verifyFallbackAuthorization, validateEntryAgainstCurrentState).
GrantsSeenContext ==
  [][\A c \in Calls :
        call[c].at \in {"consuming", "unsealing"} /\ call'[c].at = "granted"
          => call[c].entry.context \in call[c].seen]_vars

=============================================================================
