----------------------------- MODULE StoreProofs -----------------------------
(***************************************************************************)
(* Proofs about PrincipalLedger and PairTransactions, for any number of    *)
(* principals, agents, nonces and calls in flight.                         *)
(*                                                                         *)
(* The ledger: continuity verifies after every step, a nonce is spent      *)
(* once, and neither cache grants a context that the principal did not     *)
(* have during the call.  The transactions: a caller is told the truth,    *)
(* no connection is lost or lent twice, and the replica is never parked.   *)
(***************************************************************************)
EXTENDS PrincipalLedger, PairTransactions, FiniteSetTheorems, TLAPS

Binding == {"proved", "resolving", "upserting", "upserted"}
Consumed == {"resolving", "upserting", "upserted"}

BindCall == [at: Binding, key: Keys, session: Sessions, agent: Agents, nonce: Nonces,
             context: AnyContext]
HashCall == [at: {"hashing"}, key: Keys, jwk: Keys]
ConsumeCall == [at: {"consuming"}, key: Keys, entry: Entry, nonce: Nonces, seen: SUBSET AnyContext]
ProtectCall == [at: {"protecting"}, key: Keys, entry: Entry]
UnsealCall == [at: {"unsealing"}, key: Keys, entry: Entry, expect: AnyContext,
               seen: SUBSET AnyContext]

\* A call whose proof was accepted holds the only use of its nonce, and every nonce that
\* was used is remembered.
NoncesHeld ==
  /\ \A c \in Calls : call[c].at \in Consumed =>
       call[c].nonce \in proofNonces /\ binds[call[c].nonce] = 0
  /\ \A c, d \in Calls :
       call[c].at \in Consumed /\ call[d].at \in Consumed /\ call[c].nonce = call[d].nonce => c = d
  /\ \A n \in Nonces : binds[n] <= 1 /\ (binds[n] > 0 => n \in proofNonces)
  /\ \A n \in Nonces : grants[n] <= 1 /\ (grants[n] > 0 => n \in nonceStore)

\* Only a principal that exists has checkpoints or calls that will add one.
ExistsFirst ==
  /\ \A k \in Keys : ~principal[k].exists => principal[k].cpSeq = 0
  /\ \A c \in Calls : call[c].at \in {"upserted", "hashing"} => principal[call[c].key].exists

\* A sealed cache of the current checkpoint has the current context.
SealedHonest ==
  \A entry \in sealed :
    /\ entry.cp > 0 /\ entry.cp <= principal[entry.key].cpSeq
    /\ entry.cp = principal[entry.key].cpSeq => entry.context = principal[entry.key].context

\* What a call in flight will be judged by was seen during the call.
SeenHonest ==
  \A c \in Calls :
    /\ call[c].at = "consuming" => call[c].entry.context \in call[c].seen
    /\ call[c].at = "unsealing" => call[c].expect \in call[c].seen

IInv ==
  /\ TypeOK
  /\ NoncesHeld
  /\ ExistsFirst
  /\ SealedHonest
  /\ SeenHonest
  /\ ContinuityHolds

------------------------------------------------------------------------------
(* Types.                                                                  *)

LEMMA CallCases ==
  ASSUME TypeOK, NEW c \in Calls
  PROVE  /\ call[c] \in Call
         /\ call[c].at \in Binding => call[c] \in BindCall
         /\ call[c].at = "hashing" => call[c] \in HashCall
         /\ call[c].at = "consuming" => call[c] \in ConsumeCall
         /\ call[c].at = "protecting" => call[c] \in ProtectCall
         /\ call[c].at = "unsealing" => call[c] \in UnsealCall
<1>1. call[c] \in Call
  BY DEF TypeOK
<1>. QED BY <1>1 DEF Call, Binding, BindCall, HashCall, ConsumeCall, ProtectCall, UnsealCall

LEMMA CallSets ==
  /\ BindCall \subseteq Call /\ HashCall \subseteq Call /\ ConsumeCall \subseteq Call
  /\ ProtectCall \subseteq Call /\ UnsealCall \subseteq Call
  /\ Idle \in Call /\ [at |-> "granted"] \in Call
  /\ Idle.at = "idle" /\ [at |-> "granted"].at = "granted"
BY DEF Call, Binding, BindCall, HashCall, ConsumeCall, ProtectCall, UnsealCall, Idle

\* One call moves: the others stay as they are.
LEMMA StepMoves ==
  ASSUME TypeOK, NEW c \in Calls, NEW r \in Call, Step(c, r)
  PROVE  /\ call' \in [Calls -> Call] /\ call'[c] = r
         /\ \A d \in Calls : d # c => call'[d] = call[d]
BY DEF TypeOK, Step

\* appendCheckpoint.
LEMMA CheckpointedFields ==
  ASSUME NEW pr \in Principal, NEW k \in Keys, NEW e \in [Keys \X Agents -> Nat]
  PROVE  /\ Checkpointed(pr, k, e) \in Principal
         /\ Checkpointed(pr, k, e).exists = pr.exists
         /\ Checkpointed(pr, k, e).context = pr.context
         /\ Checkpointed(pr, k, e).streams = pr.streams
         /\ Checkpointed(pr, k, e).cpSeq = pr.cpSeq + 1
         /\ \A a \in Agents : Checkpointed(pr, k, e).cpHeads[a] =
                                IF a \in pr.streams THEN e[<<k, a>>] ELSE 0
<1> DEFINE h == [a \in Agents |-> IF a \in pr.streams THEN e[<<k, a>>] ELSE 0]
<1>1. h \in Heads
  BY DEF Heads
<1>2. pr.cpSeq \in Nat /\ pr.cpSeq + 1 \in Nat
  BY DEF Principal
<1>3. Checkpointed(pr, k, e) = [pr EXCEPT !.cpSeq = pr.cpSeq + 1, !.cpHeads = h]
  BY DEF Checkpointed
<1>4. \A a \in Agents : h[a] = IF a \in pr.streams THEN e[<<k, a>>] ELSE 0
  OBVIOUS
<1>5. PICK g \in Heads, n \in Nat : g = h /\ n = pr.cpSeq + 1
  BY <1>1, <1>2
<1> HIDE DEF h
<1>6. Checkpointed(pr, k, e) = [pr EXCEPT !.cpSeq = n, !.cpHeads = g]
  BY <1>3, <1>5
<1>7. /\ Checkpointed(pr, k, e) \in Principal
      /\ Checkpointed(pr, k, e).exists = pr.exists /\ Checkpointed(pr, k, e).context = pr.context
      /\ Checkpointed(pr, k, e).streams = pr.streams
      /\ Checkpointed(pr, k, e).cpSeq = n /\ Checkpointed(pr, k, e).cpHeads = g
  BY <1>6 DEF Principal
<1>. QED BY <1>4, <1>5, <1>7

LEMMA BoundFields ==
  ASSUME NEW pr \in Principal, NEW r \in BindCall
  PROVE  /\ Bound(pr, r) \in Principal
         /\ Bound(pr, r).exists = pr.exists
         /\ Bound(pr, r).cpSeq = pr.cpSeq
<1> DEFINE x == IF r.context = NoContext THEN pr.context ELSE r.context
<1>1. /\ pr.streams \cup {r.agent} \in SUBSET Agents /\ pr.active \cup {r.session} \in SUBSET Sessions
      /\ x \in AnyContext
  BY DEF Principal, BindCall
<1>2. Bound(pr, r) = [pr EXCEPT !.streams = pr.streams \cup {r.agent},
                                !.active = pr.active \cup {r.session}, !.context = x]
  BY DEF Bound
<1> HIDE DEF x
<1>. QED BY <1>1, <1>2 DEF Principal

LEMMA WithEventType ==
  ASSUME TypeOK, NEW k \in Keys, NEW a \in Agents
  PROVE  /\ WithEvent(k, a) \in [Keys \X Agents -> Nat]
         /\ \A j \in Keys, b \in Agents : j # k => WithEvent(k, a)[<<j, b>>] = events[<<j, b>>]
BY DEF TypeOK, WithEvent

LEMMA PrincipalTypes ==
  ASSUME TypeOK, NEW k \in Keys
  PROVE  /\ principal[k] \in Principal /\ principal[k].cpSeq \in Nat
         /\ principal[k].context \in AnyContext /\ principal[k].exists \in BOOLEAN
BY DEF TypeOK, Principal

LEMMA InitIInv == Init => IInv
<1> SUFFICES ASSUME Init PROVE IInv
  OBVIOUS
<1>1. \A k \in Keys : NewPrincipal(k) \in Principal
  BY DEF NewPrincipal, Principal, Heads, AnyContext
<1>2. TypeOK
  BY <1>1, CallSets DEF Init, TypeOK, AnyContext
<1>3. \A k \in Keys : principal[k].exists = FALSE /\ principal[k].cpSeq = 0
  BY DEF Init, NewPrincipal
<1>4. \A c \in Calls : call[c].at = "idle"
  BY CallSets DEF Init
<1>. QED BY <1>2, <1>3, <1>4
         DEF Init, IInv, NoncesHeld, ExistsFirst, SealedHonest, SeenHonest, ContinuityHolds, Consumed

------------------------------------------------------------------------------
(* Steps of one call that change neither a principal nor an event.         *)

\* The invariant after call c has become r, where the principals, the events and what the
\* nonces were used for are as before.
LEMMA CallMoves ==
  ASSUME IInv, NEW c \in Calls, NEW r \in Call, Step(c, r),
         UNCHANGED <<principal, events, policy, binds>>,
         call[c].at # "upserted",
         r.at \in {"upserted", "hashing"} => principal[r.key].exists,
         r.at = "consuming" => r.entry.context \in r.seen,
         r.at = "unsealing" => r.expect \in r.seen,
         proofNonces \subseteq proofNonces', proofNonces' \subseteq Nonces,
         r.at \in Consumed =>
           /\ r.nonce \in Nonces /\ r.nonce \in proofNonces' /\ binds[r.nonce] = 0
           /\ \A d \in Calls : d # c /\ call[d].at \in Consumed => call[d].nonce # r.nonce,
         nonceStore' \subseteq Nonces, grants' \in [Nonces -> Nat],
         \A n \in Nonces : grants'[n] <= 1 /\ (grants'[n] > 0 => n \in nonceStore'),
         sealed' \subseteq Entry, sealed' = sealed,
         stored' \in [Keys -> Entry \cup {NoEntry}], seals' \in Nat
  PROVE  IInv'
<1>1. /\ call' \in [Calls -> Call] /\ call'[c] = r
      /\ \A d \in Calls : d # c => call'[d] = call[d]
  BY StepMoves DEF IInv
<1>2. TypeOK'
  BY <1>1 DEF IInv, TypeOK
<1>3. NoncesHeld'
  BY <1>1 DEF IInv, NoncesHeld
<1>4. ExistsFirst' /\ SealedHonest' /\ SeenHonest'
  BY <1>1 DEF IInv, ExistsFirst, SealedHonest, SeenHonest
<1>5. ContinuityHolds'
  <2> SUFFICES ASSUME NEW k \in Keys, principal[k].exists, ~Continuous(k)'
               PROVE  principal[k].cpSeq = 0 /\ \E d \in Calls : call'[d].at = "upserted" /\ call'[d].key = k
    BY DEF ContinuityHolds
  <2>1. ~Continuous(k)
    BY DEF Continuous
  <2>2. PICK d \in Calls : call[d].at = "upserted" /\ call[d].key = k /\ principal[k].cpSeq = 0
    BY <2>1 DEF IInv, ContinuityHolds
  <2>. QED BY <1>1, <2>2
<1>. QED BY <1>2, <1>3, <1>4, <1>5 DEF IInv

\* What the invariant says of the nonces and caches, for a step that leaves them alone.
LEMMA Kept ==
  ASSUME IInv
  PROVE  /\ proofNonces \subseteq Nonces /\ nonceStore \subseteq Nonces
         /\ grants \in [Nonces -> Nat] /\ binds \in [Nonces -> Nat]
         /\ \A n \in Nonces : grants[n] <= 1 /\ (grants[n] > 0 => n \in nonceStore)
         /\ sealed \subseteq Entry /\ stored \in [Keys -> Entry \cup {NoEntry}] /\ seals \in Nat
BY DEF IInv, TypeOK, NoncesHeld

\* A call that starts, fails or ends, and holds no accepted proof afterwards.
LEMMA CallMovesOnly ==
  ASSUME IInv, NEW c \in Calls, NEW r \in Call, Step(c, r),
         UNCHANGED <<principal, events, policy, proofNonces, cacheVars, binds>>,
         call[c].at # "upserted", r.at \notin Consumed,
         r.at = "hashing" => principal[r.key].exists,
         r.at = "consuming" => r.entry.context \in r.seen,
         r.at = "unsealing" => r.expect \in r.seen
  PROVE  IInv'
<1>1. /\ UNCHANGED <<principal, events, policy, binds>>
      /\ UNCHANGED <<nonceStore, sealed, stored, seals, grants>>
      /\ proofNonces' = proofNonces
  BY DEF cacheVars
<1>2. r.at # "upserted"
  BY DEF Consumed
<1>. QED BY <1>1, <1>2, Kept, CallMoves

LEMMA BindSteps ==
  ASSUME IInv, NEW c \in Calls
  PROVE  /\ \A k \in Keys, s \in Sessions, a \in Agents, n \in Nonces : StartBind(c, k, s, a, n) => IInv'
         /\ ConsumeProof(c) => IInv'
         /\ Resolve(c) => IInv'
         /\ RotateFails(c) => IInv'
<1>0. TypeOK /\ Idle \in Call /\ Idle.at = "idle"
  BY CallSets DEF IInv
<1>1. ASSUME NEW k \in Keys, NEW s \in Sessions, NEW a \in Agents, NEW n \in Nonces,
             StartBind(c, k, s, a, n)
      PROVE  IInv'
  <2> DEFINE r == [at |-> "proved", key |-> k, session |-> s, agent |-> a, nonce |-> n,
                   context |-> NoContext]
  <2>1. Free(c) /\ Step(c, r) /\ UNCHANGED <<principal, events, policy, proofNonces, cacheVars, binds>>
    BY <1>1 DEF StartBind
  <2>2. r \in BindCall /\ r.at = "proved"
    BY DEF BindCall, Binding, AnyContext
  <2> HIDE DEF r
  <2>3. r \in Call /\ call[c].at # "upserted" /\ r.at \notin Consumed
    BY <2>1, <2>2, CallSets DEF Free, Consumed
  <2>. QED BY <2>1, <2>2, <2>3, CallMovesOnly
<1>2. ASSUME ConsumeProof(c) PROVE IInv'
  <2>1. call[c].at = "proved" /\ call[c] \in BindCall /\ call[c].nonce \in Nonces
    BY <1>0, <1>2, CallCases DEF ConsumeProof, Binding, BindCall
  <2>2. CASE call[c].nonce \in proofNonces
    <3>1. Step(c, Idle) /\ UNCHANGED <<principal, events, policy, proofNonces, cacheVars, binds>>
      BY <1>2, <2>2 DEF ConsumeProof
    <3>. QED BY <1>0, <2>1, <3>1, CallMovesOnly DEF Consumed
  <2>3. CASE call[c].nonce \notin proofNonces
    <3> DEFINE r == [call[c] EXCEPT !.at = "resolving"]
    <3>1. /\ Step(c, r) /\ proofNonces' = proofNonces \cup {call[c].nonce}
          /\ UNCHANGED <<principal, events, policy, binds>>
          /\ UNCHANGED <<nonceStore, sealed, stored, seals, grants>>
      BY <1>2, <2>3 DEF ConsumeProof, cacheVars
    <3>2. r \in BindCall /\ r.at = "resolving" /\ r.nonce = call[c].nonce
      BY <2>1 DEF BindCall, Binding
    <3> HIDE DEF r
    <3>3. binds[r.nonce] = 0
      <4>1. binds[r.nonce] \in Nat
        BY <2>1, <3>2, Kept
      <4>. QED BY <2>1, <2>3, <3>2, <4>1 DEF IInv, NoncesHeld
    <3>4. \A d \in Calls : d # c /\ call[d].at \in Consumed => call[d].nonce # r.nonce
      BY <2>3, <3>2 DEF IInv, NoncesHeld
    <3>5. r \in Call /\ r.nonce \in Nonces
      BY <2>1, <3>2, CallSets
    <3>. QED BY <2>1, <3>1, <3>2, <3>3, <3>4, <3>5, Kept, CallMoves
  <2>. QED BY <2>2, <2>3
<1>3. ASSUME Resolve(c) PROVE IInv'
  <2>1. call[c].at = "resolving" /\ call[c] \in BindCall /\ call[c].nonce \in Nonces
    BY <1>0, <1>3, CallCases DEF Resolve, Binding, BindCall
  <2>2. CASE Step(c, Idle)
    <3>1. UNCHANGED <<principal, events, policy, proofNonces, cacheVars, binds>>
      BY <1>3 DEF Resolve
    <3>. QED BY <1>0, <2>1, <2>2, <3>1, CallMovesOnly DEF Consumed
  <2> DEFINE r == [call[c] EXCEPT !.at = "upserting", !.context = policy]
  <2>3. CASE Step(c, r)
    <3>1. /\ proofNonces' = proofNonces
          /\ UNCHANGED <<principal, events, policy, binds>>
          /\ UNCHANGED <<nonceStore, sealed, stored, seals, grants>>
      BY <1>3 DEF Resolve, cacheVars
    <3>2. r \in BindCall /\ r.at = "upserting" /\ r.nonce = call[c].nonce
      BY <1>0, <2>1 DEF BindCall, Binding, TypeOK
    <3> HIDE DEF r
    <3>3. r.nonce \in proofNonces /\ binds[r.nonce] = 0
          /\ \A d \in Calls : d # c /\ call[d].at \in Consumed => call[d].nonce # r.nonce
      BY <2>1, <3>2 DEF IInv, NoncesHeld, Consumed
    <3>4. r \in Call /\ r.nonce \in Nonces
      BY <2>1, <3>2, CallSets
    <3>. QED BY <2>1, <2>3, <3>1, <3>2, <3>3, <3>4, Kept, CallMoves
  <2>. QED BY <1>3, <2>2, <2>3 DEF Resolve
<1>4. ASSUME RotateFails(c) PROVE IInv'
  <2>1. /\ call[c].at = "hashing" /\ Step(c, Idle)
        /\ UNCHANGED <<principal, events, policy, proofNonces, cacheVars, binds>>
    BY <1>4 DEF RotateFails
  <2>. QED BY <1>0, <2>1, CallMovesOnly DEF Consumed
<1>. QED BY <1>1, <1>2, <1>3, <1>4

LEMMA CacheSteps ==
  ASSUME IInv, NEW c \in Calls
  PROVE  /\ \A entry \in sealed, n \in Nonces : StartFallback(c, entry, n) => IInv'
         /\ FinishFallback(c) => IInv'
         /\ \A k \in Keys : StartWrite(c, k) \/ StartRead(c, k) => IInv'
         /\ FinishWrite(c) => IInv'
         /\ FinishRead(c) => IInv'
<1> DEFINE granted == [at |-> "granted"]
<1>0. /\ TypeOK /\ Idle \in Call /\ Idle.at = "idle" /\ granted \in Call /\ granted.at = "granted"
      /\ {"idle", "granted", "proved", "consuming", "unsealing", "protecting"} \cap Consumed = {}
  BY CallSets DEF IInv, Consumed
<1> HIDE DEF granted
<1>1. ASSUME NEW entry \in sealed, NEW n \in Nonces, StartFallback(c, entry, n) PROVE IInv'
  <2> DEFINE x == principal[entry.key].context
             r == [at |-> "consuming", key |-> entry.key, entry |-> entry, nonce |-> n, seen |-> {x}]
  <2>1. call[c].at # "upserted" /\ UNCHANGED <<principal, events, policy, proofNonces, cacheVars, binds>>
    BY <1>1 DEF StartFallback, Free
  <2>2. CASE Step(c, Idle)
    BY <1>0, <2>1, <2>2, CallMovesOnly
  <2>3. CASE FallbackValid(entry, n) /\ Step(c, r)
    <3>1. entry \in Entry /\ entry.key \in Keys
      BY Kept DEF Entry
    <3>2. x \in AnyContext
      BY <1>0, <3>1, PrincipalTypes
    <3>3. entry.context = x
      BY <2>3 DEF IInv, SealedHonest, FallbackValid
    <3> HIDE DEF x
    <3>4. r \in ConsumeCall /\ r.at = "consuming" /\ r.entry.context \in r.seen
      BY <3>1, <3>2, <3>3 DEF ConsumeCall
    <3> HIDE DEF r
    <3>5. r \in Call /\ r.at \notin Consumed
      BY <3>4, CallSets DEF Consumed
    <3>. QED BY <2>1, <2>3, <3>4, <3>5, CallMovesOnly
  <2>. QED BY <1>1, <2>2, <2>3 DEF StartFallback
<1>2. ASSUME FinishFallback(c) PROVE IInv'
  <2>1. call[c].at = "consuming" /\ call[c].nonce \in Nonces
    BY <1>0, <1>2, CallCases DEF FinishFallback, ConsumeCall
  <2>2. CASE call[c].nonce \in nonceStore
    <3>1. Step(c, Idle) /\ UNCHANGED <<principal, events, policy, proofNonces, cacheVars, binds>>
      BY <1>2, <2>2 DEF FinishFallback, cacheVars
    <3>. QED BY <1>0, <2>1, <3>1, CallMovesOnly
  <2>3. CASE call[c].nonce \notin nonceStore
    <3> DEFINE n == call[c].nonce
    <3>1. /\ Step(c, granted) /\ nonceStore' = nonceStore \cup {n}
          /\ grants' = [grants EXCEPT ![n] = @ + 1]
          /\ UNCHANGED <<principal, events, policy, proofNonces, binds>>
          /\ UNCHANGED <<sealed, stored, seals>>
      BY <1>2, <2>3 DEF FinishFallback, granted
    <3>2. grants[n] = 0
      <4>1. grants[n] \in Nat
        BY <2>1, Kept
      <4>. QED BY <2>1, <2>3, <4>1, Kept
    <3>3. /\ grants' \in [Nonces -> Nat] /\ nonceStore' \subseteq Nonces
          /\ \A m \in Nonces : grants'[m] <= 1 /\ (grants'[m] > 0 => m \in nonceStore')
      BY <2>1, <3>1, <3>2, Kept
    <3>. QED BY <1>0, <2>1, <3>1, <3>3, Kept, CallMoves
  <2>. QED BY <2>2, <2>3
<1>3. ASSUME NEW k \in Keys, StartWrite(c, k) PROVE IInv'
  <2> DEFINE r == [at |-> "protecting", key |-> k, entry |-> EntryOf(k)]
  <2>1. /\ Free(c) /\ Step(c, r) /\ seals' = seals + 1
        /\ UNCHANGED <<principal, events, policy, proofNonces, nonceStore, sealed, stored, binds, grants>>
    BY <1>3 DEF StartWrite
  <2>2. EntryOf(k) \in Entry
    BY <1>0, PrincipalTypes, Kept DEF EntryOf, Entry
  <2>3. r \in ProtectCall /\ r.at = "protecting"
    BY <2>2 DEF ProtectCall
  <2> HIDE DEF r
  <2>4. r \in Call /\ call[c].at # "upserted" /\ seals' \in Nat
    BY <2>1, <2>3, CallSets, Kept DEF Free
  <2>. QED BY <1>0, <2>1, <2>3, <2>4, Kept, CallMoves
<1>4. ASSUME NEW k \in Keys, StartRead(c, k) PROVE IInv'
  <2> DEFINE x == principal[k].context
             r == [at |-> "unsealing", key |-> k, entry |-> stored[k], expect |-> x, seen |-> {x}]
  <2>1. call[c].at # "upserted" /\ UNCHANGED <<principal, events, policy, proofNonces, cacheVars, binds>>
    BY <1>4 DEF StartRead, Free
  <2>2. CASE Step(c, Idle)
    BY <1>0, <2>1, <2>2, CallMovesOnly
  <2>3. CASE stored[k] # NoEntry /\ Step(c, r)
    <3>1. stored[k] \in Entry /\ x \in AnyContext
      BY <1>0, <2>3, Kept, PrincipalTypes
    <3> HIDE DEF x
    <3>2. r \in UnsealCall /\ r.at = "unsealing" /\ r.expect \in r.seen
      BY <3>1 DEF UnsealCall
    <3> HIDE DEF r
    <3>3. r \in Call
      BY <3>2, CallSets
    <3>. QED BY <1>0, <2>1, <2>3, <3>2, <3>3, CallMovesOnly
  <2>. QED BY <1>4, <2>2, <2>3 DEF StartRead
<1>5. ASSUME FinishWrite(c) PROVE IInv'
  <2>1. /\ call[c].at = "protecting" /\ call[c] \in ProtectCall /\ Step(c, Idle)
        /\ UNCHANGED <<principal, events, policy, proofNonces, nonceStore, sealed, seals, binds, grants>>
    BY <1>0, <1>5, CallCases DEF FinishWrite
  <2>2. stored' \in [Keys -> Entry \cup {NoEntry}]
    BY <1>5, <2>1, Kept DEF FinishWrite, ProtectCall
  <2>. QED BY <1>0, <2>1, <2>2, Kept, CallMoves
<1>6. ASSUME FinishRead(c) PROVE IInv'
  <2>1. /\ call[c].at = "unsealing"
        /\ Step(c, Idle) \/ Step(c, granted)
        /\ UNCHANGED <<principal, events, policy, proofNonces, cacheVars, binds>>
    BY <1>6 DEF FinishRead, granted
  <2>. QED BY <1>0, <2>1, CallMovesOnly
<1>. QED BY <1>1, <1>2, <1>3, <1>4, <1>5, <1>6

------------------------------------------------------------------------------
(* Steps that change a principal.                                          *)

\* What a new version of principal k has to meet: it exists, its context changes only
\* together with its checkpoint, and continuity verifies for it.
LEMMA PrincipalMoves ==
  ASSUME IInv, NEW k \in Keys, NEW new \in Principal,
         principal' = [principal EXCEPT ![k] = new],
         \A j \in Keys, b \in Agents : j # k => events'[<<j, b>>] = events[<<j, b>>],
         sealed' = sealed,
         new.exists, new.cpSeq >= principal[k].cpSeq,
         new.cpSeq = principal[k].cpSeq /\ new.cpSeq > 0 => new.context = principal[k].context,
         \A d \in Calls : call[d].at = "upserted" /\ call[d].key # k => call'[d] = call[d],
         \/ Continuous(k)'
         \/ new.cpSeq = 0 /\ \E d \in Calls : call'[d].at = "upserted" /\ call'[d].key = k
  PROVE  /\ \A j \in Keys : j # k => principal'[j] = principal[j]
         /\ principal'[k] = new /\ principal' \in [Keys -> Principal]
         /\ \A j \in Keys : principal[j].exists => principal'[j].exists
         /\ \A j \in Keys : ~principal'[j].exists => principal'[j].cpSeq = 0
         /\ SealedHonest'
         /\ ContinuityHolds'
<1>1. /\ \A j \in Keys : j # k => principal'[j] = principal[j]
      /\ principal'[k] = new /\ principal' \in [Keys -> Principal]
  BY DEF IInv, TypeOK
<1>2. \A j \in Keys : principal[j].exists => principal'[j].exists
  BY <1>1
<1>3. \A j \in Keys : ~principal'[j].exists => principal'[j].cpSeq = 0
  BY <1>1 DEF IInv, ExistsFirst
<1>4. SealedHonest'
  <2> SUFFICES ASSUME NEW entry \in sealed
               PROVE  /\ entry.cp > 0 /\ entry.cp <= principal'[entry.key].cpSeq
                      /\ entry.cp = principal'[entry.key].cpSeq => entry.context = principal'[entry.key].context
    BY DEF SealedHonest
  <2>1. entry.key \in Keys /\ entry.cp \in Nat
    BY Kept DEF Entry
  <2>2. /\ entry.cp > 0 /\ entry.cp <= principal[entry.key].cpSeq
        /\ entry.cp = principal[entry.key].cpSeq => entry.context = principal[entry.key].context
    BY DEF IInv, SealedHonest
  <2>3. CASE entry.key # k
    BY <1>1, <2>1, <2>2, <2>3
  <2>4. CASE entry.key = k
    <3>1. principal[k].cpSeq \in Nat /\ new.cpSeq \in Nat
      BY PrincipalTypes DEF IInv, Principal
    <3>2. entry.cp <= new.cpSeq
      BY <2>1, <2>2, <2>4, <3>1
    <3>3. entry.cp = new.cpSeq => entry.context = new.context
      BY <2>1, <2>2, <2>4, <3>1
    <3>. QED BY <1>1, <2>2, <2>4, <3>2, <3>3
  <2>. QED BY <2>3, <2>4
<1>5. ContinuityHolds'
  <2> SUFFICES ASSUME NEW j \in Keys, principal'[j].exists
               PROVE  \/ Continuous(j)'
                      \/ /\ principal'[j].cpSeq = 0
                         /\ \E d \in Calls : call'[d].at = "upserted" /\ call'[d].key = j
    BY DEF ContinuityHolds
  <2>1. CASE j = k
    BY <1>1, <2>1
  <2>2. CASE j # k
    <3>1. principal'[j] = principal[j] /\ \A b \in Agents : events'[<<j, b>>] = events[<<j, b>>]
      BY <1>1, <2>2
    <3>2. CASE Continuous(j)
      BY <3>1, <3>2 DEF Continuous
    <3>3. CASE ~Continuous(j)
      <4>1. PICK d \in Calls : call[d].at = "upserted" /\ call[d].key = j /\ principal[j].cpSeq = 0
        BY <3>1, <3>3 DEF IInv, ContinuityHolds
      <4>. QED BY <2>2, <3>1, <4>1
    <3>. QED BY <3>2, <3>3
  <2>. QED BY <2>1, <2>2
<1>. QED BY <1>1, <1>2, <1>3, <1>4, <1>5

\* A checkpoint over the events as they are after the step makes a principal continuous.
LEMMA CheckpointIsContinuous ==
  ASSUME NEW k \in Keys, NEW pr \in Principal, NEW e \in [Keys \X Agents -> Nat], events' = e,
         principal'[k] = Checkpointed(pr, k, e)
  PROVE  Continuous(k)'
<1> DEFINE new == Checkpointed(pr, k, e)
<1>1. /\ new.cpSeq = pr.cpSeq + 1 /\ new.streams = pr.streams
      /\ \A a \in Agents : new.cpHeads[a] = IF a \in pr.streams THEN e[<<k, a>>] ELSE 0
  BY CheckpointedFields
<1>2. pr.cpSeq \in Nat
  BY DEF Principal
<1> HIDE DEF new
<1>3. principal'[k] = new
  BY DEF new
<1>. QED BY <1>1, <1>2, <1>3 DEF Continuous

\* A step of a principal's operations that leaves the calls alone.
LEMMA PrincipalAlone ==
  ASSUME IInv, NEW k \in Keys, NEW new \in Principal, principal[k].exists,
         principal' = [principal EXCEPT ![k] = new],
         events' \in [Keys \X Agents -> Nat],
         \A j \in Keys, b \in Agents : j # k => events'[<<j, b>>] = events[<<j, b>>],
         UNCHANGED <<policy, proofNonces, cacheVars, call, binds>>,
         new.exists, new.cpSeq >= principal[k].cpSeq, new.context = principal[k].context,
         \/ Continuous(k)'
         \/ new.cpSeq = principal[k].cpSeq /\ (Continuous(k) => Continuous(k)')
  PROVE  IInv'
<1>1. /\ UNCHANGED <<policy, proofNonces, call, binds>>
      /\ UNCHANGED <<nonceStore, sealed, stored, seals, grants>>
  BY DEF cacheVars
<1>2. \/ Continuous(k)'
      \/ new.cpSeq = 0 /\ \E d \in Calls : call'[d].at = "upserted" /\ call'[d].key = k
  BY <1>1 DEF IInv, ContinuityHolds
<1>3. /\ principal' \in [Keys -> Principal]
      /\ \A j \in Keys : principal[j].exists => principal'[j].exists
      /\ \A j \in Keys : ~principal'[j].exists => principal'[j].cpSeq = 0
      /\ SealedHonest' /\ ContinuityHolds'
  BY <1>1, <1>2, PrincipalMoves
<1>4. TypeOK'
  BY <1>1, <1>3 DEF IInv, TypeOK
<1>5. ExistsFirst'
  <2>1. \A c \in Calls : call[c].at \in {"upserted", "hashing"} => call[c].key \in Keys
    BY CallCases DEF IInv, Binding, BindCall, HashCall
  <2>. QED BY <1>1, <1>3, <2>1 DEF IInv, ExistsFirst
<1>. QED BY <1>1, <1>3, <1>4, <1>5 DEF IInv, NoncesHeld, SeenHonest

LEMMA OperationSteps ==
  ASSUME IInv, NEW k \in Keys
  PROVE  /\ \A a \in Agents : AppendStreamEvent(k, a) => IInv'
         /\ \A a \in Agents, s \in Sessions : CloseSession(k, a, s) => IInv'
         /\ SealPrincipalCache(k) => IInv'
<1>0. TypeOK /\ principal[k] \in Principal /\ principal[k].cpSeq \in Nat
      /\ events \in [Keys \X Agents -> Nat]
  BY PrincipalTypes DEF IInv, TypeOK
<1>1. ASSUME NEW a \in Agents, AppendStreamEvent(k, a) PROVE IInv'
  <2> DEFINE e == WithEvent(k, a)
             new == Checkpointed(principal[k], k, e)
  <2>1. /\ principal[k].exists /\ events' = e /\ principal' = [principal EXCEPT ![k] = new]
        /\ UNCHANGED <<policy, proofNonces, cacheVars, call, binds>>
    BY <1>1 DEF AppendStreamEvent
  <2>2. /\ e \in [Keys \X Agents -> Nat]
        /\ \A j \in Keys, b \in Agents : j # k => e[<<j, b>>] = events[<<j, b>>]
    BY <1>0, WithEventType
  <2> HIDE DEF e
  <2>3. /\ new \in Principal /\ new.exists = principal[k].exists
        /\ new.context = principal[k].context /\ new.cpSeq = principal[k].cpSeq + 1
    BY <1>0, <2>2, CheckpointedFields
  <2>4. principal'[k] = new
    BY <1>0, <2>1 DEF TypeOK
  <2>5. Continuous(k)'
    BY <1>0, <2>1, <2>2, <2>4, CheckpointIsContinuous
  <2> HIDE DEF new
  <2>6. new.exists /\ new.cpSeq >= principal[k].cpSeq /\ new.context = principal[k].context
    BY <1>0, <2>1, <2>3
  <2>. QED BY <2>1, <2>2, <2>3, <2>5, <2>6, PrincipalAlone
<1>2. ASSUME NEW a \in Agents, NEW s \in Sessions, CloseSession(k, a, s) PROVE IInv'
  <2> DEFINE left == [principal[k] EXCEPT !.active = @ \ {s}]
             e == WithEvent(k, a)
             new == Checkpointed(left, k, e)
  <2>1. /\ principal[k].exists /\ UNCHANGED <<policy, proofNonces, cacheVars, call, binds>>
        /\ \/ principal' = [principal EXCEPT ![k] = left] /\ events' = events
           \/ principal' = [principal EXCEPT ![k] = new] /\ events' = e
    BY <1>2 DEF CloseSession
  <2>2. /\ left \in Principal /\ left.exists = principal[k].exists
        /\ left.context = principal[k].context /\ left.cpSeq = principal[k].cpSeq
        /\ left.streams = principal[k].streams /\ left.cpHeads = principal[k].cpHeads
    BY <1>0 DEF Principal
  <2>3. /\ e \in [Keys \X Agents -> Nat]
        /\ \A j \in Keys, b \in Agents : j # k => e[<<j, b>>] = events[<<j, b>>]
    BY <1>0, WithEventType
  <2> HIDE DEF e, left
  <2>4. CASE principal' = [principal EXCEPT ![k] = left] /\ events' = events
    <3>1. principal'[k] = left
      BY <1>0, <2>4 DEF TypeOK
    <3>2. Continuous(k) => Continuous(k)'
      BY <2>2, <2>4, <3>1 DEF Continuous
    <3>3. left.exists /\ left.cpSeq >= principal[k].cpSeq
      BY <1>0, <2>1, <2>2
    <3>. QED BY <1>0, <2>1, <2>2, <2>4, <3>2, <3>3, PrincipalAlone
  <2>5. CASE principal' = [principal EXCEPT ![k] = new] /\ events' = e
    <3>1. /\ new \in Principal /\ new.exists = left.exists
          /\ new.context = left.context /\ new.cpSeq = left.cpSeq + 1
      BY <2>2, <2>3, CheckpointedFields
    <3>2. principal'[k] = new
      BY <1>0, <2>5 DEF TypeOK
    <3>3. Continuous(k)'
      BY <2>2, <2>3, <2>5, <3>2, CheckpointIsContinuous
    <3> HIDE DEF new
    <3>4. new.exists /\ new.cpSeq >= principal[k].cpSeq /\ new.context = principal[k].context
      BY <1>0, <2>1, <2>2, <3>1
    <3>. QED BY <2>1, <2>3, <2>5, <3>1, <3>3, <3>4, PrincipalAlone
  <2>. QED BY <2>1, <2>4, <2>5
<1>3. ASSUME SealPrincipalCache(k) PROVE IInv'
  <2>1. /\ principal[k].cpSeq > 0 /\ seals' = seals + 1 /\ sealed' = sealed \cup {EntryOf(k)}
        /\ UNCHANGED <<principal, events, policy, proofNonces, nonceStore, stored, call, binds, grants>>
    BY <1>3 DEF SealPrincipalCache
  <2>2. /\ EntryOf(k) \in Entry /\ EntryOf(k).key = k /\ EntryOf(k).cp = principal[k].cpSeq
        /\ EntryOf(k).context = principal[k].context
    BY <1>0, PrincipalTypes, Kept DEF EntryOf, Entry
  <2>3. TypeOK'
    BY <2>1, <2>2, Kept DEF IInv, TypeOK
  <2>4. SealedHonest'
    BY <1>0, <2>1, <2>2 DEF IInv, SealedHonest
  <2>. QED BY <2>1, <2>3, <2>4
           DEF IInv, NoncesHeld, ExistsFirst, SeenHonest, ContinuityHolds, Continuous
<1>. QED BY <1>1, <1>2, <1>3

\* SeenBy adds to what a cached answer is judged by, and changes nothing else.
LEMMA SeenByFields ==
  ASSUME TypeOK, NEW d \in Calls, NEW k \in Keys, NEW x \in AnyContext
  PROVE  /\ SeenBy(call[d], k, x) \in Call
         /\ SeenBy(call[d], k, x).at = call[d].at
         /\ call[d].at \notin {"consuming", "unsealing"} => SeenBy(call[d], k, x) = call[d]
         /\ call[d].at \in {"consuming", "unsealing"} =>
              /\ SeenBy(call[d], k, x).entry = call[d].entry
              /\ call[d].seen \subseteq SeenBy(call[d], k, x).seen
         /\ call[d].at = "unsealing" => SeenBy(call[d], k, x).expect = call[d].expect
<1> DEFINE y == [call[d] EXCEPT !.seen = @ \cup {x}]
<1>0. call[d] \in Call
  BY CallCases
<1>1. CASE call[d].at = "consuming"
  <2>1. call[d] \in ConsumeCall
    BY <1>1, CallCases
  <2>2. y \in ConsumeCall /\ y.at = call[d].at /\ y.entry = call[d].entry /\ call[d].seen \subseteq y.seen
    BY <2>1 DEF ConsumeCall
  <2> HIDE DEF y
  <2>3. SeenBy(call[d], k, x) = y \/ SeenBy(call[d], k, x) = call[d]
    BY DEF SeenBy, y
  <2>4. y \in Call
    BY <2>2, CallSets
  <2>. QED BY <1>0, <1>1, <2>2, <2>3, <2>4
<1>2. CASE call[d].at = "unsealing"
  <2>1. call[d] \in UnsealCall
    BY <1>2, CallCases
  <2>2. /\ y \in UnsealCall /\ y.at = call[d].at /\ y.entry = call[d].entry
        /\ call[d].seen \subseteq y.seen /\ y.expect = call[d].expect
    BY <2>1 DEF UnsealCall
  <2> HIDE DEF y
  <2>3. SeenBy(call[d], k, x) = y \/ SeenBy(call[d], k, x) = call[d]
    BY DEF SeenBy, y
  <2>4. y \in Call
    BY <2>2, CallSets
  <2>. QED BY <1>0, <1>2, <2>2, <2>3, <2>4
<1>3. CASE call[d].at \notin {"consuming", "unsealing"}
  <2>1. SeenBy(call[d], k, x) = call[d]
    BY <1>3 DEF SeenBy
  <2>. QED BY <1>0, <1>3, <2>1
<1>. QED BY <1>1, <1>2, <1>3

LEMMA UpsertStep ==
  ASSUME IInv, NEW c \in Calls, Upsert(c)
  PROVE  IInv'
<1> DEFINE k == call[c].key
           r == [call[c] EXCEPT !.at = "upserted"]
<1>1. /\ call[c].at = "upserting" /\ Step(c, r)
      /\ UNCHANGED <<events, policy, binds>> /\ proofNonces' = proofNonces
      /\ UNCHANGED <<nonceStore, sealed, stored, seals, grants>>
  BY DEF Upsert, cacheVars
<1>2. call[c] \in BindCall /\ TypeOK
  BY <1>1, CallCases DEF IInv, Binding
<1>3. /\ r \in BindCall /\ r.at = "upserted" /\ r.key = k /\ r.nonce = call[c].nonce
      /\ k \in Keys /\ call[c].nonce \in Nonces /\ call[c].context \in AnyContext
  BY <1>2 DEF BindCall, Binding
<1> HIDE DEF r
<1>4. /\ r \in Call /\ r.nonce \in proofNonces /\ binds[r.nonce] = 0
      /\ \A d \in Calls : d # c /\ call[d].at \in Consumed => call[d].nonce # r.nonce
  BY <1>1, <1>3, CallSets DEF IInv, NoncesHeld, Consumed
<1>5. CASE principal[k].exists
  <2>1. principal' = principal
    BY <1>5 DEF Upsert
  <2>. QED BY <1>1, <1>3, <1>4, <1>5, <2>1, Kept, CallMoves
<1>6. CASE ~principal[k].exists
  <2> DEFINE new == [NewPrincipal(k) EXCEPT !.exists = TRUE, !.context = call[c].context]
  <2>1. principal' = [principal EXCEPT ![k] = new]
    BY <1>6 DEF Upsert
  <2>2. new \in Principal /\ new.exists /\ new.cpSeq = 0 /\ principal[k].cpSeq = 0
    <3>1. NewPrincipal(k) \in Principal /\ NewPrincipal(k).cpSeq = 0
      BY <1>3 DEF NewPrincipal, Principal, Heads, AnyContext
    <3>2. new \in Principal /\ new.exists = TRUE /\ new.cpSeq = NewPrincipal(k).cpSeq
      BY <1>3, <3>1 DEF Principal
    <3>. QED BY <1>3, <1>6, <3>1, <3>2 DEF IInv, ExistsFirst
  <2> HIDE DEF new
  <2>3. /\ call' \in [Calls -> Call] /\ call'[c] = r
        /\ \A d \in Calls : d # c => call'[d] = call[d]
    BY <1>1, <1>2, <1>4, StepMoves
  <2>4. \A d \in Calls : call[d].at = "upserted" => call'[d] = call[d]
    BY <1>1, <2>3
  <2>5. /\ \A j \in Keys : j # k => principal'[j] = principal[j]
        /\ principal'[k] = new /\ principal' \in [Keys -> Principal]
        /\ \A j \in Keys : principal[j].exists => principal'[j].exists
        /\ \A j \in Keys : ~principal'[j].exists => principal'[j].cpSeq = 0
        /\ SealedHonest' /\ ContinuityHolds'
    <3>1. new.cpSeq = 0 /\ \E d \in Calls : call'[d].at = "upserted" /\ call'[d].key = k
      BY <1>3, <2>2, <2>3
    <3>2. \A j \in Keys, b \in Agents : j # k => events'[<<j, b>>] = events[<<j, b>>]
      BY <1>1
    <3>3. new.cpSeq >= principal[k].cpSeq /\ ~(new.cpSeq > 0)
      BY <2>2
    <3> HIDE DEF k
    <3>. QED BY <1>1, <1>3, <2>1, <2>2, <2>4, <3>1, <3>2, <3>3, PrincipalMoves
  <2>6. TypeOK'
    BY <1>1, <1>2, <2>3, <2>5 DEF TypeOK
  <2>7. NoncesHeld'
    BY <1>1, <1>3, <1>4, <2>3 DEF IInv, NoncesHeld
  <2>8. ExistsFirst'
    <3>1. \A d \in Calls : call[d].at \in {"upserted", "hashing"} => call[d].key \in Keys
      BY CallCases DEF IInv, Binding, BindCall, HashCall
    <3>2. ASSUME NEW d \in Calls, call'[d].at \in {"upserted", "hashing"} PROVE principal'[call'[d].key].exists
      <4>1. CASE d = c
        BY <1>3, <2>2, <2>3, <2>5, <4>1
      <4>2. CASE d # c
        BY <2>3, <2>5, <3>1, <3>2, <4>2 DEF IInv, ExistsFirst
      <4>. QED BY <4>1, <4>2
    <3>. QED BY <2>5, <3>2 DEF ExistsFirst
  <2>9. SeenHonest'
    BY <1>3, <2>3 DEF IInv, SeenHonest
  <2>. QED BY <2>5, <2>6, <2>7, <2>8, <2>9 DEF IInv
<1>. QED BY <1>5, <1>6

\* The end of bindSession: the only use of the nonce is spent, and the checkpoint commits
\* the new context together with the heads of the streams.
LEMMA FinishBindStep ==
  ASSUME IInv, NEW c \in Calls, FinishBind(c)
  PROVE  IInv'
<1>0. call[c].at = "upserted" /\ call[c] \in BindCall
  BY CallCases DEF IInv, FinishBind, Binding
<1>k. PICK k \in Keys : k = call[c].key
  BY <1>0 DEF BindCall
<1> DEFINE r == call[c]
           bound == Bound(principal[k], r)
           e == WithEvent(k, r.agent)
           new == Checkpointed(bound, k, e)
<1>1. /\ r.at = "upserted" /\ events' = e /\ principal' = [principal EXCEPT ![k] = new]
      /\ call' = [d \in Calls |-> IF d = c THEN Idle ELSE SeenBy(call[d], k, bound.context)]
      /\ binds' = [binds EXCEPT ![r.nonce] = @ + 1]
      /\ UNCHANGED <<policy, proofNonces>>
      /\ UNCHANGED <<nonceStore, sealed, stored, seals, grants>>
  BY <1>k DEF FinishBind, cacheVars
<1>2. TypeOK /\ r \in BindCall /\ k \in Keys /\ r.nonce \in Nonces /\ r.agent \in Agents
  BY <1>1, <1>k, CallCases DEF IInv, Binding, BindCall
<1>3. principal[k] \in Principal /\ principal[k].cpSeq \in Nat /\ principal[k].exists
  BY <1>1, <1>2, <1>k, PrincipalTypes DEF IInv, ExistsFirst
<1>4. /\ bound \in Principal /\ bound.exists = principal[k].exists /\ bound.cpSeq = principal[k].cpSeq
  BY <1>2, <1>3, BoundFields
<1>5. bound.context \in AnyContext
  BY <1>4 DEF Principal
<1>6. /\ e \in [Keys \X Agents -> Nat]
      /\ \A j \in Keys, b \in Agents : j # k => e[<<j, b>>] = events[<<j, b>>]
  BY <1>2, WithEventType
<1> HIDE DEF bound, e
<1>7. new \in Principal /\ new.exists = bound.exists /\ new.cpSeq = bound.cpSeq + 1
  BY <1>2, <1>4, <1>6, CheckpointedFields
<1>8. principal'[k] = new
  BY <1>1, <1>2 DEF TypeOK
<1>9. Continuous(k)'
  BY <1>1, <1>2, <1>4, <1>6, <1>8, CheckpointIsContinuous
<1> HIDE DEF new
<1>10. /\ call' \in [Calls -> Call] /\ call'[c] = Idle /\ call'[c].at = "idle"
       /\ \A d \in Calls : d # c => call'[d] = SeenBy(call[d], k, bound.context)
  BY <1>1, <1>2, <1>5, SeenByFields, CallSets
<1>11. \A d \in Calls : d # c => /\ call'[d].at = call[d].at
                                 /\ call[d].at \notin {"consuming", "unsealing"} => call'[d] = call[d]
  BY <1>2, <1>5, <1>10, SeenByFields
<1>12. /\ \A j \in Keys : principal[j].exists => principal'[j].exists
       /\ principal' \in [Keys -> Principal]
       /\ \A j \in Keys : ~principal'[j].exists => principal'[j].cpSeq = 0
       /\ SealedHonest' /\ ContinuityHolds'
  <2>1. new.exists /\ new.cpSeq >= principal[k].cpSeq /\ ~(new.cpSeq = principal[k].cpSeq)
    BY <1>3, <1>4, <1>7
  <2>2. \A d \in Calls : call[d].at = "upserted" /\ call[d].key # k => call'[d] = call[d]
    BY <1>11, <1>k
  <2>3. /\ principal' = [principal EXCEPT ![k] = new] /\ sealed' = sealed
        /\ \A j \in Keys, b \in Agents : j # k => events'[<<j, b>>] = events[<<j, b>>]
    BY <1>1, <1>6
  <2>. QED BY <1>7, <1>9, <2>1, <2>2, <2>3, PrincipalMoves
<1>13. /\ binds' \in [Nonces -> Nat] /\ binds'[r.nonce] = 1
       /\ \A n \in Nonces : n # r.nonce => binds'[n] = binds[n]
  <2>1. binds[r.nonce] = 0
    BY <1>1 DEF IInv, NoncesHeld, Consumed
  <2>. QED BY <1>1, <1>2, <2>1, Kept
<1>14. TypeOK'
  BY <1>1, <1>2, <1>6, <1>10, <1>12, <1>13 DEF TypeOK
<1>15. NoncesHeld'
  <2>1. r.nonce \in proofNonces
    BY <1>1 DEF IInv, NoncesHeld, Consumed
  <2>2. \A d \in Calls : call'[d].at \in Consumed => /\ d # c /\ call'[d] = call[d]
                                                     /\ call[d].nonce # r.nonce
                                                     /\ call[d].nonce \in Nonces
    BY <1>1, <1>2, <1>10, <1>11, CallCases DEF IInv, NoncesHeld, Consumed, Binding, BindCall
  <2>3. /\ \A d \in Calls : call'[d].at \in Consumed =>
             call'[d].nonce \in proofNonces' /\ binds'[call'[d].nonce] = 0
        /\ \A d, f \in Calls :
             call'[d].at \in Consumed /\ call'[f].at \in Consumed /\ call'[d].nonce = call'[f].nonce => d = f
    BY <1>1, <1>13, <2>2 DEF IInv, NoncesHeld
  <2>4. \A n \in Nonces : binds'[n] <= 1 /\ (binds'[n] > 0 => n \in proofNonces')
    BY <1>1, <1>13, <2>1 DEF IInv, NoncesHeld
  <2>. QED BY <1>1, <2>3, <2>4 DEF IInv, NoncesHeld
<1>16. ExistsFirst'
  <2>1. \A d \in Calls : call'[d].at \in {"upserted", "hashing"} =>
          call'[d] = call[d] /\ call[d].key \in Keys /\ principal[call[d].key].exists
    BY <1>2, <1>10, <1>11, CallCases DEF IInv, ExistsFirst, Binding, BindCall, HashCall
  <2>. QED BY <1>12, <2>1 DEF ExistsFirst
<1>17. SeenHonest'
  <2>1. ASSUME NEW d \in Calls, call'[d].at = "consuming" PROVE call'[d].entry.context \in call'[d].seen
    BY <1>2, <1>5, <1>10, <1>11, <2>1, SeenByFields DEF IInv, SeenHonest
  <2>2. ASSUME NEW d \in Calls, call'[d].at = "unsealing" PROVE call'[d].expect \in call'[d].seen
    BY <1>2, <1>5, <1>10, <1>11, <2>2, SeenByFields DEF IInv, SeenHonest
  <2>. QED BY <2>1, <2>2 DEF SeenHonest
<1>. QED BY <1>12, <1>14, <1>15, <1>16, <1>17 DEF IInv

\* A step of a rotation: the principal changes together with the call that rotates it.
LEMMA RotateMoves ==
  ASSUME IInv, NEW c \in Calls, NEW r \in Call, NEW k \in Keys, NEW new \in Principal,
         Step(c, r), call[c].at # "upserted", r.at = "idle" \/ (r.at = "hashing" /\ r.key = k),
         principal[k].exists, principal' = [principal EXCEPT ![k] = new],
         UNCHANGED <<events, policy, proofNonces, cacheVars, binds>>,
         new.exists, new.cpSeq >= principal[k].cpSeq, new.context = principal[k].context,
         \/ Continuous(k)'
         \/ new.cpSeq = principal[k].cpSeq /\ (Continuous(k) => Continuous(k)')
  PROVE  IInv'
<1>1. /\ UNCHANGED <<events, policy, proofNonces, binds>>
      /\ UNCHANGED <<nonceStore, sealed, stored, seals, grants>>
  BY DEF cacheVars
<1>2. /\ call' \in [Calls -> Call] /\ call'[c] = r
      /\ \A d \in Calls : d # c => call'[d] = call[d]
  BY StepMoves DEF IInv
<1>3. \/ Continuous(k)'
      \/ new.cpSeq = 0 /\ \E d \in Calls : call'[d].at = "upserted" /\ call'[d].key = k
  <2>1. SUFFICES ASSUME ~Continuous(k)', ~Continuous(k), new.cpSeq = principal[k].cpSeq
                 PROVE  new.cpSeq = 0 /\ \E d \in Calls : call'[d].at = "upserted" /\ call'[d].key = k
    OBVIOUS
  <2>2. PICK d \in Calls : call[d].at = "upserted" /\ call[d].key = k /\ principal[k].cpSeq = 0
    BY <2>1 DEF IInv, ContinuityHolds
  <2>. QED BY <1>2, <2>1, <2>2
<1>4. /\ \A d \in Calls : call[d].at = "upserted" /\ call[d].key # k => call'[d] = call[d]
      /\ \A j \in Keys, b \in Agents : j # k => events'[<<j, b>>] = events[<<j, b>>]
      /\ sealed' = sealed
  BY <1>1, <1>2
<1>5. /\ principal' \in [Keys -> Principal]
      /\ \A j \in Keys : principal[j].exists => principal'[j].exists
      /\ \A j \in Keys : ~principal'[j].exists => principal'[j].cpSeq = 0
      /\ SealedHonest' /\ ContinuityHolds'
  BY <1>3, <1>4, PrincipalMoves
<1>6. TypeOK'
  BY <1>1, <1>2, <1>5 DEF IInv, TypeOK
<1>7. ExistsFirst'
  <2>1. \A d \in Calls : call[d].at \in {"upserted", "hashing"} => call[d].key \in Keys
    BY CallCases DEF IInv, Binding, BindCall, HashCall
  <2>2. ASSUME NEW d \in Calls, call'[d].at \in {"upserted", "hashing"}
        PROVE  principal'[call'[d].key].exists
    BY <1>2, <1>5, <2>1, <2>2 DEF IInv, ExistsFirst
  <2>. QED BY <1>5, <2>2 DEF ExistsFirst
<1>8. NoncesHeld' /\ SeenHonest'
  BY <1>1, <1>2 DEF IInv, NoncesHeld, SeenHonest, Consumed
<1>. QED BY <1>5, <1>6, <1>7, <1>8 DEF IInv

LEMMA RotateSteps ==
  ASSUME IInv, NEW c \in Calls
  PROVE  /\ \A k, jwk \in Keys : StartRotate(c, k, jwk) => IInv'
         /\ FinishRotate(c) => IInv'
<1>0. TypeOK
  BY DEF IInv
<1>1. ASSUME NEW k \in Keys, NEW jwk \in Keys, StartRotate(c, k, jwk) PROVE IInv'
  <2> DEFINE new == [principal[k] EXCEPT !.jwk = jwk]
             r == [at |-> "hashing", key |-> k, jwk |-> jwk]
  <2>1. /\ call[c].at # "upserted" /\ principal[k].exists /\ Step(c, r)
        /\ principal' = [principal EXCEPT ![k] = new]
        /\ UNCHANGED <<events, policy, proofNonces, cacheVars, binds>>
    BY <1>1 DEF StartRotate, Free
  <2>2. /\ new \in Principal /\ new.exists = principal[k].exists /\ new.context = principal[k].context
        /\ new.cpSeq = principal[k].cpSeq /\ new.streams = principal[k].streams
        /\ new.cpHeads = principal[k].cpHeads /\ principal[k].cpSeq \in Nat
    BY <1>0, PrincipalTypes DEF Principal
  <2>3. r \in HashCall /\ r.at = "hashing" /\ r.key = k
    BY DEF HashCall
  <2> HIDE DEF new, r
  <2>4. r \in Call
    BY <2>3, CallSets
  <2>5. principal'[k] = new
    BY <1>0, <2>1 DEF TypeOK
  <2>6. Continuous(k) => Continuous(k)'
    BY <2>1, <2>2, <2>5 DEF Continuous
  <2>7. new.exists /\ new.cpSeq >= principal[k].cpSeq
    BY <2>1, <2>2
  <2>. QED BY <2>1, <2>2, <2>3, <2>4, <2>6, <2>7, RotateMoves
<1>2. ASSUME FinishRotate(c) PROVE IInv'
  <2>0. call[c].at = "hashing" /\ call[c] \in HashCall
    BY <1>0, <1>2, CallCases DEF FinishRotate
  <2>k. PICK k \in Keys, jwk \in Keys : k = call[c].key /\ jwk = call[c].jwk
    BY <2>0 DEF HashCall
  <2> DEFINE v == principal[k].version + 1
             pr == [principal[k] EXCEPT !.fingerprint = jwk, !.version = v]
             new == Checkpointed(pr, k, events)
  <2>1. /\ principal' = [principal EXCEPT ![k] = new] /\ Step(c, Idle)
        /\ UNCHANGED <<events, policy, proofNonces, cacheVars, binds>>
    BY <1>2, <2>k DEF FinishRotate
  <2>2. /\ principal[k] \in Principal /\ principal[k].exists /\ principal[k].cpSeq \in Nat
        /\ v \in Nat
    BY <1>0, <2>0, <2>k, PrincipalTypes DEF IInv, ExistsFirst, Principal
  <2> HIDE DEF v
  <2>3. /\ pr \in Principal /\ pr.exists = principal[k].exists /\ pr.context = principal[k].context
        /\ pr.cpSeq = principal[k].cpSeq
    BY <2>2 DEF Principal
  <2> HIDE DEF pr
  <2>4. /\ events \in [Keys \X Agents -> Nat] /\ principal'[k] = new /\ events' = events
    BY <1>0, <2>1 DEF TypeOK
  <2>5. /\ new \in Principal /\ new.exists = pr.exists /\ new.context = pr.context
        /\ new.cpSeq = pr.cpSeq + 1
    BY <2>3, <2>4, CheckpointedFields
  <2>6. Continuous(k)'
    BY <2>3, <2>4, CheckpointIsContinuous
  <2> HIDE DEF new
  <2>7. /\ new.exists /\ new.cpSeq >= principal[k].cpSeq /\ new.context = principal[k].context
        /\ call[c].at # "upserted"
    BY <2>0, <2>2, <2>3, <2>5
  <2>. QED BY <2>1, <2>2, <2>5, <2>6, <2>7, CallSets, RotateMoves
<1>. QED BY <1>1, <1>2

LEMMA NextIInv == IInv /\ [Next]_vars => IInv'
<1> SUFFICES ASSUME IInv, [Next]_vars PROVE IInv'
  OBVIOUS
<1>1. ASSUME NEW x \in Contexts, SetPolicy(x) PROVE IInv'
  <2>1. /\ policy' \in AnyContext
        /\ UNCHANGED <<principal, events, proofNonces, nonceStore, sealed, stored, seals, grants, call, binds>>
    BY <1>1 DEF SetPolicy, cacheVars, AnyContext
  <2>. QED BY <2>1 DEF IInv, TypeOK, NoncesHeld, ExistsFirst, SealedHonest, SeenHonest,
                       ContinuityHolds, Continuous
<1>2. CASE UNCHANGED vars
  BY <1>2 DEF vars, IInv, TypeOK, NoncesHeld, ExistsFirst, SealedHonest, SeenHonest,
              ContinuityHolds, Continuous
<1>3. CASE \E c \in Calls :
             \/ \E k \in Keys, s \in Sessions, a \in Agents, n \in Nonces : StartBind(c, k, s, a, n)
             \/ ConsumeProof(c) \/ Resolve(c) \/ RotateFails(c)
  BY <1>3, BindSteps
<1>4. CASE \E c \in Calls :
             \/ \E entry \in sealed, n \in Nonces : StartFallback(c, entry, n)
             \/ FinishFallback(c)
             \/ \E k \in Keys : StartWrite(c, k) \/ StartRead(c, k)
             \/ FinishWrite(c) \/ FinishRead(c)
  BY <1>4, CacheSteps
<1>5. CASE \E c \in Calls : \/ Upsert(c) \/ FinishBind(c) \/ FinishRotate(c)
                            \/ \E k, jwk \in Keys : StartRotate(c, k, jwk)
  BY <1>5, UpsertStep, FinishBindStep, RotateSteps
<1>6. CASE \E k \in Keys :
             \/ SealPrincipalCache(k)
             \/ \E a \in Agents : \/ AppendStreamEvent(k, a)
                                  \/ \E s \in Sessions : CloseSession(k, a, s)
  BY <1>6, OperationSteps
<1>. QED BY <1>1, <1>2, <1>3, <1>4, <1>5, <1>6 DEF Next

------------------------------------------------------------------------------

\* Every reachable state satisfies the invariant: one accepted use per nonce, checkpoints
\* only of principals that exist, and sealed caches that agree with their checkpoint
\* (bindSession, rotatePrincipalKey, sealPrincipalCache).
THEOREM LedgerInvariance == Spec => []IInv
<1>1. Init => IInv
  BY InitIInv
<1>2. IInv /\ [Next]_vars => IInv'
  BY NextIInv
<1>. QED BY <1>1, <1>2, PTL DEF Spec

\* Every principal that was bound verifies its continuity at every moment, however many
\* binds, rotations, events and closes of it are in flight (appendCheckpoint,
\* verifyPrincipalContinuity).
THEOREM ContinuityAlwaysVerifies == Spec => []ContinuityHolds
<1>1. IInv => ContinuityHolds
  BY DEF IInv
<1>. QED BY <1>1, LedgerInvariance, PTL

\* A signed proof binds at most one session and a fall-back nonce authorizes at most one
\* request, whatever copies are verified at the same time (consumedProofNonces,
\* verifyFallbackAuthorization).
THEOREM ProofsSpentOnce == Spec => []NoncesSpentOnce
<1>1. IInv => NoncesSpentOnce
  BY DEF IInv, NoncesHeld, NoncesSpentOnce
<1>. QED BY <1>1, LedgerInvariance, PTL

\* Only the end of a read turns a call that unseals an entry into one that was granted.
LEMMA GrantedByRead ==
  ASSUME TypeOK, Next, NEW c \in Calls, call[c].at = "unsealing", call'[c].at = "granted"
  PROVE  FinishRead(c)
<1>0. call'[c] # call[c] /\ call'[c].at # "unsealing"
  OBVIOUS
<1>1. ASSUME NEW d \in Calls, NEW r, Step(d, r) PROVE d = c
  BY <1>0, <1>1 DEF Step, TypeOK
<1>2. ASSUME NEW d \in Calls, FinishBind(d) PROVE FALSE
  <2>0. call[d].at = "upserted" /\ call[d] \in BindCall
    BY <1>2, CallCases DEF FinishBind, Binding
  <2>1. PICK k \in Keys : k = call[d].key
    BY <2>0 DEF BindCall
  <2> DEFINE x == Bound(principal[k], call[d]).context
  <2>2. call' = [f \in Calls |-> IF f = d THEN Idle ELSE SeenBy(call[f], k, x)]
    BY <1>2, <2>1 DEF FinishBind
  <2>3. x \in AnyContext
    BY <2>0, PrincipalTypes, BoundFields DEF Principal
  <2> HIDE DEF x
  <2>4. SeenBy(call[c], k, x).at = call[c].at
    BY <2>3, SeenByFields
  <2>. QED BY <1>0, <2>0, <2>2, <2>4
<1>3. ASSUME NEW d \in Calls,
             \/ \E k \in Keys, s \in Sessions, a \in Agents, n \in Nonces : StartBind(d, k, s, a, n)
             \/ ConsumeProof(d) \/ Resolve(d) \/ Upsert(d)
             \/ \E k, jwk \in Keys : StartRotate(d, k, jwk)
             \/ FinishRotate(d) \/ RotateFails(d)
      PROVE  FALSE
  <2>1. call[d].at # "unsealing" /\ \E r : Step(d, r)
    BY <1>3 DEF StartBind, ConsumeProof, Resolve, Upsert, StartRotate, FinishRotate, RotateFails, Free
  <2>. QED BY <1>1, <2>1
<1>4. ASSUME NEW d \in Calls,
             \/ \E entry \in sealed, n \in Nonces : StartFallback(d, entry, n)
             \/ FinishFallback(d)
             \/ \E k \in Keys : StartWrite(d, k) \/ StartRead(d, k)
             \/ FinishWrite(d)
      PROVE  FALSE
  <2>1. call[d].at # "unsealing" /\ \E r : Step(d, r)
    BY <1>4 DEF StartFallback, FinishFallback, StartWrite, StartRead, FinishWrite, Free
  <2>. QED BY <1>1, <2>1
<1>5. ASSUME NEW d \in Calls, FinishRead(d) PROVE d = c
  BY <1>1, <1>5 DEF FinishRead
<1>6. ASSUME \/ \E x \in Contexts : SetPolicy(x)
             \/ \E k \in Keys : \/ SealPrincipalCache(k)
                                \/ \E a \in Agents : \/ AppendStreamEvent(k, a)
                                                     \/ \E s \in Sessions : CloseSession(k, a, s)
      PROVE  FALSE
  BY <1>0, <1>6 DEF SetPolicy, SealPrincipalCache, AppendStreamEvent, CloseSession
<1>. QED BY <1>2, <1>3, <1>4, <1>5, <1>6 DEF Next

\* Neither cache grants a context the principal did not have during the call, for any
\* number of calls and rebinds in flight (verifyFallbackAuthorization,
\* validateEntryAgainstCurrentState).
THEOREM CachesGrantWhatWasSeen == Spec => GrantsSeenContext
<1> DEFINE Seen == \A c \in Calls :
             call[c].at \in {"consuming", "unsealing"} /\ call'[c].at = "granted"
               => call[c].entry.context \in call[c].seen
<1>1. IInv /\ [Next]_vars => [Seen]_vars
  <2> SUFFICES ASSUME IInv, Next, NEW c \in Calls, call[c].at = "unsealing", call'[c].at = "granted"
               PROVE  call[c].entry.context \in call[c].seen
    BY DEF IInv, SeenHonest
  <2>1. FinishRead(c) /\ TypeOK /\ Idle.at = "idle"
    BY GrantedByRead, CallSets DEF IInv
  <2>2. ~Step(c, Idle)
    BY <2>1 DEF Step, TypeOK
  <2>3. call[c].entry.context = call[c].expect
    BY <2>1, <2>2 DEF FinishRead, IsCurrent
  <2>. QED BY <2>3 DEF IInv, SeenHonest
<1>. QED BY <1>1, LedgerInvariance, PTL DEF Spec, GrantsSeenContext

------------------------------------------------------------------------------
(* The transactor and the pair store on PostgreSQL.                        *)

\* The assumptions of PairTransactions that the proofs use.
TxConstants ==
  /\ MaxOps \in Nat /\ PoolSize \in Nat \ {0} /\ MaxFaults \in Nat
  /\ Ops \subseteq Op /\ IsFiniteSet(Txns)

LEMMA ConstantsHold == TxConstants
BY TransactionAssumption, OperationAssumption DEF TxConstants

Ats == {"acquiring", "sleeping"} \cup Running
Replies == {"none", "COMMIT", "ROLLBACK", "serialization"}
SeenBefore == [stamp: Stamps, record: Pair]
ActiveCall ==
  [at: Ats, op: Ops, id: Ids, seen: SeenBefore, attempt: Nat, open: BOOLEAN, dispatched: BOOLEAN,
   committed: BOOLEAN, rolledBack: BOOLEAN, reply: Replies, snapshot: Tables \cup {None},
   base: Nat, error: Errors]

\* No COMMIT of operation i is on its way.
Unsent(i) == \A t \in wire : t.id # i
\* Operation i was not committed and cannot be any more.
Nothing(i) == commits[i] = 0 /\ Unsent(i)

\* What a call in flight knows is true: what it believes of its COMMIT, that it has a
\* connection, and that its snapshot is of the tables at its base.
Belief(r) ==
  /\ r.id <= started /\ outcome[r.id] = "open"
  /\ ~r.dispatched => Nothing(r.id) /\ ~r.committed /\ ~r.rolledBack /\ r.reply = "none"
  /\ r.reply = "COMMIT" \/ r.committed => commits[r.id] = 1
  /\ r.reply = "ROLLBACK" \/ r.rolledBack => Nothing(r.id)
  /\ r.at \in {"acquiring", "sleeping", "begun"} => ~r.dispatched
  /\ r.at = "discarding" => r.committed
  /\ r.at \in {"acquiring", "sleeping"} => ~r.open
  /\ r.at \in {"begun", "committing", "discarding"} => r.open
  /\ r.at = "begun" => /\ r.snapshot \in Tables /\ r.base <= Len(log)
                       /\ r.base = Len(log) => r.snapshot = db

BeliefSound == \A c \in Txns : txn[c].at # "idle" => Belief(txn[c])

\* Operations of different calls are different.
OwnOperation ==
  \A c, d \in Txns : txn[c].at # "idle" /\ txn[d].at # "idle" /\ txn[c].id = txn[d].id => c = d

\* A COMMIT on its way is the only one of its operation, and one that may still succeed
\* was decided on the tables as they are.
WireSound ==
  /\ \A t \in wire : commits[t.id] = 0 /\ t.id <= started
  /\ \A t, u \in wire : t.id = u.id => t = u
  /\ \A t \in wire : /\ t.base <= Len(log)
                     /\ t.mutation # None /\ t.base = Len(log) => Applicable(db, t.mutation)

\* An operation whose caller was told something is over.
OutcomeSound ==
  \A i \in Ids :
    /\ commits[i] <= 1
    /\ i > started => commits[i] = 0 /\ outcome[i] = "open"
    /\ outcome[i] = "failed" => Nothing(i)
    /\ outcome[i] \in {"done", "postcommit"} => commits[i] = 1

Lent == {c \in Txns : txn[c].at \in Running /\ txn[c].open}

Pool == idle \in Nat /\ idle + Cardinality(Lent) = PoolSize

\* The tables after each mutation of the log: the source has the last, the replica one of
\* them, and every mutation met the tables it applies to.
History ==
  \E S : /\ S[Len(log)] = db /\ S[applied] = replica
         /\ \A i \in 1..Len(log) : Applicable(S[i - 1], log[i]) /\ S[i] = Apply(S[i - 1], log[i])

TxTypes ==
  /\ db \in Tables /\ replica \in Tables
  /\ log \in Seq(Mutation) /\ applied \in 0..Len(log)
  /\ dirty = 0 /\ orphans \in Nat
  /\ txn \in [Txns -> Txn]
  /\ wire \subseteq Commit
  /\ started \in 0..MaxOps /\ faults \in 0..MaxFaults
  /\ outcome \in [Ids -> {"open", "done", "failed", "ambiguous", "postcommit"}]
  /\ commits \in [Ids -> Nat]

TxInv ==
  /\ TxTypes /\ BeliefSound /\ OwnOperation /\ WireSound /\ OutcomeSound /\ History
  /\ Pool

------------------------------------------------------------------------------
(* Operations and mutations.                                               *)

LEMMA CallSplit ==
  /\ Txn = [at: {"idle"}] \cup ActiveCall
  /\ \A r \in Txn : r.at # "idle" => r \in ActiveCall
  /\ ActiveCall \subseteq Txn /\ NoTxn \in Txn /\ NoTxn.at = "idle"
  /\ \A r \in ActiveCall : r.at # "idle" /\ r.at \in Ats
BY DEF Txn, ActiveCall, Ats, Replies, SeenBefore, Running, NoTxn

LEMMA FixedRecords ==
  Absent \in Pair /\ Fresh \in Pair /\ Absent.status = "absent" /\ Fresh.policy = "old"
BY DEF Absent, Fresh, Pair, Policies

LEMMA TableTypes ==
  ASSUME NEW t \in Tables
  PROVE  /\ \A p \in PairIds : t.pairs[p] \in Pair
         /\ \A k \in Tokens : t.pending[k] \in Stamps
BY DEF Tables

LEMMA OpTypes ==
  ASSUME TxConstants, NEW op \in Ops
  PROVE  /\ op.kind \in {"setPending", "deletePending", "approvePending"} => op.token \in Tokens
         /\ op.kind \notin {"setPending", "deletePending"} => op.pair \in PairIds
         /\ op.kind = "rotatePair" => op.new \in PairIds
         /\ op.kind \in {"setPending", "deletePending", "approvePending", "rotatePair", "update",
                         "revoke", "claimSuccessfulUse", "lock", "delete"}
<1>1. op \in Op
  BY DEF TxConstants
<1>. QED BY <1>1 DEF Op

LEMMA SetType ==
  ASSUME NEW p \in PairIds, NEW record \in Pair
  PROVE  Set(p, record) \in Mutation /\ Set(p, record).kind = "pair.set"
BY DEF Set, Mutation

\* The records that the operations write.
LEMMA RecordUpdates ==
  ASSUME NEW record \in Pair, NEW n \in Nat,
         NEW s \in {"absent", "active", "locked", "expired", "rotated", "revoked"}
  PROVE  /\ [record EXCEPT !.status = s] \in Pair
         /\ [record EXCEPT !.requests = n, !.status = s] \in Pair
         /\ [record EXCEPT !.policy = "new"] \in Pair
         /\ \A x \in Policies : [record EXCEPT !.policy = x] \in Pair
BY DEF Pair, Policies

LEMMA ClaimType ==
  ASSUME NEW p \in PairIds, NEW record \in Pair, NEW seen
  PROVE  /\ ClaimMutation(p, record, seen) \subseteq Mutation
         /\ \A m \in ClaimMutation(p, record, seen) : m.kind = "pair.set"
<1> DEFINE n == record.requests + 1
           s == IF n >= Cap THEN "expired" ELSE record.status
           x == [record EXCEPT !.status = "expired"]
           y == [record EXCEPT !.requests = n, !.status = s]
<1>1. n \in Nat /\ s \in {"absent", "active", "locked", "expired", "rotated", "revoked"}
  BY DEF Pair
<1>2. ClaimMutation(p, record, seen) \subseteq {Set(p, x), Set(p, y)}
  BY DEF ClaimMutation
<1> HIDE DEF n, s
<1>3. x \in Pair /\ y \in Pair
  BY <1>1, RecordUpdates
<1> HIDE DEF x, y
<1>. QED BY <1>2, <1>3, SetType

\* What an operation decides on applies to the tables it was decided on, and has its type.
LEMMA DecideApplies ==
  ASSUME TxConstants, NEW op \in Ops, NEW seen \in SeenBefore, NEW t \in Tables, NEW i \in Ids,
         NEW m \in Decide(op, seen, t, i)
  PROVE  m \in Mutation /\ Applicable(t, m)
<1>0. /\ i \in Stamps /\ Ids \subseteq Stamps
  BY DEF TxConstants, Ids, Stamps
<1>1. CASE op.kind = "setPending"
  <2>1. m = [kind |-> "pending.set", token |-> op.token, stamp |-> i]
    BY <1>1 DEF Decide
  <2>2. op.token \in Tokens
    BY <1>1, OpTypes
  <2>3. m \in Mutation /\ m.kind = "pending.set"
    BY <1>0, <2>1, <2>2 DEF Mutation
  <2>. QED BY <2>3 DEF Applicable
<1>2. CASE op.kind = "deletePending"
  <2>1. m = [kind |-> "pending.delete", token |-> op.token]
    BY <1>2 DEF Decide
  <2>2. op.token \in Tokens
    BY <1>2, OpTypes
  <2>3. m \in Mutation /\ m.kind = "pending.delete"
    BY <2>1, <2>2 DEF Mutation
  <2>. QED BY <2>3 DEF Applicable
<1>3. CASE op.kind = "approvePending"
  <2>1. /\ m = [kind |-> "pair.approve", token |-> op.token, stamp |-> seen.stamp,
                pair |-> op.pair, record |-> Fresh]
        /\ t.pending[op.token] = seen.stamp /\ t.pairs[op.pair] = Absent
    BY <1>3 DEF Decide, ApproveMutation, StillPending, HasRoom
  <2>2. op.token \in Tokens /\ op.pair \in PairIds /\ seen.stamp \in Stamps
    BY <1>3, OpTypes DEF SeenBefore
  <2>3. m \in Mutation /\ m.kind = "pair.approve" /\ m.token = op.token /\ m.pair = op.pair
        /\ m.stamp = seen.stamp
    BY <2>1, <2>2, FixedRecords DEF Mutation
  <2>. QED BY <2>1, <2>3 DEF Applicable
<1>4. CASE op.kind = "rotatePair"
  <2> DEFINE x == [Fresh EXCEPT !.policy = seen.record.policy]
  <2>1. /\ m = [kind |-> "pair.rotate", old |-> op.pair, expected |-> seen.record,
                pair |-> op.new, record |-> x]
        /\ t.pairs[op.pair] = seen.record /\ t.pairs[op.new] = Absent
    BY <1>4 DEF Decide, RotateMutation
  <2>2. op.pair \in PairIds /\ op.new \in PairIds /\ seen.record \in Pair
    BY <1>4, OpTypes DEF SeenBefore
  <2>3. seen.record.policy \in Policies
    BY <2>2 DEF Pair
  <2>4. x \in Pair
    BY <2>3, FixedRecords, RecordUpdates
  <2> HIDE DEF x
  <2>5. m \in Mutation /\ m.kind = "pair.rotate" /\ m.old = op.pair /\ m.pair = op.new
        /\ m.expected = seen.record
    BY <2>1, <2>2, <2>4 DEF Mutation
  <2>. QED BY <2>1, <2>5 DEF Applicable
<1>5. CASE op.kind = "delete"
  <2>1. m = [kind |-> "pair.delete", pair |-> op.pair]
    BY <1>5 DEF Decide
  <2>2. op.pair \in PairIds
    BY <1>5, OpTypes
  <2>3. m \in Mutation /\ m.kind = "pair.delete"
    BY <2>1, <2>2 DEF Mutation
  <2>. QED BY <2>3 DEF Applicable
<1>6. CASE op.kind \in {"claimSuccessfulUse", "lock", "update", "revoke"}
  <2>1. op.pair \in PairIds /\ t.pairs[op.pair] \in Pair
    BY <1>6, OpTypes, TableTypes
  <2>2. CASE op.kind = "claimSuccessfulUse"
    <3>1. m \in ClaimMutation(op.pair, t.pairs[op.pair], seen.record)
      BY <2>2 DEF Decide
    <3>2. m \in Mutation /\ m.kind = "pair.set"
      BY <2>1, <3>1, ClaimType
    <3>. QED BY <3>2 DEF Applicable
  <2>3. CASE op.kind \in {"lock", "update", "revoke"}
    <3> DEFINE rec == t.pairs[op.pair]
    <3>1. \/ m = Set(op.pair, [rec EXCEPT !.status = "locked"])
          \/ m = Set(op.pair, [rec EXCEPT !.status = "revoked"])
          \/ m = Set(op.pair, [rec EXCEPT !.policy = "new"])
      BY <2>3 DEF Decide, StatusMutation, AtomicMutation
    <3> HIDE DEF rec
    <3>2. rec \in Pair /\ 0 \in Nat
      BY <2>1 DEF rec
    <3>3. /\ [rec EXCEPT !.status = "locked"] \in Pair /\ [rec EXCEPT !.status = "revoked"] \in Pair
          /\ [rec EXCEPT !.policy = "new"] \in Pair
      BY <3>2, RecordUpdates
    <3>4. m \in Mutation /\ m.kind = "pair.set"
      BY <2>1, <3>1, <3>3, SetType
    <3>. QED BY <3>4 DEF Applicable
  <2>. QED BY <1>6, <2>2, <2>3
<1>. QED BY <1>1, <1>2, <1>3, <1>4, <1>5, <1>6, OpTypes

LEMMA TableUpdates ==
  ASSUME NEW t \in Tables
  PROVE  /\ \A p \in PairIds, record \in Pair : [t EXCEPT !.pairs[p] = record] \in Tables
         /\ \A k \in Tokens, n \in Stamps : [t EXCEPT !.pending[k] = n] \in Tables
BY DEF Tables

\* The statements of a mutation keep the types of the tables.
LEMMA ApplyType ==
  ASSUME TxConstants, NEW t \in Tables, NEW m \in Mutation
  PROVE  Apply(t, m) \in Tables
<1>0. 0 \in Stamps
  BY DEF TxConstants, Stamps
<1>1. CASE m.kind = "pair.set"
  <2>1. m.pair \in PairIds /\ m.record \in Pair
    BY <1>1 DEF Mutation
  <2>. QED BY <1>1, <2>1, TableUpdates DEF Apply
<1>2. CASE m.kind = "pair.delete"
  <2>1. m.pair \in PairIds
    BY <1>2 DEF Mutation
  <2>. QED BY <1>2, <2>1, TableUpdates, FixedRecords DEF Apply
<1>3. CASE m.kind = "pending.set"
  <2>1. m.token \in Tokens /\ m.stamp \in Stamps
    BY <1>3 DEF Mutation
  <2>. QED BY <1>3, <2>1, TableUpdates DEF Apply
<1>4. CASE m.kind = "pending.delete"
  <2>1. m.token \in Tokens
    BY <1>4 DEF Mutation
  <2>. QED BY <1>0, <1>4, <2>1, TableUpdates DEF Apply
<1>5. CASE m.kind = "pair.approve"
  <2>1. m.token \in Tokens /\ m.pair \in PairIds /\ m.record \in Pair
    BY <1>5 DEF Mutation
  <2> DEFINE u == [t EXCEPT !.pending[m.token] = 0]
  <2>2. u \in Tables
    BY <1>0, <2>1, TableUpdates
  <2>3. Apply(t, m) = [u EXCEPT !.pairs[m.pair] = m.record]
    BY <1>5 DEF Apply
  <2> HIDE DEF u
  <2>. QED BY <2>1, <2>2, <2>3, TableUpdates
<1>6. CASE m.kind = "pair.rotate"
  <2>1. m.old \in PairIds /\ m.pair \in PairIds /\ m.record \in Pair
    BY <1>6 DEF Mutation
  <2> DEFINE o == [t.pairs[m.old] EXCEPT !.status = "rotated"]
             u == [t EXCEPT !.pairs[m.old] = o]
  <2>2. o \in Pair
    BY <2>1, TableTypes, RecordUpdates
  <2>3. Apply(t, m) = [u EXCEPT !.pairs[m.pair] = m.record]
    BY <1>6, <2>1 DEF Apply, Tables
  <2> HIDE DEF o
  <2>4. u \in Tables
    BY <2>1, <2>2, TableUpdates
  <2> HIDE DEF u
  <2>. QED BY <2>1, <2>3, <2>4, TableUpdates
<1>7. m.kind \in {"pair.set", "pair.delete", "pending.set", "pending.delete", "pair.approve", "pair.rotate"}
  BY DEF Mutation
<1>. QED BY <1>1, <1>2, <1>3, <1>4, <1>5, <1>6, <1>7

------------------------------------------------------------------------------
(* Steps of one call.                                                      *)

LEMMA TxCallTypes ==
  ASSUME TxTypes, NEW c \in Txns
  PROVE  /\ txn[c] \in Txn
         /\ txn[c].at # "idle" => txn[c] \in ActiveCall /\ txn[c].id \in Ids
<1>1. txn[c] \in Txn
  BY DEF TxTypes
<1>2. txn[c].at # "idle" => txn[c] \in ActiveCall
  BY <1>1, CallSplit
<1>. QED BY <1>1, <1>2 DEF ActiveCall

LEMMA TxCallMoves ==
  ASSUME TxTypes, NEW c \in Txns, NEW r \in Txn, TxStep(c, r)
  PROVE  /\ txn' \in [Txns -> Txn] /\ txn'[c] = r
         /\ \A d \in Txns : d # c => txn'[d] = txn[d]
BY DEF TxTypes, TxStep

\* A connection is taken from the pool or given back by the call that moves.
LEMMA PoolMoves ==
  ASSUME TxConstants, TxTypes, Pool, NEW c \in Txns, NEW r \in Txn, TxStep(c, r),
         \/ idle' = idle /\ ((r.at \in Running /\ r.open) <=> (txn[c].at \in Running /\ txn[c].open))
         \/ /\ idle' = idle + 1 /\ txn[c].at \in Running /\ txn[c].open
            /\ ~(r.at \in Running /\ r.open)
         \/ /\ idle > 0 /\ idle' = idle - 1 /\ ~(txn[c].at \in Running /\ txn[c].open)
            /\ r.at \in Running /\ r.open
  PROVE  Pool'
<1>0. /\ txn'[c] = r /\ \A d \in Txns : d # c => txn'[d] = txn[d]
  BY TxCallMoves
<1>1. IsFiniteSet(Lent) /\ Cardinality(Lent) \in Nat
  <2>1. Lent \subseteq Txns
    BY DEF Lent
  <2>2. IsFiniteSet(Lent)
    BY <2>1, FS_Subset DEF TxConstants
  <2>. QED BY <2>2, FS_CardinalityType
<1>2. PoolSize \in Nat /\ idle \in Nat /\ idle + Cardinality(Lent) = PoolSize
  BY DEF TxConstants, Pool
<1>3. CASE idle' = idle /\ ((r.at \in Running /\ r.open) <=> (txn[c].at \in Running /\ txn[c].open))
  <2>1. Lent' = Lent
    BY <1>0, <1>3 DEF Lent
  <2>. QED BY <1>2, <1>3, <2>1 DEF Pool
<1>4. CASE /\ idle' = idle + 1 /\ txn[c].at \in Running /\ txn[c].open
           /\ ~(r.at \in Running /\ r.open)
  <2>1. Lent' = Lent \ {c} /\ c \in Lent
    BY <1>0, <1>4 DEF Lent
  <2>2. Cardinality(Lent') = Cardinality(Lent) - 1
    BY <1>1, <2>1, FS_RemoveElement
  <2>. QED BY <1>1, <1>2, <1>4, <2>2 DEF Pool
<1>5. CASE /\ idle > 0 /\ idle' = idle - 1 /\ ~(txn[c].at \in Running /\ txn[c].open)
           /\ r.at \in Running /\ r.open
  <2>1. Lent' = Lent \cup {c} /\ c \notin Lent
    BY <1>0, <1>5 DEF Lent
  <2>2. Cardinality(Lent') = Cardinality(Lent) + 1
    BY <1>1, <2>1, FS_AddElement
  <2>. QED BY <1>1, <1>2, <1>5, <2>2 DEF Pool
<1>. QED BY <1>3, <1>4, <1>5

\* The source, the replica and the operations on their way are as before.
Quiet == UNCHANGED <<db, log, commits, replica, applied, wire, dirty>>
Counters == started' \in 0..MaxOps /\ faults' \in 0..MaxFaults /\ orphans' \in Nat

\* A call goes on with its operation.
LEMMA CallGoesOn ==
  ASSUME TxConstants, TxInv, NEW c \in Txns, NEW r \in ActiveCall, TxStep(c, r), Quiet, Counters,
         started' = started, outcome' = outcome, txn[c].at # "idle", r.id = txn[c].id,
         Belief(r), Pool'
  PROVE  TxInv'
<1>1. r \in Txn /\ r.at # "idle"
  BY CallSplit
<1>2. /\ txn' \in [Txns -> Txn] /\ txn'[c] = r
      /\ \A d \in Txns : d # c => txn'[d] = txn[d]
  BY <1>1, TxCallMoves DEF TxInv
<1>3. UNCHANGED <<db, log, commits, replica, applied, wire, dirty, started, outcome>>
  BY DEF Quiet
<1>4. TxTypes'
  BY <1>2, <1>3 DEF TxInv, TxTypes, Counters
<1>5. \A x : Belief(x) => \A y : y = x => Belief(y)'
  BY <1>3 DEF Belief, Nothing, Unsent
<1>6. BeliefSound'
  <2> SUFFICES ASSUME NEW d \in Txns, txn'[d].at # "idle" PROVE \A y : y = txn'[d] => Belief(y)'
    BY DEF BeliefSound
  <2>. QED BY <1>2, <1>5 DEF TxInv, BeliefSound
<1>7. OwnOperation'
  BY <1>2 DEF TxInv, OwnOperation
<1>8. WireSound' /\ OutcomeSound' /\ History'
  BY <1>3 DEF TxInv, WireSound, OutcomeSound, Nothing, Unsent, History, Applicable
<1>. QED BY <1>4, <1>6, <1>7, <1>8 DEF TxInv

\* A call ends and tells its caller what became of its operation.
LEMMA CallEnds ==
  ASSUME TxConstants, TxInv, NEW c \in Txns, TxStep(c, NoTxn), Quiet, Counters,
         started' = started, txn[c].at # "idle",
         NEW o \in {"done", "failed", "ambiguous", "postcommit"},
         outcome' = [outcome EXCEPT ![txn[c].id] = o],
         o = "failed" => Nothing(txn[c].id),
         o \in {"done", "postcommit"} => commits[txn[c].id] = 1,
         Pool'
  PROVE  TxInv'
<1>0. NoTxn \in Txn /\ NoTxn.at = "idle" /\ txn[c].id \in Ids
  BY CallSplit, TxCallTypes DEF TxInv
<1>1. PICK i \in Ids : i = txn[c].id
  BY <1>0
<1>2. /\ txn' \in [Txns -> Txn] /\ txn'[c].at = "idle"
      /\ \A d \in Txns : d # c => txn'[d] = txn[d]
  BY <1>0, TxCallMoves DEF TxInv
<1>3. UNCHANGED <<db, log, commits, replica, applied, wire, dirty, started>>
  BY DEF Quiet
<1>4. /\ outcome' \in [Ids -> {"open", "done", "failed", "ambiguous", "postcommit"}]
      /\ outcome'[i] = o /\ \A j \in Ids : j # i => outcome'[j] = outcome[j]
  BY <1>1 DEF TxInv, TxTypes
<1>5. TxTypes'
  BY <1>2, <1>3, <1>4 DEF TxInv, TxTypes, Counters
<1>6. \A x : Belief(x) /\ outcome'[x.id] = outcome[x.id] => \A y : y = x => Belief(y)'
  BY <1>3 DEF Belief, Nothing, Unsent
<1>7. BeliefSound'
  <2> SUFFICES ASSUME NEW d \in Txns, txn'[d].at # "idle" PROVE \A y : y = txn'[d] => Belief(y)'
    BY DEF BeliefSound
  <2>1. d # c /\ txn'[d] = txn[d] /\ Belief(txn[d])
    BY <1>2 DEF TxInv, BeliefSound
  <2>2. txn[d].id \in Ids /\ txn[d].id # i
    BY <1>1, <1>2, <2>1, TxCallTypes DEF TxInv, OwnOperation
  <2>. QED BY <1>4, <1>6, <2>1, <2>2
<1>8. OwnOperation'
  BY <1>2 DEF TxInv, OwnOperation
<1>9. WireSound' /\ History'
  BY <1>3 DEF TxInv, WireSound, History, Applicable
<1>10. OutcomeSound'
  <2> SUFFICES ASSUME NEW j \in Ids
               PROVE  /\ commits[j] <= 1
                      /\ j > started => commits[j] = 0 /\ outcome'[j] = "open"
                      /\ outcome'[j] = "failed" => Nothing(j)
                      /\ outcome'[j] \in {"done", "postcommit"} => commits[j] = 1
    BY <1>3 DEF OutcomeSound, Nothing, Unsent
  <2>1. CASE j # i
    BY <1>4, <2>1 DEF TxInv, OutcomeSound
  <2>2. CASE j = i
    <3>1. i <= started /\ i \in Nat /\ started \in Nat
      BY <1>1 DEF TxInv, BeliefSound, Belief, TxTypes, Ids, TxConstants
    <3>2. commits[j] <= 1 /\ ~(j > started)
      BY <2>2, <3>1 DEF TxInv, OutcomeSound
    <3>. QED BY <1>1, <1>4, <2>2, <3>2
  <2>. QED BY <2>1, <2>2
<1>. QED BY <1>5, <1>7, <1>8, <1>9, <1>10 DEF TxInv

\* What the steps change of the record of a call that keeps its operation and its reply.
Becomes(x, r, at, open, dispatched, committed, rolledBack) ==
  /\ x \in ActiveCall /\ x.id = r.id /\ x.reply = r.reply
  /\ x.at = at /\ x.open = open /\ x.dispatched = dispatched /\ x.committed = committed
  /\ x.rolledBack = rolledBack

LEMMA AtUpdate ==
  ASSUME NEW r \in ActiveCall, NEW at \in Ats, NEW x, x = [r EXCEPT !.at = at]
  PROVE  Becomes(x, r, at, r.open, r.dispatched, r.committed, r.rolledBack)
BY DEF ActiveCall, Becomes

LEMMA SentUpdate ==
  ASSUME NEW r \in ActiveCall, NEW at \in Ats, NEW b \in BOOLEAN, NEW x,
         x = [r EXCEPT !.at = at, !.dispatched = b]
  PROVE  Becomes(x, r, at, r.open, b, r.committed, r.rolledBack)
BY DEF ActiveCall, Becomes

LEMMA CommittedUpdate ==
  ASSUME NEW r \in ActiveCall, NEW at \in Ats, NEW b \in BOOLEAN, NEW x,
         x = [r EXCEPT !.at = at, !.committed = b]
  PROVE  Becomes(x, r, at, r.open, r.dispatched, b, r.rolledBack)
BY DEF ActiveCall, Becomes

LEMMA ErrorUpdate ==
  ASSUME NEW r \in ActiveCall, NEW at \in Ats, NEW e \in Errors, NEW x,
         x = [r EXCEPT !.at = at, !.error = e]
  PROVE  Becomes(x, r, at, r.open, r.dispatched, r.committed, r.rolledBack)
BY DEF ActiveCall, Becomes

LEMMA RollbackUpdate ==
  ASSUME NEW r \in ActiveCall, NEW at \in Ats, NEW b \in BOOLEAN, NEW e \in Errors, NEW x,
         x = [r EXCEPT !.at = at, !.rolledBack = b, !.error = e]
  PROVE  Becomes(x, r, at, r.open, r.dispatched, r.committed, b)
BY DEF ActiveCall, Becomes

LEMMA AbortUpdate ==
  ASSUME NEW r \in ActiveCall, NEW at \in Ats, NEW b \in BOOLEAN, NEW e \in Errors, NEW x,
         x = [r EXCEPT !.at = at, !.error = e, !.open = b]
  PROVE  Becomes(x, r, at, b, r.dispatched, r.committed, r.rolledBack)
BY DEF ActiveCall, Becomes

LEMMA ReplyUpdate ==
  ASSUME NEW r \in ActiveCall, NEW p \in Replies, NEW x, x = [r EXCEPT !.reply = p]
  PROVE  /\ x \in ActiveCall /\ x.id = r.id /\ x.reply = p /\ x.at = r.at /\ x.open = r.open
         /\ x.dispatched = r.dispatched /\ x.committed = r.committed /\ x.rolledBack = r.rolledBack
         /\ x.base = r.base /\ x.snapshot = r.snapshot
BY DEF ActiveCall

LEMMA CallProceeds ==
  ASSUME TxConstants, TxInv, NEW c \in Txns, NEW r \in ActiveCall, TxStep(c, r), Quiet, Counters,
         started' = started, outcome' = outcome, txn[c].at # "idle", r.id = txn[c].id, Belief(r),
         \/ idle' = idle /\ ((r.at \in Running /\ r.open) <=> (txn[c].at \in Running /\ txn[c].open))
         \/ /\ idle' = idle + 1 /\ txn[c].at \in Running /\ txn[c].open
            /\ ~(r.at \in Running /\ r.open)
         \/ /\ idle > 0 /\ idle' = idle - 1 /\ ~(txn[c].at \in Running /\ txn[c].open)
            /\ r.at \in Running /\ r.open
  PROVE  TxInv'
<1>1. TxTypes /\ Pool /\ r \in Txn
  BY CallSplit DEF TxInv
<1>2. Pool'
  BY <1>1, PoolMoves
<1>. QED BY <1>2, CallGoesOn

LEMMA InFlight ==
  ASSUME TxConstants, TxInv, NEW c \in Txns, txn[c].at # "idle"
  PROVE  /\ TxTypes /\ Pool /\ txn[c] \in ActiveCall /\ txn[c].id \in Ids /\ Belief(txn[c])
         /\ started \in 0..MaxOps /\ faults \in 0..MaxFaults /\ orphans \in Nat
         /\ {"begun", "committing", "discarding", "failing"} = Running
         /\ Running \subseteq Ats /\ {"acquiring", "sleeping"} \subseteq Ats
         /\ {"error", "serialization", "aborted", "none"} = Errors
         /\ "idle" \notin Running /\ "acquiring" \notin Running /\ "sleeping" \notin Running
BY TxCallTypes DEF TxInv, BeliefSound, TxTypes, Running, Ats, Errors

LEMMA BeginStep == ASSUME TxConstants, TxInv, NEW c \in Txns, Begin(c) PROVE TxInv'
<1>0. txn[c].at = "acquiring" /\ txn[c] \in ActiveCall /\ db \in Tables /\ Len(log) \in Nat
  BY InFlight DEF Begin, TxInv, TxTypes
<1>k. PICK r \in ActiveCall, t \in Tables, n \in Nat : r = txn[c] /\ t = db /\ n = Len(log)
  BY <1>0
<1> DEFINE x == [r EXCEPT !.at = "begun", !.open = TRUE, !.snapshot = t, !.base = n]
<1>1. /\ r.at = "acquiring" /\ idle > 0 /\ idle' = idle - 1 /\ TxStep(c, x) /\ Quiet
      /\ started' = started /\ faults' = faults /\ orphans' = orphans /\ outcome' = outcome
  BY <1>k DEF Begin, Quiet, txVars
<1>2. /\ Belief(r) /\ Counters /\ "begun" \in Ats /\ "begun" \in Running
      /\ "acquiring" \notin Running /\ t \in Tables \cup {None}
  BY <1>1, <1>k, InFlight DEF Counters
<1>4. /\ Becomes(x, r, "begun", TRUE, r.dispatched, r.committed, r.rolledBack)
      /\ x.base = n /\ x.snapshot = t
  BY <1>2 DEF ActiveCall, Becomes
<1> HIDE DEF x
<1>5. Belief(x)
  BY <1>1, <1>2, <1>4, <1>k DEF Belief, Becomes
<1>. QED BY <1>1, <1>2, <1>4, <1>5, <1>k, CallProceeds DEF Becomes

LEMMA OnReplyStep == ASSUME TxConstants, TxInv, NEW c \in Txns, OnReply(c) PROVE TxInv'
<1> DEFINE r == txn[c]
           x == [r EXCEPT !.at = "discarding", !.committed = TRUE]
           y == [r EXCEPT !.at = "failing", !.rolledBack = TRUE, !.error = "error"]
           z == [r EXCEPT !.at = "failing", !.error = "serialization"]
<1>1. /\ r.at = "committing" /\ r.reply # "none" /\ Quiet /\ idle' = idle
      /\ started' = started /\ faults' = faults /\ orphans' = orphans /\ outcome' = outcome
  BY DEF OnReply, Quiet, txVars, poolVars
<1>2. /\ r \in ActiveCall /\ Belief(r) /\ Counters /\ {"discarding", "failing", "committing"} \subseteq Ats
      /\ {"discarding", "failing", "committing"} \subseteq Running
      /\ "error" \in Errors /\ "serialization" \in Errors
  BY <1>1, InFlight DEF Counters
<1>3. CASE r.reply = "COMMIT"
  <2>1. TxStep(c, x)
    BY <1>3 DEF OnReply
  <2>2. Becomes(x, r, "discarding", r.open, r.dispatched, TRUE, r.rolledBack)
    BY <1>2, CommittedUpdate
  <2> HIDE DEF x
  <2>3. Belief(x)
    BY <1>1, <1>2, <1>3, <2>2 DEF Belief, Becomes
  <2>. QED BY <1>1, <1>2, <2>1, <2>2, <2>3, CallProceeds DEF Becomes
<1>4. CASE r.reply = "ROLLBACK"
  <2>1. TxStep(c, y)
    BY <1>4 DEF OnReply
  <2>2. Becomes(y, r, "failing", r.open, r.dispatched, r.committed, TRUE)
    BY <1>2, RollbackUpdate
  <2> HIDE DEF y
  <2>3. Belief(y)
    BY <1>1, <1>2, <1>4, <2>2 DEF Belief, Becomes
  <2>. QED BY <1>1, <1>2, <2>1, <2>2, <2>3, CallProceeds DEF Becomes
<1>5. CASE r.reply \notin {"COMMIT", "ROLLBACK"}
  <2>1. TxStep(c, z)
    BY <1>5 DEF OnReply
  <2>2. Becomes(z, r, "failing", r.open, r.dispatched, r.committed, r.rolledBack)
    BY <1>2, ErrorUpdate
  <2> HIDE DEF z
  <2>3. Belief(z)
    BY <1>1, <1>2, <1>5, <2>2 DEF Belief, Becomes
  <2>. QED BY <1>1, <1>2, <2>1, <2>2, <2>3, CallProceeds DEF Becomes
<1>. QED BY <1>3, <1>4, <1>5

LEMMA QueryFailsStep == ASSUME TxConstants, TxInv, NEW c \in Txns, QueryFails(c) PROVE TxInv'
<1> DEFINE r == txn[c]
           x == [r EXCEPT !.at = "failing", !.error = "error"]
<1>1. /\ r.at \in Running /\ TxStep(c, x) /\ Quiet /\ idle' = idle /\ faults < MaxFaults
      /\ started' = started /\ faults' = faults + 1 /\ orphans' = orphans /\ outcome' = outcome
  BY DEF QueryFails, Fault, Quiet, txVars, poolVars
<1>2. /\ r \in ActiveCall /\ Belief(r) /\ "failing" \in Ats /\ "failing" \in Running /\ "error" \in Errors
      /\ started \in 0..MaxOps /\ faults \in 0..MaxFaults /\ orphans \in Nat /\ r.at # "idle"
  BY <1>1, InFlight DEF Running
<1>3. Counters
  BY <1>1, <1>2 DEF Counters, TxConstants
<1>4. Becomes(x, r, "failing", r.open, r.dispatched, r.committed, r.rolledBack)
  BY <1>2, ErrorUpdate
<1> HIDE DEF x
<1>5. Belief(x)
  BY <1>2, <1>4 DEF Belief, Becomes
<1>. QED BY <1>1, <1>2, <1>3, <1>4, <1>5, CallProceeds DEF Becomes

LEMMA AbortStep == ASSUME TxConstants, TxInv, NEW c \in Txns, Abort(c) PROVE TxInv'
<1> DEFINE r == txn[c]
           x == [r EXCEPT !.at = "failing", !.error = "aborted", !.open = FALSE]
<1>1. /\ r.at \in {"begun", "committing", "discarding"} /\ TxStep(c, x) /\ Quiet /\ idle' = idle + 1
      /\ started' = started /\ faults' = faults /\ orphans' = orphans /\ outcome' = outcome
  BY DEF Abort, Quiet, txVars, Running
<1>2. /\ r \in ActiveCall /\ Belief(r) /\ "failing" \in Ats /\ "aborted" \in Errors /\ Counters
      /\ r.at \in Running /\ r.at # "idle"
  BY <1>1, InFlight DEF Counters
<1>4. Becomes(x, r, "failing", FALSE, r.dispatched, r.committed, r.rolledBack)
  BY <1>2, AbortUpdate
<1> HIDE DEF x
<1>5. Belief(x) /\ r.open
  BY <1>1, <1>2, <1>4 DEF Belief, Becomes
<1>. QED BY <1>1, <1>2, <1>4, <1>5, CallProceeds DEF Becomes

\* The end of a call gives back the connection that it still has.
LEMMA CallLeaves ==
  ASSUME TxConstants, TxInv, NEW c \in Txns, TxStep(c, NoTxn), Quiet, Counters,
         started' = started, txn[c].at # "idle",
         NEW o \in {"done", "failed", "ambiguous", "postcommit"},
         outcome' = [outcome EXCEPT ![txn[c].id] = o],
         o = "failed" => Nothing(txn[c].id),
         o \in {"done", "postcommit"} => commits[txn[c].id] = 1,
         idle' = IF txn[c].at \in Running /\ txn[c].open THEN idle + 1 ELSE idle
  PROVE  TxInv'
<1>1. TxTypes /\ Pool /\ NoTxn \in Txn /\ NoTxn.at = "idle" /\ "idle" \notin Running
  BY CallSplit DEF TxInv, Running
<1>2. Pool'
  BY <1>1, PoolMoves
<1>. QED BY <1>2, CallEnds

LEMMA EndSteps ==
  ASSUME TxConstants, TxInv, NEW c \in Txns
  PROVE  AcquireFails(c) \/ Finish(c) => TxInv'
<1>1. ASSUME AcquireFails(c) PROVE TxInv'
  <2>1. /\ txn[c].at = "acquiring" /\ TxStep(c, NoTxn) /\ Quiet /\ idle' = idle
        /\ started' = started /\ faults' = faults /\ orphans' = orphans + 1
        /\ outcome' = [outcome EXCEPT ![txn[c].id] = "failed"]
    BY <1>1 DEF AcquireFails, Quiet, txVars, poolVars
  <2>2. Counters /\ Nothing(txn[c].id) /\ "acquiring" \notin Running
    BY <2>1, InFlight DEF Counters, Belief
  <2>. QED BY <2>1, <2>2, CallLeaves
<1>2. ASSUME Finish(c) PROVE TxInv'
  <2>1. /\ txn[c].at = "discarding" /\ TxStep(c, NoTxn) /\ Quiet /\ idle' = idle + 1
        /\ started' = started /\ faults' = faults /\ orphans' = orphans
        /\ outcome' = [outcome EXCEPT ![txn[c].id] = "done"]
    BY <1>2 DEF Finish, Quiet, txVars
  <2>2. Counters /\ commits[txn[c].id] = 1 /\ "discarding" \in Running /\ txn[c].open
    BY <2>1, InFlight DEF Counters, Belief
  <2>. QED BY <2>1, <2>2, CallLeaves
<1>. QED BY <1>1, <1>2

LEMMA FailStep == ASSUME TxConstants, TxInv, NEW c \in Txns, Fail(c) PROVE TxInv'
<1>0. txn[c].at = "failing" /\ txn[c] \in ActiveCall
  BY InFlight DEF Fail
<1>k. PICK r \in ActiveCall : r = txn[c]
  BY <1>0
<1>1. /\ r.at = "failing" /\ Quiet /\ idle' = (IF r.open THEN idle + 1 ELSE idle)
      /\ started' = started /\ faults' = faults /\ orphans' = orphans
  BY <1>k DEF Fail, Dispose, Quiet, txVars
<1>2. /\ Belief(r) /\ Counters /\ "sleeping" \in Ats /\ "none" \in Errors
      /\ r.at \in Running /\ "sleeping" \notin Running
  BY <1>1, <1>k, InFlight DEF Counters
<1>3. CASE Verdict(r) = "retry"
  <2>0. r.attempt + 1 \in Nat /\ "none" \in Replies /\ None \in Tables \cup {None}
    BY DEF ActiveCall, Replies
  <2>k. PICK a \in Nat : a = r.attempt + 1
    BY <2>0
  <2> DEFINE x == [r EXCEPT !.at = "sleeping", !.attempt = a,
                            !.open = FALSE, !.dispatched = FALSE, !.rolledBack = FALSE,
                            !.reply = "none", !.snapshot = None, !.base = 0, !.error = "none"]
  <2>1. TxStep(c, x) /\ outcome' = outcome
    BY <1>3, <1>k, <2>k DEF Fail
  <2>3. /\ x \in ActiveCall /\ x.at = "sleeping" /\ x.id = r.id /\ x.reply = "none"
        /\ x.open = FALSE /\ x.dispatched = FALSE
        /\ x.committed = r.committed /\ x.rolledBack = FALSE
    BY <1>2, <2>0 DEF ActiveCall
  <2> HIDE DEF x
  <2>4. ~r.committed /\ (~r.dispatched \/ r.rolledBack)
    BY <1>3 DEF Verdict
  <2>5. Belief(x)
    BY <1>2, <2>3, <2>4 DEF Belief
  <2>. QED BY <1>1, <1>2, <1>k, <2>1, <2>3, <2>5, CallProceeds
<1>4. CASE Verdict(r) # "retry"
  <2>1. TxStep(c, NoTxn) /\ outcome' = [outcome EXCEPT ![r.id] = Verdict(r)]
    BY <1>4, <1>k DEF Fail
  <2>2. /\ Verdict(r) \in {"failed", "ambiguous", "postcommit"}
        /\ Verdict(r) = "failed" => Nothing(r.id)
        /\ Verdict(r) = "postcommit" => commits[r.id] = 1
    BY <1>2, <1>4 DEF Verdict, Belief
  <2>. QED BY <1>1, <1>2, <1>k, <2>1, <2>2, CallLeaves
<1>. QED BY <1>3, <1>4

LEMMA RetryStep == ASSUME TxConstants, TxInv, NEW c \in Txns, Retry(c) PROVE TxInv'
<1> DEFINE r == txn[c]
           x == [r EXCEPT !.at = "acquiring"]
<1>1. /\ r.at = "sleeping" /\ Quiet /\ idle' = idle
      /\ started' = started /\ faults' = faults /\ orphans' = orphans
  BY DEF Retry, Quiet, txVars, poolVars
<1>2. /\ r \in ActiveCall /\ Belief(r) /\ Counters /\ "acquiring" \in Ats /\ "acquiring" \notin Running
      /\ "sleeping" \notin Running
  BY <1>1, InFlight DEF Counters
<1>3. Becomes(x, r, "acquiring", r.open, r.dispatched, r.committed, r.rolledBack)
  BY <1>2, AtUpdate
<1>4. CASE TxStep(c, x) /\ outcome' = outcome
  <2> HIDE DEF x
  <2>1. Belief(x)
    BY <1>1, <1>2, <1>3 DEF Belief, Becomes
  <2>. QED BY <1>1, <1>2, <1>3, <1>4, <2>1, CallProceeds DEF Becomes
<1>5. CASE TxStep(c, NoTxn) /\ outcome' = [outcome EXCEPT ![r.id] = "failed"]
  <2>1. Nothing(r.id)
    BY <1>1, <1>2 DEF Belief
  <2>. QED BY <1>1, <1>2, <1>5, <2>1, CallLeaves
<1>. QED BY <1>4, <1>5 DEF Retry

LEMMA InitTxInv == ASSUME TxConstants, TxInit PROVE TxInv
<1>1. Imported \in Tables
  <2>1. /\ \A p \in PairIds : (IF p \in Seeded THEN Fresh ELSE Absent) \in Pair
        /\ \A t \in Tokens : (IF t \in Requested THEN MaxOps + 1 ELSE 0) \in Stamps
    BY FixedRecords DEF TxConstants, Stamps
  <2>. QED BY <2>1 DEF Imported, Tables
<1>2. \A c \in Txns : txn[c] = NoTxn /\ txn[c].at = "idle"
  BY CallSplit DEF TxInit
<1>3. txn \in [Txns -> Txn]
  BY CallSplit DEF TxInit
<1>4. TxTypes
  BY <1>1, <1>3 DEF TxInit, TxTypes, TxConstants
<1>5. Pool
  <2>1. Lent = {}
    BY <1>2 DEF Lent, Running
  <2>. QED BY <2>1, FS_EmptySet DEF TxInit, Pool, TxConstants
<1>6. History
  <2>1. \E S : S[0] = Imported
    <3>1. [i \in {0} |-> Imported][0] = Imported
      OBVIOUS
    <3>. QED BY <3>1
  <2>2. Len(log) = 0 /\ applied = 0 /\ db = Imported /\ replica = Imported
    BY DEF TxInit
  <2>. QED BY <2>1, <2>2 DEF History
<1>7. BeliefSound /\ OwnOperation /\ WireSound
  BY <1>2 DEF TxInit, BeliefSound, OwnOperation, WireSound
<1>8. OutcomeSound
  BY DEF TxInit, OutcomeSound
<1>. QED BY <1>4, <1>5, <1>6, <1>7, <1>8 DEF TxInv

LEMMA StartStep == ASSUME TxConstants, TxInv, NEW c \in Txns, NEW op \in Ops, Start(c, op) PROVE TxInv'
<1>0. TxTypes /\ Pool /\ db \in Tables /\ started \in 0..MaxOps /\ MaxOps \in Nat
  BY DEF TxInv, TxTypes, TxConstants
<1>1. /\ txn[c].at = "idle" /\ started < MaxOps /\ started' = started + 1
      /\ UNCHANGED <<db, log, commits, replica, applied, idle, dirty, orphans, wire, faults, outcome>>
  BY DEF Start, txVars, poolVars
<1>2. Expectation(op, db) \in SeenBefore
  <2>1. /\ op.kind = "approvePending" => db.pending[op.token] \in Stamps
        /\ op.kind \in {"rotatePair", "claimSuccessfulUse"} => db.pairs[op.pair] \in Pair
    BY <1>0, OpTypes, TableTypes
  <2>2. 0 \in Stamps
    BY DEF TxConstants, Stamps
  <2>. QED BY <2>1, <2>2, FixedRecords DEF Expectation, SeenBefore
<1>k. PICK i \in Ids, s \in SeenBefore : i = started + 1 /\ s = Expectation(op, db)
  BY <1>0, <1>1, <1>2 DEF Ids
<1> DEFINE x == [at |-> "acquiring", op |-> op, id |-> i, seen |-> s,
                 attempt |-> 0, open |-> FALSE, dispatched |-> FALSE,
                 committed |-> FALSE, rolledBack |-> FALSE, reply |-> "none",
                 snapshot |-> None, base |-> 0, error |-> "none"]
<1>3. TxStep(c, x)
  BY <1>1, <1>k DEF Start
<1>4. /\ x \in ActiveCall /\ x.at = "acquiring" /\ x.id = i /\ x.open = FALSE
      /\ x.dispatched = FALSE /\ x.committed = FALSE /\ x.rolledBack = FALSE /\ x.reply = "none"
  BY DEF ActiveCall, Ats, Replies, Errors
<1> HIDE DEF x
<1>5. x \in Txn
  BY <1>4, CallSplit
<1>6. /\ txn' \in [Txns -> Txn] /\ txn'[c] = x
      /\ \A d \in Txns : d # c => txn'[d] = txn[d]
  BY <1>0, <1>3, <1>5, TxCallMoves
<1>7. TxTypes'
  BY <1>0, <1>1, <1>6 DEF TxTypes
<1>8. Pool'
  <2>1. "idle" \notin Running /\ "acquiring" \notin Running
    BY DEF Running
  <2>. QED BY <1>0, <1>1, <1>3, <1>4, <1>5, <2>1, PoolMoves
<1>9. \A d \in Txns : txn[d].at # "idle" => txn[d].id \in Nat /\ txn[d].id <= started /\ started \in Nat
  BY <1>0, TxCallTypes DEF TxInv, BeliefSound, Belief, Ids
<1>10. \A t \in wire : t.id \in Nat /\ t.id <= started /\ t.id # i
  BY <1>0, <1>k DEF TxInv, WireSound, TxTypes, Commit, Ids
<1>11. BeliefSound'
  <2> SUFFICES ASSUME NEW d \in Txns, txn'[d].at # "idle" PROVE \A y : y = txn'[d] => Belief(y)'
    BY DEF BeliefSound
  <2>1. CASE d # c
    <3>1. txn'[d] = txn[d] /\ Belief(txn[d]) /\ txn[d].id <= started + 1
      BY <1>6, <1>9, <2>1 DEF TxInv, BeliefSound
    <3>. QED BY <1>1, <3>1 DEF Belief, Nothing, Unsent
  <2>2. CASE d = c
    <3>1. i > started /\ i <= started'
      BY <1>0, <1>1, <1>k
    <3>2. commits[i] = 0 /\ outcome[i] = "open"
      BY <3>1 DEF TxInv, OutcomeSound
    <3>3. Nothing(i)'
      BY <1>1, <1>10, <3>2 DEF Nothing, Unsent
    <3>4. \A y : y = x => Belief(y)'
      BY <1>1, <1>4, <3>1, <3>2, <3>3 DEF Belief
    <3>. QED BY <1>6, <2>2, <3>4
  <2>. QED BY <2>1, <2>2
<1>12. OwnOperation'
  <2>1. \A d \in Txns : txn[d].at # "idle" => txn[d].id # i
    BY <1>0, <1>9, <1>k
  <2>. QED BY <1>4, <1>6, <2>1 DEF TxInv, OwnOperation
<1>13. WireSound'
  BY <1>0, <1>1, <1>10 DEF TxInv, WireSound, Applicable
<1>14. OutcomeSound'
  BY <1>0, <1>1 DEF TxInv, OutcomeSound, Nothing, Unsent, Ids
<1>15. History'
  BY <1>1 DEF TxInv, History, Applicable
<1>. QED BY <1>7, <1>8, <1>11, <1>12, <1>13, <1>14, <1>15 DEF TxInv

\* The COMMIT is sent: from now on the operation may be committed at any moment.
LEMMA ExecuteStep == ASSUME TxConstants, TxInv, NEW c \in Txns, Execute(c) PROVE TxInv'
<1>0. txn[c].at = "begun" /\ txn[c] \in ActiveCall
  BY InFlight DEF Execute
<1>k. PICK r \in ActiveCall : r = txn[c]
  BY <1>0
<1> DEFINE ms == Decide(r.op, r.seen, r.snapshot, r.id)
           x(e) == [r EXCEPT !.at = "failing", !.error = e]
           y == [r EXCEPT !.at = "committing", !.dispatched = TRUE]
<1>1. /\ r.at = "begun" /\ idle' = idle
      /\ UNCHANGED <<db, log, commits, replica, applied, dirty, orphans, started, faults, outcome>>
      /\ \/ \E e \in {"error", "serialization"} : TxStep(c, x(e)) /\ wire' = wire
         \/ \E m \in IF ms = {} THEN {None} ELSE ms :
              TxStep(c, y) /\ wire' = wire \cup {[id |-> r.id, base |-> r.base, mutation |-> m]}
  BY <1>k DEF Execute, txVars, poolVars
<1>2. /\ Belief(r) /\ TxTypes /\ Pool /\ r.id \in Ids
      /\ {"failing", "committing", "begun"} \subseteq Ats
      /\ {"failing", "committing", "begun"} \subseteq Running /\ {"error", "serialization"} \subseteq Errors
  BY <1>1, <1>k, InFlight DEF Errors
<1>3. Counters
  BY <1>1, <1>2 DEF Counters, TxTypes
<1>4. ASSUME NEW e \in {"error", "serialization"}, TxStep(c, x(e)), wire' = wire PROVE TxInv'
  <2>0. PICK z : z = x(e)
    OBVIOUS
  <2>1. Becomes(z, r, "failing", r.open, r.dispatched, r.committed, r.rolledBack)
    BY <1>2, <2>0, ErrorUpdate
  <2>2. Quiet /\ TxStep(c, z)
    BY <1>1, <1>4, <2>0 DEF Quiet
  <2> HIDE DEF x
  <2>3. Belief(z)
    BY <1>2, <2>1 DEF Belief, Becomes
  <2>. QED BY <1>1, <1>2, <1>3, <1>4, <1>k, <2>1, <2>2, <2>3, CallProceeds DEF Becomes
<1>5. ASSUME NEW m \in IF ms = {} THEN {None} ELSE ms, TxStep(c, y),
             wire' = wire \cup {[id |-> r.id, base |-> r.base, mutation |-> m]}
      PROVE  TxInv'
  <2>k. PICK t : t = [id |-> r.id, base |-> r.base, mutation |-> m]
    OBVIOUS
  <2>1. Becomes(y, r, "committing", r.open, TRUE, r.committed, r.rolledBack)
    BY <1>2, SentUpdate
  <2> HIDE DEF y
  <2>2. /\ y \in Txn /\ y \in ActiveCall
    BY <2>1, CallSplit DEF Becomes
  <2>3. /\ txn' \in [Txns -> Txn] /\ txn'[c] = y
        /\ \A d \in Txns : d # c => txn'[d] = txn[d]
    BY <1>2, <1>5, <2>2, TxCallMoves
  <2>4. Pool'
    <3>1. y.at = "committing" /\ y.open = r.open
      BY <2>1 DEF Becomes
    <3>. QED BY <1>1, <1>2, <1>5, <1>k, <2>2, <3>1, PoolMoves
  <2>5. /\ r.op \in Ops /\ r.seen \in SeenBefore /\ r.base \in Nat /\ r.snapshot \in Tables
        /\ r.base <= Len(log) /\ (r.base = Len(log) => r.snapshot = db) /\ Nothing(r.id)
        /\ r.id <= started /\ outcome[r.id] = "open" /\ ~r.committed /\ ~r.rolledBack /\ r.reply = "none"
        /\ r.open
    BY <1>1, <1>2 DEF ActiveCall, Belief
  <2>6. m = None \/ (m \in Mutation /\ Applicable(r.snapshot, m))
    BY <1>2, <2>5, DecideApplies
  <2> HIDE DEF ms
  <2>7. t \in Commit /\ t.id = r.id /\ t.base = r.base /\ t.mutation = m /\ wire' = wire \cup {t}
    BY <1>2, <1>5, <2>5, <2>6, <2>k DEF Commit
  <2>8. TxTypes'
    BY <1>1, <1>2, <2>3, <2>7 DEF TxTypes
  <2>9. BeliefSound'
    <3> SUFFICES ASSUME NEW d \in Txns, txn'[d].at # "idle" PROVE \A z : z = txn'[d] => Belief(z)'
      BY DEF BeliefSound
    <3>1. CASE d # c
      <4>1. txn'[d] = txn[d] /\ Belief(txn[d]) /\ txn[d].id # r.id
        BY <1>1, <1>k, <2>3, <3>1 DEF TxInv, BeliefSound, OwnOperation
      <4>2. \A i : Nothing(i) /\ i # r.id => \A j : j = i => Nothing(j)'
        BY <1>1, <2>7 DEF Nothing, Unsent
      <4>. QED BY <1>1, <4>1, <4>2 DEF Belief
    <3>2. CASE d = c
      <4>1. \A z : z = y => Belief(z)'
        BY <1>1, <2>1, <2>5 DEF Belief, Becomes
      <4>. QED BY <2>3, <3>2, <4>1
    <3>. QED BY <3>1, <3>2
  <2>10. OwnOperation'
    BY <1>1, <1>k, <2>1, <2>3 DEF TxInv, OwnOperation, Becomes
  <2>11. WireSound'
    <3>1. commits[t.id] = 0 /\ t.id <= started /\ \A u \in wire : u.id # t.id
      BY <2>5, <2>7 DEF Nothing, Unsent
    <3>2. t.base <= Len(log) /\ (t.mutation # None /\ t.base = Len(log) => Applicable(db, t.mutation))
      BY <2>5, <2>6, <2>7
    <3>3. /\ \A u \in wire' : commits[u.id] = 0 /\ u.id <= started
          /\ \A u, v \in wire' : u.id = v.id => u = v
          /\ \A u \in wire' : /\ u.base <= Len(log)
                              /\ u.mutation # None /\ u.base = Len(log) => Applicable(db, u.mutation)
      BY <2>7, <3>1, <3>2 DEF TxInv, WireSound
    <3>. QED BY <1>1, <3>3 DEF WireSound, Applicable
  <2>12. OutcomeSound'
    <3>1. \A i \in Ids : outcome[i] = "failed" => Nothing(i) /\ i # r.id
      BY <2>5 DEF TxInv, OutcomeSound
    <3>2. \A i \in Ids : outcome[i] = "failed" => Nothing(i)'
      BY <1>1, <2>7, <3>1 DEF Nothing, Unsent
    <3>. QED BY <1>1, <3>2 DEF TxInv, OutcomeSound
  <2>13. History'
    BY <1>1 DEF TxInv, History, Applicable
  <2>. QED BY <2>4, <2>8, <2>9, <2>10, <2>11, <2>12, <2>13 DEF TxInv
<1>. QED BY <1>1, <1>4, <1>5

------------------------------------------------------------------------------
(* The server, the pool and the replica.                                   *)

\* A reply reaches the calls that wait for it and changes nothing else of them.
LEMMA RepliedFields ==
  ASSUME TxTypes, NEW t, NEW p \in Replies, txn' = Replied(t, p)
  PROVE  /\ txn' \in [Txns -> Txn]
         /\ \A c \in Txns : txn[c].at = "idle" => txn'[c] = txn[c]
         /\ \A c \in Txns : txn'[c].at = txn[c].at
         /\ \A c \in Txns : txn[c].at # "idle" =>
              /\ txn'[c].id = txn[c].id /\ txn'[c].open = txn[c].open
              /\ txn'[c].dispatched = txn[c].dispatched /\ txn'[c].committed = txn[c].committed
              /\ txn'[c].rolledBack = txn[c].rolledBack /\ txn'[c].base = txn[c].base
              /\ txn'[c].snapshot = txn[c].snapshot
              /\ \/ txn'[c].reply = txn[c].reply
                 \/ txn'[c].reply = p /\ txn[c].at = "committing" /\ txn[c].id = t.id
<1>1. ASSUME NEW c \in Txns, txn[c].at = "committing", txn[c].id = t.id
      PROVE  /\ txn'[c] \in ActiveCall /\ txn'[c].id = txn[c].id /\ txn'[c].reply = p
             /\ txn'[c].at = txn[c].at /\ txn'[c].open = txn[c].open
             /\ txn'[c].dispatched = txn[c].dispatched /\ txn'[c].committed = txn[c].committed
             /\ txn'[c].rolledBack = txn[c].rolledBack /\ txn'[c].base = txn[c].base
             /\ txn'[c].snapshot = txn[c].snapshot
  <2>1. txn[c] \in ActiveCall
    BY <1>1, TxCallTypes
  <2>2. txn'[c] = [txn[c] EXCEPT !.reply = p]
    BY <1>1 DEF Replied
  <2>. QED BY <2>1, <2>2, ReplyUpdate
<1>2. ASSUME NEW c \in Txns, ~(txn[c].at = "committing" /\ txn[c].id = t.id)
      PROVE  txn'[c] = txn[c]
  BY <1>2 DEF Replied
<1>3. \A c \in Txns : txn'[c] \in Txn
  BY <1>1, <1>2, TxCallTypes, CallSplit
<1>4. txn' \in [Txns -> Txn]
  <2>1. txn' = [c \in Txns |-> txn'[c]]
    BY DEF Replied
  <2>. QED BY <1>3, <2>1
<1>. QED BY <1>1, <1>2, <1>4

\* What a reply and the end of COMMIT t leave of the invariant, when the verdict of the
\* server is the one that was replied.
LEMMA Served ==
  ASSUME TxConstants, TxInv, NEW t \in wire, NEW p \in Replies, txn' = Replied(t, p),
         wire' = wire \ {t},
         UNCHANGED <<replica, applied, idle, dirty, orphans, started, outcome>>,
         faults' \in 0..MaxFaults,
         p = "COMMIT" => commits' = [commits EXCEPT ![t.id] = @ + 1],
         p # "COMMIT" => commits' = commits,
         \/ UNCHANGED <<db, log>>
         \/ /\ t.mutation # None /\ t.base = Len(log)
            /\ db' = Apply(db, t.mutation) /\ log' = Append(log, t.mutation)
  PROVE  TxInv'
<1>0. /\ TxTypes /\ t \in Commit /\ t.id \in Ids /\ log \in Seq(Mutation) /\ commits[t.id] = 0
      /\ t.mutation # None => t.mutation \in Mutation
  BY DEF TxInv, TxTypes, Commit, WireSound
<1>1. /\ txn' \in [Txns -> Txn]
      /\ \A c \in Txns : txn[c].at = "idle" => txn'[c] = txn[c]
      /\ \A c \in Txns : txn'[c].at = txn[c].at
      /\ \A c \in Txns : txn[c].at # "idle" =>
           /\ txn'[c].id = txn[c].id /\ txn'[c].open = txn[c].open
           /\ txn'[c].dispatched = txn[c].dispatched /\ txn'[c].committed = txn[c].committed
           /\ txn'[c].rolledBack = txn[c].rolledBack /\ txn'[c].base = txn[c].base
           /\ txn'[c].snapshot = txn[c].snapshot
           /\ \/ txn'[c].reply = txn[c].reply
              \/ txn'[c].reply = p /\ txn[c].at = "committing" /\ txn[c].id = t.id
  BY <1>0, RepliedFields
<1>2. PICK i \in Ids : i = t.id
  BY <1>0
<1>3. /\ commits' \in [Ids -> Nat] /\ \A j \in Ids : j # i => commits'[j] = commits[j]
      /\ p = "COMMIT" => commits'[i] = 1
      /\ p # "COMMIT" => commits'[i] = 0
  BY <1>0, <1>2 DEF TxTypes
<1>4. /\ db' \in Tables /\ log' \in Seq(Mutation) /\ Len(log) \in Nat /\ Len(log') \in Nat
      /\ \/ db' = db /\ log' = log
         \/ Len(log') = Len(log) + 1
      /\ Len(log) <= Len(log')
  <2>1. CASE UNCHANGED <<db, log>>
    BY <1>0, <2>1 DEF TxTypes
  <2>2. CASE /\ t.mutation # None /\ t.base = Len(log)
             /\ db' = Apply(db, t.mutation) /\ log' = Append(log, t.mutation)
    <3>1. db' \in Tables
      BY <1>0, <2>2, ApplyType DEF TxTypes
    <3>. QED BY <1>0, <2>2, <3>1
  <2>. QED BY <2>1, <2>2
<1>5. TxTypes'
  <2>1. applied \in 0..Len(log')
    BY <1>0, <1>4 DEF TxTypes
  <2>. QED BY <1>0, <1>1, <1>3, <1>4, <2>1 DEF TxTypes
<1>6. Pool'
  <2>1. Lent' = Lent
    BY <1>1 DEF Lent, Running
  <2>. QED BY <2>1 DEF TxInv, Pool
<1>7. \A u \in wire' : u \in wire /\ u.id # i
  BY <1>2 DEF TxInv, WireSound
<1>8. \A j \in Ids : Nothing(j) => j # i /\ commits'[j] = 0 /\ \A u \in wire' : u.id # j
  BY <1>2, <1>3, <1>7 DEF Nothing, Unsent
<1>9. BeliefSound'
  <2> SUFFICES ASSUME NEW c \in Txns, txn'[c].at # "idle" PROVE \A z : z = txn'[c] => Belief(z)'
    BY DEF BeliefSound
  <2>k. PICK r \in ActiveCall : r = txn[c]
    BY <1>0, <1>1, TxCallTypes
  <2>j. PICK x : x = txn'[c]
    OBVIOUS
  <2>1. /\ Belief(r) /\ r.id \in Ids /\ r.at # "idle"
    BY <1>0, <1>1, <2>k, TxCallTypes DEF TxInv, BeliefSound
  <2>2. /\ x.id = r.id /\ x.open = r.open /\ x.at = r.at
        /\ x.dispatched = r.dispatched /\ x.committed = r.committed
        /\ x.rolledBack = r.rolledBack /\ x.base = r.base /\ x.snapshot = r.snapshot
        /\ x.reply = r.reply \/ (x.reply = p /\ r.at = "committing" /\ r.id = i)
    BY <1>1, <1>2, <2>1, <2>k, <2>j
  <2>3. r.id = i => r.dispatched /\ ~r.committed /\ ~r.rolledBack /\ r.reply \notin {"COMMIT", "ROLLBACK"}
    BY <1>0, <1>2, <2>1 DEF Belief, Nothing, Unsent
  <2>4. x.reply = "COMMIT" \/ x.committed => commits'[x.id] = 1
    BY <1>3, <2>1, <2>2, <2>3 DEF Belief
  <2>5. x.reply = "ROLLBACK" \/ x.rolledBack => commits'[x.id] = 0 /\ \A u \in wire' : u.id # x.id
    BY <1>3, <1>7, <1>8, <2>1, <2>2, <2>3 DEF Belief
  <2>6. ~x.dispatched => /\ commits'[x.id] = 0 /\ \A u \in wire' : u.id # x.id
                         /\ ~x.committed /\ ~x.rolledBack /\ x.reply = "none"
    BY <1>8, <2>1, <2>2, <2>3 DEF Belief
  <2>7. x.at = "begun" => /\ x.snapshot \in Tables /\ x.base <= Len(log')
                          /\ x.base = Len(log') => x.snapshot = db'
    <3>1. r.base \in Nat
      BY DEF ActiveCall
    <3>. QED BY <1>4, <2>1, <2>2, <3>1 DEF Belief
  <2>8. \A z : z = x => Belief(z)'
    BY <2>1, <2>2, <2>4, <2>5, <2>6, <2>7 DEF Belief, Nothing, Unsent
  <2>. QED BY <2>8, <2>j
<1>10. OwnOperation'
  BY <1>1 DEF TxInv, OwnOperation
<1>11. WireSound'
  <2> SUFFICES ASSUME NEW u \in wire'
               PROVE  /\ commits'[u.id] = 0 /\ u.id <= started
                      /\ \A v \in wire' : u.id = v.id => u = v
                      /\ u.base <= Len(log')
                      /\ u.mutation # None /\ u.base = Len(log') => Applicable(db', u.mutation)
    BY DEF WireSound, Applicable
  <2>1. /\ u \in wire /\ u.id \in Ids /\ u.base \in Nat /\ u.id # i
    BY <1>0, <1>7 DEF TxTypes, Commit
  <2>2. u.base <= Len(log) /\ (u.mutation # None /\ u.base = Len(log) => Applicable(db, u.mutation))
    BY <2>1 DEF TxInv, WireSound
  <2>3. u.base <= Len(log') /\ (u.mutation # None /\ u.base = Len(log') => Applicable(db', u.mutation))
    BY <1>4, <2>1, <2>2
  <2>. QED BY <1>3, <1>7, <2>1, <2>3 DEF TxInv, WireSound
<1>12. OutcomeSound'
  <2> SUFFICES ASSUME NEW j \in Ids
               PROVE  /\ commits'[j] <= 1
                      /\ j > started => commits'[j] = 0 /\ outcome[j] = "open"
                      /\ outcome[j] = "failed" => commits'[j] = 0 /\ \A u \in wire' : u.id # j
                      /\ outcome[j] \in {"done", "postcommit"} => commits'[j] = 1
    BY DEF OutcomeSound, Nothing, Unsent
  <2>1. /\ commits[j] <= 1
        /\ j > started => commits[j] = 0 /\ outcome[j] = "open"
        /\ outcome[j] = "failed" => Nothing(j)
        /\ outcome[j] \in {"done", "postcommit"} => commits[j] = 1
    BY DEF TxInv, OutcomeSound
  <2>2. CASE j # i
    BY <1>3, <1>8, <2>1, <2>2
  <2>3. CASE j = i
    <3>1. i <= started /\ i \in Nat /\ started \in Nat
      BY <1>0, <1>2 DEF TxInv, WireSound, TxTypes, Ids, TxConstants
    <3>2. commits[i] = 0 /\ ~Nothing(i)
      BY <1>0, <1>2 DEF Nothing, Unsent
    <3>. QED BY <1>3, <2>1, <2>3, <3>1, <3>2
  <2>. QED BY <2>2, <2>3
<1>13. History'
  <2>k. PICK S : /\ S[Len(log)] = db /\ S[applied] = replica
                 /\ \A n \in 1..Len(log) : Applicable(S[n - 1], log[n]) /\ S[n] = Apply(S[n - 1], log[n])
    BY DEF TxInv, History
  <2>1. CASE UNCHANGED <<db, log>>
    BY <2>k, <2>1 DEF History
  <2>2. CASE /\ t.mutation # None /\ t.base = Len(log)
             /\ db' = Apply(db, t.mutation) /\ log' = Append(log, t.mutation)
    <3> DEFINE N == Len(log) + 1
               R == [n \in 0..N |-> IF n = N THEN Apply(db, t.mutation) ELSE S[n]]
    <3>1. /\ Len(log') = N /\ log'[N] = t.mutation /\ \A n \in 1..Len(log) : log'[n] = log[n]
          /\ applied \in 0..Len(log)
      BY <1>0, <2>2 DEF TxTypes
    <3>2. R[N] = Apply(db, t.mutation) /\ \A n \in 0..Len(log) : R[n] = S[n]
      BY <1>4
    <3> HIDE DEF R
    <3>3. Applicable(db, t.mutation)
      BY <2>2 DEF TxInv, WireSound
    <3>4. ASSUME NEW n \in 1..N PROVE Applicable(R[n - 1], log'[n]) /\ R[n] = Apply(R[n - 1], log'[n])
      <4>1. CASE n = N
        BY <1>4, <2>k, <3>1, <3>2, <3>3, <4>1
      <4>2. CASE n # N
        <5>1. n \in 1..Len(log) /\ n - 1 \in 0..Len(log) /\ n \in 0..Len(log)
          BY <1>4, <4>2
        <5>. QED BY <2>k, <3>1, <3>2, <5>1
      <4>. QED BY <4>1, <4>2
    <3>5. R[Len(log')] = db' /\ R[applied] = replica
      BY <2>2, <2>k, <3>1, <3>2
    <3>. QED BY <3>1, <3>4, <3>5 DEF History
  <2>. QED BY <2>1, <2>2
<1>. QED BY <1>5, <1>6, <1>9, <1>10, <1>11, <1>12, <1>13 DEF TxInv

LEMMA ServerSteps ==
  ASSUME TxConstants, TxInv, NEW t \in wire
  PROVE  ServerCommit(t) \/ ServerRollback(t) => TxInv'
<1>0. {"COMMIT", "serialization", "none", "ROLLBACK"} = Replies /\ faults \in 0..MaxFaults /\ MaxFaults \in Nat
  BY DEF Replies, TxInv, TxTypes, TxConstants
<1>1. ASSUME ServerCommit(t) PROVE TxInv'
  <2>1. wire' = wire \ {t} /\ UNCHANGED <<replica, applied, idle, dirty, orphans, started, outcome, faults>>
    BY <1>1 DEF ServerCommit, poolVars
  <2>2. CASE t.mutation = None \/ t.base = Len(log)
    <3>1. /\ commits' = [commits EXCEPT ![t.id] = @ + 1] /\ txn' = Replied(t, "COMMIT")
          /\ \/ UNCHANGED <<db, log>>
             \/ /\ t.mutation # None /\ t.base = Len(log)
                /\ db' = Apply(db, t.mutation) /\ log' = Append(log, t.mutation)
      BY <1>1, <2>2 DEF ServerCommit
    <3>. QED BY <1>0, <2>1, <3>1, Served
  <2>3. CASE ~(t.mutation = None \/ t.base = Len(log))
    <3>1. txn' = Replied(t, "serialization") /\ commits' = commits /\ UNCHANGED <<db, log>>
      BY <1>1, <2>3 DEF ServerCommit, txVars
    <3>. QED BY <1>0, <2>1, <3>1, Served
  <2>. QED BY <2>2, <2>3
<1>2. ASSUME ServerRollback(t) PROVE TxInv'
  <2>1. /\ wire' = wire \ {t} /\ UNCHANGED <<replica, applied, idle, dirty, orphans, started, outcome>>
        /\ UNCHANGED <<db, log>> /\ commits' = commits /\ faults' \in 0..MaxFaults
    BY <1>0, <1>2 DEF ServerRollback, Fault, poolVars, txVars
  <2>2. PICK p \in {"none", "ROLLBACK"} : txn' = Replied(t, p)
    BY <1>2 DEF ServerRollback
  <2>. QED BY <1>0, <2>1, <2>2, Served
<1>. QED BY <1>1, <1>2

LEMMA OtherSteps ==
  ASSUME TxConstants, TxInv
  PROVE  LateAcquire \/ ApplyInTx \/ UNCHANGED txAllVars => TxInv'
<1>1. ASSUME LateAcquire \/ UNCHANGED txAllVars PROVE TxInv'
  <2>1. /\ UNCHANGED <<db, log, commits, replica, applied, idle, dirty, txn, wire, started, faults, outcome>>
        /\ orphans' \in Nat
    BY <1>1 DEF LateAcquire, txAllVars, txVars, poolVars, TxInv, TxTypes
  <2>2. TxTypes' /\ Pool'
    BY <2>1 DEF TxInv, TxTypes, Pool, Lent
  <2>3. BeliefSound' /\ OwnOperation'
    BY <2>1 DEF TxInv, BeliefSound, Belief, Nothing, Unsent, OwnOperation
  <2>4. WireSound' /\ OutcomeSound' /\ History'
    BY <2>1 DEF TxInv, WireSound, OutcomeSound, Nothing, Unsent, History, Applicable
  <2>. QED BY <2>2, <2>3, <2>4 DEF TxInv
<1>2. ASSUME ApplyInTx PROVE TxInv'
  <2>1. /\ UNCHANGED <<db, log, commits, idle, dirty, orphans, txn, wire, started, faults, outcome>>
        /\ applied < Len(log) /\ applied' = applied + 1 /\ replica' = Apply(replica, log[applied + 1])
    BY <1>2 DEF ApplyInTx, txVars, poolVars
  <2>2. /\ applied \in Nat /\ Len(log) \in Nat /\ log[applied + 1] \in Mutation /\ replica \in Tables
        /\ applied + 1 \in 1..Len(log)
    BY <2>1 DEF TxInv, TxTypes
  <2>3. replica' \in Tables
    BY <2>1, <2>2, ApplyType
  <2>4. TxTypes' /\ Pool'
    BY <2>1, <2>2, <2>3 DEF TxInv, TxTypes, Pool, Lent
  <2>5. BeliefSound' /\ OwnOperation'
    BY <2>1 DEF TxInv, BeliefSound, Belief, Nothing, Unsent, OwnOperation
  <2>6. WireSound' /\ OutcomeSound'
    BY <2>1 DEF TxInv, WireSound, OutcomeSound, Nothing, Unsent, Applicable
  <2>7. History'
    <3>1. PICK S : /\ S[Len(log)] = db /\ S[applied] = replica
                   /\ \A n \in 1..Len(log) : Applicable(S[n - 1], log[n]) /\ S[n] = Apply(S[n - 1], log[n])
      BY DEF TxInv, History
    <3>2. S[applied'] = replica'
      BY <2>1, <2>2, <3>1
    <3>. QED BY <2>1, <3>1, <3>2 DEF History
  <2>. QED BY <2>4, <2>5, <2>6, <2>7 DEF TxInv
<1>. QED BY <1>1, <1>2

LEMMA NextTxInv == ASSUME TxConstants, TxInv, [TxNext]_txAllVars PROVE TxInv'
<1>1. CASE \E c \in Txns : \/ \E op \in Ops : Start(c, op)
                           \/ Begin(c) \/ AcquireFails(c) \/ Execute(c) \/ OnReply(c)
  BY <1>1, StartStep, BeginStep, EndSteps, ExecuteStep, OnReplyStep
<1>2. CASE \E c \in Txns : Finish(c) \/ QueryFails(c) \/ Abort(c) \/ Fail(c) \/ Retry(c)
  BY <1>2, EndSteps, QueryFailsStep, AbortStep, FailStep, RetryStep
<1>3. CASE \E t \in wire : ServerCommit(t) \/ ServerRollback(t)
  BY <1>3, ServerSteps
<1>4. CASE LateAcquire \/ ApplyInTx \/ UNCHANGED txAllVars
  BY <1>4, OtherSteps
<1>. QED BY <1>1, <1>2, <1>3, <1>4 DEF TxNext

------------------------------------------------------------------------------

\* Every reachable state of the transactor satisfies the invariant, for any number of
\* calls, operations, connections, retries and faults (runTransaction, runOnce).
THEOREM TransactionInvariance == TxSpec => []TxInv
<1>1. TxInit => TxInv
  BY InitTxInv, ConstantsHold
<1>2. TxInv /\ [TxNext]_txAllVars => TxInv'
  BY NextTxInv, ConstantsHold
<1>. QED BY <1>1, <1>2, PTL DEF TxSpec

\* A caller is never told a failure that was or will be committed, nor a success that was
\* not, and no operation is committed twice, whatever COMMITs are still on their way
\* (AmbiguousCommitError, PostCommitReleaseError and the retry loop).
THEOREM CallersAreToldTheTruth == TxSpec => []OutcomeIsTruthful
<1>1. TxInv => OutcomeIsTruthful
  BY DEF TxInv, OutcomeSound, OutcomeIsTruthful, Nothing
<1>. QED BY <1>1, TransactionInvariance, PTL

\* Every connection is in the pool or with exactly one call in flight, and none in the pool
\* has an open transaction (terminalRelease).
THEOREM ConnectionsAreAccountedFor == TxSpec => []PoolIsSound
<1>1. TxInv => PoolIsSound
  BY DEF TxInv, Pool, Lent, TxTypes, PoolIsSound
<1>. QED BY <1>1, TransactionInvariance, PTL

\* The applier never meets a mutation that it must refuse, and a replica that is up to date
\* has the tables of the source (applyInTx).
THEOREM ReplicaIsNeverParked == TxSpec => []ReplicaFollows
<1>1. TxInv => ReplicaFollows
  <2> SUFFICES ASSUME TxInv PROVE ReplicaFollows
    OBVIOUS
  <2>1. PICK S : /\ S[Len(log)] = db /\ S[applied] = replica
                 /\ \A n \in 1..Len(log) : Applicable(S[n - 1], log[n]) /\ S[n] = Apply(S[n - 1], log[n])
    BY DEF TxInv, History
  <2>2. applied \in Nat /\ Len(log) \in Nat
    BY DEF TxInv, TxTypes
  <2>3. applied < Len(log) => applied + 1 \in 1..Len(log) /\ (applied + 1) - 1 = applied
    BY <2>2
  <2>. QED BY <2>1, <2>2, <2>3 DEF ReplicaFollows
<1>. QED BY <1>1, TransactionInvariance, PTL

==============================================================================
