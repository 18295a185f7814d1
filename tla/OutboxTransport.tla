--------------------------- MODULE OutboxTransport ---------------------------
(***************************************************************************)
(* The HTTP hop between the publisher of an outbox and its receiver        *)
(* (http-outbox-transport.ts): an attempt is signed under a fresh nonce    *)
(* and raced against a deadline; the receiver checks freshness and         *)
(* signature, burns the nonce in a table of its database, applies the      *)
(* record and answers with an envelope bound to the attempt.               *)
(*                                                                         *)
(* The network loses, delays, duplicates and damages: a copy of a request  *)
(* may arrive at any time and any number of times, and any answer may      *)
(* reach any attempt that waits.  The receiver's clock and the clock of    *)
(* its database advance independently of each other; the sender's clock    *)
(* shows anything.  A MAC is modelled by whether the copy is intact.       *)
(***************************************************************************)
EXTENDS Integers

CONSTANTS
  Attempts,     \* the nonces of the attempts
  Handlers,     \* requests the receiver serves at the same time
  NumRecords,   \* records of the stream
  Freshness,    \* freshnessMs
  Skew,         \* maxClockSkewMs of the nonce store
  Safety,       \* nonceSafetyMs
  Retention,    \* retentionMs of the nonce store
  Stamps,       \* bound: instants that the sender's clock shows
  MaxApp,       \* bound: last instant of the receiver's clock
  MaxDb         \* bound: last instant of the database clock

\* posInt, and the retention that createHttpOutboxReceiver insists on.
ASSUME TransportAssumption ==
  /\ {NumRecords, Freshness, Skew, Safety, Retention, MaxApp, MaxDb} \subseteq Nat \ {0}
  /\ Retention - 2 * Skew >= 2 * Freshness + Safety
  /\ Stamps \subseteq Nat

VARIABLES
  app,       \* clock of the receiver
  db,        \* clock of its database
  state,     \* per attempt: where deliverAndAwaitAck is
  record,    \* per attempt: sequence of the record it carries
  ts,        \* per attempt: its timestamp
  receipt,   \* per attempt: the decision it returned
  handler,   \* per handler: the request it serves
  expires,   \* bpc_transport_nonce: expires_at per nonce, 0 without a row
  applied,   \* checkpoint of the receiver
  replies,   \* envelopes that the network may still deliver
  admitted   \* history: how often each nonce passed checkAndStore

publisher == <<state, record, ts, receipt>>
receiver == <<handler, expires, applied, replies, admitted>>
vars == <<app, db, publisher, receiver>>

Records == 1..NumRecords

Decisions == {"applied", "duplicate-ok", "reject-gap"}

Idle == [at |-> "idle"]

Handling == [at : {"checked", "open", "burnt"}, attempt : Attempts, checked : Nat, begun : Nat]

Envelope == [challenge : Attempts, decision : Decisions]

\* Statuses of the answers that are not envelopes: 401 for a stale timestamp, a MAC
\* that does not verify or a replay, 408 and 413 from readBodyCapped, 500 for
\* anything that throws.
Refusals == {401, 408, 413, 500}

TypeOK ==
  /\ app \in Nat /\ db \in Nat
  /\ state \in [Attempts -> {"unused", "sent", "returned", "transient", "terminal"}]
  /\ record \in [Attempts -> Records]
  /\ ts \in [Attempts -> Nat]
  /\ receipt \in [Attempts -> Decisions \cup {"none"}]
  /\ handler \in [Handlers -> Handling \cup {Idle}]
  /\ expires \in [Attempts -> Nat]
  /\ applied \in 0..NumRecords
  /\ replies \subseteq Envelope
  /\ admitted \in [Attempts -> Nat]

Init ==
  /\ app = 0 /\ db = 0
  /\ state = [a \in Attempts |-> "unused"]
  /\ record = [a \in Attempts |-> 1]
  /\ ts = [a \in Attempts |-> 0]
  /\ receipt = [a \in Attempts |-> "none"]
  /\ handler = [h \in Handlers |-> Idle]
  /\ expires = [a \in Attempts |-> 0]
  /\ applied = 0
  /\ replies = {}
  /\ admitted = [a \in Attempts |-> 0]

------------------------------------------------------------------------------
(* Clocks.                                                                 *)

\* A request is through the nonce store within the safety margin after its
\* freshness was checked: the deadline of the transactor ends it otherwise.
AppTick ==
  /\ app < MaxApp
  /\ \A h \in Handlers : handler[h].at \in {"checked", "open"} => app < handler[h].checked + Safety
  /\ app' = app + 1
  /\ UNCHANGED <<db, publisher, receiver>>

DbTick ==
  /\ db < MaxDb
  /\ db' = db + 1
  /\ UNCHANGED <<app, publisher, receiver>>

------------------------------------------------------------------------------
(* The publisher's side: HttpOutboxTransport.                              *)

\* deliverAndAwaitAck signs and sends; the timer of the deadline runs.
Deliver(a) ==
  /\ state[a] = "unused"
  /\ state' = [state EXCEPT ![a] = "sent"]
  /\ \E r \in Records : record' = [record EXCEPT ![a] = r]
  /\ \E t \in Stamps : ts' = [ts EXCEPT ![a] = t]
  /\ UNCHANGED <<app, db, receipt, receiver>>

Settle(a, how) ==
  /\ state' = [state EXCEPT ![a] = how]
  /\ UNCHANGED <<app, db, record, ts, receipt, receiver>>

\* classifyStatus.
Classify(status) ==
  IF status >= 500 \/ status \in {408, 429} THEN "transient" ELSE "terminal"

\* The deadline wins the race, fetch rejects, the stream breaks, or the verifier of
\* the acknowledgement is unavailable.  A late settlement is swallowed.
Transient(a) ==
  /\ state[a] = "sent"
  /\ Settle(a, "transient")

\* doDeliver on a status other than 200.  A copy that was damaged on the way is
\* refused at any time.
OnRefusal(a) ==
  /\ state[a] = "sent"
  /\ \E status \in Refusals : Settle(a, Classify(status))

\* Mutant: the envelope is compared with the record only, so the answer to an
\* earlier attempt is taken for the answer to this one.
BoundToRecord(a, m) == record[m.challenge] = record[a]

\* The challenge is the nonce of this attempt, and so is the digest of the body.
Bound(a, m) == m.challenge = a

\* readCapped and verifyEnvelope: the envelope verifies and so does the receipt in it.
OnEnvelope(a) ==
  /\ state[a] = "sent"
  /\ \E m \in replies :
        /\ Bound(a, m)
        /\ state' = [state EXCEPT ![a] = "returned"]
        /\ receipt' = [receipt EXCEPT ![a] = m.decision]
  /\ UNCHANGED <<app, db, record, ts, receiver>>

\* The reply is damaged, too large, signed under an unknown key, answers
\* another attempt, or carries a receipt that the verifier refuses.
OnBadEnvelope(a) ==
  /\ state[a] = "sent"
  /\ replies # {}
  /\ Settle(a, "terminal")

------------------------------------------------------------------------------
(* The receiver's side: createHttpOutboxReceiver.                          *)

\* The timestamp lies within the freshness on either side of the receiver's clock.
Fresh(t) == app - t <= Freshness /\ t - app <= Freshness

\* A copy of a sent request whose body was read, whose timestamp is fresh and whose
\* MAC verifies goes on to the nonce store.  Any other copy is refused without a trace.
Accept(h, a) ==
  /\ handler[h] = Idle
  /\ state[a] # "unused"
  /\ Fresh(ts[a])
  /\ handler' = [handler EXCEPT ![h] =
                   [at |-> "checked", attempt |-> a, checked |-> app, begun |-> 0]]
  /\ UNCHANGED <<app, db, publisher, expires, applied, replies, admitted>>

\* checkAndStore begins its transaction: now() is frozen from here on.  It attests
\* the table and waits for its lock.
OpenTx(h) ==
  /\ handler[h].at = "checked"
  /\ handler' = [handler EXCEPT ![h].at = "open", ![h].begun = db]
  /\ UNCHANGED <<app, db, publisher, expires, applied, replies, admitted>>

\* Mutant: the database clock is taken as it is.
SkewedNever(begun) == FALSE

Skewed(begun) == begun - app > Skew \/ app - begun > Skew

\* DELETE FROM bpc_transport_nonce WHERE expires_at < now().
Pruned(begun) == [a \in Attempts |-> IF expires[a] < begun THEN 0 ELSE expires[a]]

\* The transaction commits with the row of the nonce.
Burn(h) ==
  LET a == handler[h].attempt
      begun == handler[h].begun
  IN  /\ handler[h].at = "open"
      /\ ~Skewed(begun)
      /\ Pruned(begun)[a] = 0
      /\ expires' = [Pruned(begun) EXCEPT ![a] = begun + Retention]
      /\ admitted' = [admitted EXCEPT ![a] = @ + 1]
      /\ handler' = [handler EXCEPT ![h].at = "burnt"]
      /\ UNCHANGED <<app, db, publisher, applied, replies>>

\* The nonce has a row: rows that expired are deleted, the request is a replay.
Replay(h) ==
  LET a == handler[h].attempt
      begun == handler[h].begun
  IN  /\ handler[h].at = "open"
      /\ ~Skewed(begun)
      /\ Pruned(begun)[a] # 0
      /\ expires' = Pruned(begun)
      /\ handler' = [handler EXCEPT ![h] = Idle]
      /\ UNCHANGED <<app, db, publisher, applied, replies, admitted>>

\* Anything that throws is answered with 500: the clocks disagree, the transaction
\* fails, receive rejects.  A nonce that was burnt stays burnt.
Throw(h) ==
  /\ handler[h] # Idle
  /\ handler' = [handler EXCEPT ![h] = Idle]
  /\ UNCHANGED <<app, db, publisher, expires, applied, replies, admitted>>

\* The decision of the receiver's checkpoint (DurableOutbox.tla).
Decide(r) ==
  IF r <= applied THEN "duplicate-ok"
  ELSE IF r = applied + 1 THEN "applied" ELSE "reject-gap"

\* The record is applied in one transaction; then the envelope is sent, or the
\* connection is gone.
Receive(h) ==
  LET a == handler[h].attempt
      d == Decide(record[a])
  IN  /\ handler[h].at = "burnt"
      /\ applied' = IF d = "applied" THEN applied + 1 ELSE applied
      /\ \/ replies' = replies \cup {[challenge |-> a, decision |-> d]}
         \/ UNCHANGED replies
      /\ handler' = [handler EXCEPT ![h] = Idle]
      /\ UNCHANGED <<app, db, publisher, expires, admitted>>

\* The receiver is restarted: its table and its checkpoint survive.
Restart ==
  /\ \E h \in Handlers : handler[h] # Idle
  /\ handler' = [h \in Handlers |-> Idle]
  /\ UNCHANGED <<app, db, publisher, expires, applied, replies, admitted>>

------------------------------------------------------------------------------

Publisher(a) ==
  Deliver(a) \/ Transient(a) \/ OnRefusal(a) \/ OnEnvelope(a) \/ OnBadEnvelope(a)

Handle(h) ==
  \/ OpenTx(h) \/ Burn(h) \/ Replay(h) \/ Throw(h) \/ Receive(h)
  \/ \E a \in Attempts : Accept(h, a)

Next ==
  \/ AppTick \/ DbTick \/ Restart
  \/ \E a \in Attempts : Publisher(a)
  \/ \E h \in Handlers : Handle(h)

Spec == Init /\ [][Next]_vars

------------------------------------------------------------------------------
(* Properties.                                                             *)

\* A signed request takes effect at most once, however often it is delivered: its
\* nonce outlives its freshness whatever the database clock reads when the row is
\* written and when it is pruned, as long as it was close enough at both moments.
NonceAdmittedOnce == \A a \in Attempts : admitted[a] <= 1

\* A receipt that the publisher acts on answers the attempt it belongs to: that very
\* request passed the nonce store, and a record that it reports as applied is applied.
ReceiptAnswersAttempt ==
  \A a \in Attempts :
     state[a] = "returned" =>
        /\ admitted[a] = 1
        /\ receipt[a] \in {"applied", "duplicate-ok"} => record[a] <= applied

==============================================================================
