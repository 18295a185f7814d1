----------------------------- MODULE NonceProofs -----------------------------
(***************************************************************************)
(* Proofs about the two stores of nonces that processes share.             *)
(*                                                                         *)
(* OutboxTransport: a nonce passes the store once, and a receipt answers   *)
(* its attempt, for any number of attempts and handlers and for any        *)
(* clocks, given the retention the receiver insists on.  GovernedNonce: a  *)
(* nonce is granted once across losses and failovers of Redis.             *)
(***************************************************************************)
EXTENDS OutboxTransport, GovernedNonce, TLAPS

\* A request between its freshness check and the nonce store was fresh at the
\* check, and the safety margin has not passed since.
Timely ==
  \A h \in Handlers :
    handler[h].at \in {"checked", "open"} =>
      /\ state[handler[h].attempt] # "unused"
      /\ handler[h].checked <= app
      /\ app <= handler[h].checked + Safety
      /\ handler[h].checked - ts[handler[h].attempt] <= Freshness
      /\ ts[handler[h].attempt] - handler[h].checked <= Freshness

\* A nonce that passed has a row that outlives its freshness, or is past it.
Covered(a) ==
  \/ expires[a] >= ts[a] + Freshness + Safety + Skew
  \/ app > ts[a] + Freshness + Safety

Remembered ==
  \A a \in Attempts :
    admitted[a] # 0 => admitted[a] = 1 /\ state[a] # "unused" /\ Covered(a)

\* A handler past the nonce store serves the one admission of its attempt.
BurntOnce ==
  \A h \in Handlers : handler[h].at = "burnt" => admitted[handler[h].attempt] = 1

\* An envelope answers an admitted attempt and tells the truth about the record.
Truthful(a, d) ==
  /\ admitted[a] = 1
  /\ d \in {"applied", "duplicate-ok"} => record[a] <= applied

RepliesTruthful == \A m \in replies : Truthful(m.challenge, m.decision)

ReceiptsTruthful == \A a \in Attempts : state[a] = "returned" => Truthful(a, receipt[a])

IInv ==
  /\ TypeOK
  /\ Timely
  /\ Remembered
  /\ BurntOnce
  /\ RepliesTruthful
  /\ ReceiptsTruthful

\* What a handler that serves a request holds.
LEMMA HandlingType ==
  ASSUME TypeOK, NEW h \in Handlers, handler[h].at # "idle"
  PROVE  /\ handler[h] \in Handling
         /\ handler[h].at \in {"checked", "open", "burnt"}
         /\ handler[h].attempt \in Attempts
         /\ handler[h].checked \in Nat
         /\ handler[h].begun \in Nat
BY DEF TypeOK, Handling, Idle

\* The numbers are natural ones.
LEMMA Numbers ==
  /\ NumRecords \in Nat \ {0} /\ Freshness \in Nat /\ Skew \in Nat /\ Safety \in Nat
  /\ Retention \in Nat /\ Retention # 0
  /\ Retention - 2 * Skew >= 2 * Freshness + Safety
BY TransportAssumption

\* The row that Burn writes outlives the freshness of its request.
LEMMA RowOutlives ==
  ASSUME NEW t \in Nat, NEW c \in Nat, NEW b \in Nat, NEW n \in Nat,
         c - t <= Freshness, t - c <= Freshness, c <= n, n - b <= Skew
  PROVE  b + Retention >= t + Freshness + Safety + Skew
BY Numbers

\* Pruning forgets only nonces whose requests can no longer be fresh.
LEMMA PrunedCovered ==
  ASSUME TypeOK, NEW b \in Nat, ~Skewed(b), NEW a \in Attempts, Covered(a)
  PROVE  /\ Pruned(b)[a] \in Nat
         /\ \/ Pruned(b)[a] >= ts[a] + Freshness + Safety + Skew
            \/ app > ts[a] + Freshness + Safety
<1>1. ts[a] \in Nat /\ expires[a] \in Nat /\ app \in Nat
  BY DEF TypeOK
<1>2. Pruned(b)[a] = IF expires[a] < b THEN 0 ELSE expires[a]
  BY DEF Pruned
<1>3. b - app <= Skew
  BY <1>1, Numbers DEF Skewed
<1>4. CASE expires[a] < b
  BY <1>1, <1>2, <1>3, <1>4, Numbers DEF Covered
<1>5. CASE ~(expires[a] < b)
  BY <1>1, <1>2, <1>5 DEF Covered
<1>. QED BY <1>4, <1>5

LEMMA PrunedType ==
  ASSUME TypeOK, NEW b \in Nat
  PROVE  Pruned(b) \in [Attempts -> Nat]
BY DEF TypeOK, Pruned

LEMMA InitIInv == Init => IInv
<1> SUFFICES ASSUME Init PROVE IInv
  OBVIOUS
<1>1. TypeOK
  BY Numbers DEF Init, TypeOK, Records, Idle
<1>2. \A h \in Handlers : handler[h].at = "idle"
  BY DEF Init, Idle
<1>3. Timely /\ BurntOnce
  BY <1>2 DEF Timely, BurntOnce
<1>4. Remembered /\ RepliesTruthful /\ ReceiptsTruthful
  BY DEF Init, Remembered, RepliesTruthful, ReceiptsTruthful
<1>. QED BY <1>1, <1>3, <1>4 DEF IInv

------------------------------------------------------------------------------
(* The clocks.                                                             *)

LEMMA AppTickPreserves == IInv /\ AppTick => IInv'
<1> SUFFICES ASSUME IInv, AppTick PROVE IInv'
  OBVIOUS
<1> USE DEF AppTick, publisher, receiver
<1>1. TypeOK'
  BY DEF IInv, TypeOK
<1>2. app \in Nat /\ app' = app + 1
  BY DEF IInv, TypeOK
<1>3. Timely'
  <2> SUFFICES ASSUME NEW h \in Handlers, handler[h].at \in {"checked", "open"}
               PROVE  handler[h].checked <= app' /\ app' <= handler[h].checked + Safety
    BY DEF IInv, Timely
  <2>1. handler[h].checked \in Nat
    BY HandlingType DEF IInv
  <2>2. handler[h].checked <= app /\ app < handler[h].checked + Safety
    BY DEF IInv, Timely
  <2>. QED BY <1>2, <2>1, <2>2, Numbers
<1>4. Remembered'
  <2> SUFFICES ASSUME NEW a \in Attempts, admitted[a] # 0
               PROVE  admitted[a] = 1 /\ state[a] # "unused" /\ Covered(a)'
    BY DEF Remembered
  <2>1. ts[a] \in Nat /\ expires[a] \in Nat
    BY DEF IInv, TypeOK
  <2>2. admitted[a] = 1 /\ state[a] # "unused" /\ Covered(a)
    BY DEF IInv, Remembered
  <2>. QED BY <1>2, <2>1, <2>2, Numbers DEF Covered
<1>5. BurntOnce' /\ RepliesTruthful' /\ ReceiptsTruthful'
  BY DEF IInv, BurntOnce, RepliesTruthful, ReceiptsTruthful, Truthful
<1>. QED BY <1>1, <1>3, <1>4, <1>5 DEF IInv

LEMMA DbTickPreserves == IInv /\ DbTick => IInv'
<1> SUFFICES ASSUME IInv, DbTick PROVE IInv'
  OBVIOUS
<1> USE DEF DbTick, publisher, receiver
<1>1. TypeOK'
  BY DEF IInv, TypeOK
<1>2. Timely' /\ Remembered' /\ BurntOnce' /\ RepliesTruthful' /\ ReceiptsTruthful'
  BY DEF IInv, Timely, Remembered, Covered, BurntOnce, RepliesTruthful, ReceiptsTruthful, Truthful
<1>. QED BY <1>1, <1>2 DEF IInv

------------------------------------------------------------------------------
(* The publisher.                                                          *)

LEMMA DeliverPreserves ==
  ASSUME IInv, NEW a \in Attempts, Deliver(a)
  PROVE  IInv'
<1> PICK r \in Records : record' = [record EXCEPT ![a] = r]
  BY DEF Deliver
<1> PICK t \in Stamps : ts' = [ts EXCEPT ![a] = t]
  BY DEF Deliver
<1>0. /\ state[a] = "unused"
      /\ state' = [state EXCEPT ![a] = "sent"]
      /\ UNCHANGED <<app, db, receipt, handler, expires, applied, replies, admitted>>
  BY DEF Deliver, receiver
<1>1. TypeOK'
  BY <1>0, TransportAssumption DEF IInv, TypeOK
<1>2. \A b \in Attempts : b # a => /\ state'[b] = state[b]
                                   /\ ts'[b] = ts[b]
                                   /\ record'[b] = record[b]
  BY <1>0 DEF IInv, TypeOK
<1>3. admitted[a] = 0
  BY <1>0 DEF IInv, Remembered
<1>4. Timely'
  <2> SUFFICES ASSUME NEW h \in Handlers, handler[h].at \in {"checked", "open"}
               PROVE  /\ state'[handler[h].attempt] # "unused"
                      /\ ts'[handler[h].attempt] = ts[handler[h].attempt]
    BY <1>0 DEF IInv, Timely
  <2>1. state[handler[h].attempt] # "unused" /\ handler[h].attempt \in Attempts
    BY HandlingType DEF IInv, Timely
  <2>. QED BY <1>0, <1>2, <2>1
<1>5. Remembered'
  BY <1>0, <1>2, <1>3 DEF IInv, Remembered, Covered
<1>6. BurntOnce'
  BY <1>0 DEF IInv, BurntOnce
<1>7. RepliesTruthful'
  <2> SUFFICES ASSUME NEW m \in replies PROVE Truthful(m.challenge, m.decision)'
    BY <1>0 DEF RepliesTruthful
  <2>1. m.challenge \in Attempts /\ Truthful(m.challenge, m.decision)
    BY DEF IInv, TypeOK, Envelope, RepliesTruthful
  <2>2. m.challenge # a
    BY <1>3, <2>1 DEF Truthful
  <2>. QED BY <1>0, <1>2, <2>1, <2>2 DEF Truthful
<1>8. ReceiptsTruthful'
  <2> SUFFICES ASSUME NEW b \in Attempts, state'[b] = "returned" PROVE Truthful(b, receipt[b])'
    BY <1>0 DEF ReceiptsTruthful
  <2>1. b # a
    BY <1>0 DEF IInv, TypeOK
  <2>. QED BY <1>0, <1>2, <2>1 DEF IInv, ReceiptsTruthful, Truthful
<1>. QED BY <1>1, <1>4, <1>5, <1>6, <1>7, <1>8 DEF IInv

LEMMA SettlePreserves ==
  ASSUME IInv, NEW a \in Attempts, NEW how \in {"transient", "terminal"},
         state[a] = "sent", Settle(a, how)
  PROVE  IInv'
<1> USE DEF Settle, receiver
<1>1. TypeOK'
  BY DEF IInv, TypeOK
<1>2. \A b \in Attempts : /\ state'[b] = "unused" => state[b] = "unused"
                          /\ state'[b] = "returned" => state[b] = "returned"
  BY DEF IInv, TypeOK
<1>3. Timely'
  <2> SUFFICES ASSUME NEW h \in Handlers, handler[h].at \in {"checked", "open"}
               PROVE  state'[handler[h].attempt] # "unused"
    BY DEF IInv, Timely
  <2>1. state[handler[h].attempt] # "unused" /\ handler[h].attempt \in Attempts
    BY HandlingType DEF IInv, Timely
  <2>. QED BY <1>2, <2>1
<1>4. Remembered' /\ BurntOnce' /\ RepliesTruthful' /\ ReceiptsTruthful'
  BY <1>2 DEF IInv, Remembered, Covered, BurntOnce, RepliesTruthful, ReceiptsTruthful, Truthful
<1>. QED BY <1>1, <1>3, <1>4 DEF IInv

LEMMA OnEnvelopePreserves ==
  ASSUME IInv, NEW a \in Attempts, OnEnvelope(a)
  PROVE  IInv'
<1> PICK m \in replies : /\ m.challenge = a
                         /\ state' = [state EXCEPT ![a] = "returned"]
                         /\ receipt' = [receipt EXCEPT ![a] = m.decision]
  BY DEF OnEnvelope, Bound
<1>0. /\ state[a] = "sent"
      /\ UNCHANGED <<app, db, record, ts, handler, expires, applied, replies, admitted>>
  BY DEF OnEnvelope, receiver
<1>1. m.decision \in Decisions /\ Truthful(a, m.decision)
  BY DEF IInv, TypeOK, Envelope, RepliesTruthful
<1>2. TypeOK'
  BY <1>0, <1>1 DEF IInv, TypeOK
<1>3. \A b \in Attempts : /\ state'[b] = "unused" => state[b] = "unused"
                          /\ b # a => state'[b] = state[b] /\ receipt'[b] = receipt[b]
                          /\ receipt'[a] = m.decision
  BY <1>0 DEF IInv, TypeOK
<1>4. Timely'
  <2> SUFFICES ASSUME NEW h \in Handlers, handler[h].at \in {"checked", "open"}
               PROVE  state'[handler[h].attempt] # "unused"
    BY <1>0 DEF IInv, Timely
  <2>1. state[handler[h].attempt] # "unused" /\ handler[h].attempt \in Attempts
    BY HandlingType DEF IInv, Timely
  <2>. QED BY <1>3, <2>1
<1>5. Remembered' /\ BurntOnce' /\ RepliesTruthful'
  BY <1>0, <1>3 DEF IInv, Remembered, Covered, BurntOnce, RepliesTruthful, Truthful
<1>6. ReceiptsTruthful'
  BY <1>0, <1>1, <1>3 DEF IInv, ReceiptsTruthful, Truthful
<1>. QED BY <1>2, <1>4, <1>5, <1>6 DEF IInv

LEMMA PublisherPreserves ==
  ASSUME IInv, NEW a \in Attempts, Publisher(a)
  PROVE  IInv'
<1>1. CASE Deliver(a)
  BY <1>1, DeliverPreserves
<1>2. CASE Transient(a)
  BY <1>2, SettlePreserves DEF Transient
<1>3. CASE OnRefusal(a)
  <2> PICK status \in Refusals : Settle(a, Classify(status))
    BY <1>3 DEF OnRefusal
  <2>1. Classify(status) \in {"transient", "terminal"}
    BY DEF Classify
  <2>2. PICK how \in {"transient", "terminal"} : how = Classify(status)
    BY <2>1
  <2>3. Settle(a, how)
    BY <2>2
  <2>. QED BY <1>3, <2>3, SettlePreserves DEF OnRefusal
<1>4. CASE OnEnvelope(a)
  BY <1>4, OnEnvelopePreserves
<1>5. CASE OnBadEnvelope(a)
  BY <1>5, SettlePreserves DEF OnBadEnvelope
<1>. QED BY <1>1, <1>2, <1>3, <1>4, <1>5 DEF Publisher

------------------------------------------------------------------------------
(* The receiver.                                                           *)

\* What stays when only the handler, the rows and the admissions change.
LEMMA PublisherFrame ==
  ASSUME IInv,
         UNCHANGED <<app, db, publisher, applied, replies>>,
         \A a \in Attempts : admitted[a] = 1 => admitted'[a] = 1
  PROVE  RepliesTruthful' /\ ReceiptsTruthful'
<1> USE DEF publisher
<1>1. \A m \in replies : m.challenge \in Attempts
  BY DEF IInv, TypeOK, Envelope
<1>2. RepliesTruthful'
  BY <1>1 DEF IInv, RepliesTruthful, Truthful
<1>3. ReceiptsTruthful'
  BY DEF IInv, ReceiptsTruthful, Truthful
<1>. QED BY <1>2, <1>3

LEMMA AcceptPreserves ==
  ASSUME IInv, NEW h \in Handlers, NEW a \in Attempts, Accept(h, a)
  PROVE  IInv'
<1> DEFINE new == [at |-> "checked", attempt |-> a, checked |-> app, begun |-> 0]
<1>0. /\ handler' = [handler EXCEPT ![h] = new]
      /\ state[a] # "unused" /\ Fresh(ts[a])
      /\ UNCHANGED <<app, db, publisher, expires, applied, replies, admitted>>
  BY DEF Accept
<1>1. app \in Nat /\ ts[a] \in Nat
  BY DEF IInv, TypeOK
<1>2. new \in Handling
  BY <1>1 DEF Handling
<1> HIDE DEF new
<1>3. TypeOK'
  BY <1>0, <1>2 DEF IInv, TypeOK, publisher
<1>4. \A g \in Handlers : g # h => handler'[g] = handler[g]
  BY <1>0 DEF IInv, TypeOK
<1>5. handler'[h] = new
  BY <1>0 DEF IInv, TypeOK
<1>6. Timely'
  <2> SUFFICES ASSUME NEW g \in Handlers, handler'[g].at \in {"checked", "open"}
               PROVE  /\ state[handler'[g].attempt] # "unused"
                      /\ handler'[g].checked <= app
                      /\ app <= handler'[g].checked + Safety
                      /\ handler'[g].checked - ts[handler'[g].attempt] <= Freshness
                      /\ ts[handler'[g].attempt] - handler'[g].checked <= Freshness
    BY <1>0 DEF Timely, publisher
  <2>1. CASE g = h
    <3>1. handler'[g].attempt = a /\ handler'[g].checked = app
      BY <1>5, <2>1 DEF new
    <3>. QED BY <1>0, <1>1, <3>1, Numbers DEF Fresh
  <2>2. CASE g # h
    BY <1>4, <2>2 DEF IInv, Timely
  <2>. QED BY <2>1, <2>2
<1>7. Remembered'
  BY <1>0 DEF IInv, Remembered, Covered, publisher
<1>8. BurntOnce'
  <2>1. handler'[h].at # "burnt"
    BY <1>5 DEF new
  <2>. QED BY <1>0, <1>4, <2>1 DEF IInv, BurntOnce
<1>9. RepliesTruthful' /\ ReceiptsTruthful'
  BY <1>0, PublisherFrame
<1>. QED BY <1>3, <1>6, <1>7, <1>8, <1>9 DEF IInv

LEMMA OpenTxPreserves ==
  ASSUME IInv, NEW h \in Handlers, OpenTx(h)
  PROVE  IInv'
<1>0. /\ handler[h].at = "checked"
      /\ handler' = [handler EXCEPT ![h] = [handler[h] EXCEPT !.at = "open", !.begun = db]]
      /\ UNCHANGED <<app, db, publisher, expires, applied, replies, admitted>>
  BY DEF OpenTx
<1>1. handler[h] \in Handling
  BY <1>0, HandlingType DEF IInv
<1>2. db \in Nat /\ handler \in [Handlers -> Handling \cup {Idle}]
  BY DEF IInv, TypeOK
<1>3. [handler[h] EXCEPT !.at = "open", !.begun = db] \in Handling
  BY <1>1, <1>2 DEF Handling
<1>4. TypeOK'
  BY <1>0, <1>2, <1>3 DEF IInv, TypeOK, publisher
<1>5. \A g \in Handlers : g # h => handler'[g] = handler[g]
  BY <1>0, <1>2
<1>6. /\ handler'[h].at = "open"
      /\ handler'[h].attempt = handler[h].attempt
      /\ handler'[h].checked = handler[h].checked
  BY <1>0, <1>1, <1>2 DEF Handling
<1>7. Timely'
  BY <1>0, <1>5, <1>6 DEF IInv, Timely, publisher
<1>8. Remembered'
  BY <1>0 DEF IInv, Remembered, Covered, publisher
<1>9. BurntOnce'
  BY <1>0, <1>5, <1>6 DEF IInv, BurntOnce
<1>10. RepliesTruthful' /\ ReceiptsTruthful'
  BY <1>0, PublisherFrame
<1>. QED BY <1>4, <1>7, <1>8, <1>9, <1>10 DEF IInv

\* The request of a handler that may burn has not been admitted before: its row, had it
\* been pruned, would have outlived this very request.
LEMMA NotYetAdmitted ==
  ASSUME IInv, NEW h \in Handlers, handler[h].at = "open", ~Skewed(handler[h].begun),
         Pruned(handler[h].begun)[handler[h].attempt] = 0
  PROVE  admitted[handler[h].attempt] = 0
<1>0. PICK a \in Attempts, b \in Nat, c \in Nat :
        a = handler[h].attempt /\ b = handler[h].begun /\ c = handler[h].checked
  BY HandlingType DEF IInv
<1>1. ts[a] \in Nat /\ app \in Nat /\ TypeOK /\ admitted[a] \in Nat
  BY DEF IInv, TypeOK
<1>2. app <= c + Safety /\ c - ts[a] <= Freshness
  BY <1>0 DEF IInv, Timely
<1>3. ~(app > ts[a] + Freshness + Safety)
  BY <1>1, <1>2, Numbers
<1> SUFFICES ASSUME admitted[a] # 0 PROVE FALSE
  BY <1>0
<1>4. Covered(a)
  BY DEF IInv, Remembered
<1>5. Pruned(b)[a] >= ts[a] + Freshness + Safety + Skew
  BY <1>0, <1>1, <1>3, <1>4, PrunedCovered
<1>6. expires[a] >= b /\ Pruned(b)[a] = 0
  <2>1. CASE ts[a] + Freshness + Safety + Skew > 0
    BY <1>0, <1>1, <1>5, <2>1, Numbers
  <2>2. CASE ~(ts[a] + Freshness + Safety + Skew > 0)
    BY <1>1, <2>2, TransportAssumption
  <2>. QED BY <2>1, <2>2
<1>. QED BY <1>0, <1>1, <1>5, <1>6, TransportAssumption

LEMMA BurnPreserves ==
  ASSUME IInv, NEW h \in Handlers, Burn(h)
  PROVE  IInv'
<1>0. PICK a \in Attempts, b \in Nat, c \in Nat :
        a = handler[h].attempt /\ b = handler[h].begun /\ c = handler[h].checked
  BY HandlingType DEF IInv, Burn
<1>1. /\ handler[h].at = "open" /\ ~Skewed(b)
      /\ expires' = [Pruned(b) EXCEPT ![a] = b + Retention]
      /\ admitted' = [admitted EXCEPT ![a] = @ + 1]
      /\ handler' = [handler EXCEPT ![h] = [handler[h] EXCEPT !.at = "burnt"]]
      /\ UNCHANGED <<app, db, publisher, applied, replies>>
  BY <1>0 DEF Burn
<1>2. admitted[a] = 0
  BY <1>0, NotYetAdmitted DEF Burn
<1>3. /\ handler[h] \in Handling /\ handler \in [Handlers -> Handling \cup {Idle}]
      /\ TypeOK /\ app \in Nat /\ ts[a] \in Nat /\ ts \in [Attempts -> Nat]
  BY <1>1, HandlingType DEF IInv, TypeOK
<1>4. /\ state[a] # "unused" /\ c <= app
      /\ c - ts[a] <= Freshness /\ ts[a] - c <= Freshness
  BY <1>0, <1>1 DEF IInv, Timely
<1>5. [handler[h] EXCEPT !.at = "burnt"] \in Handling
  BY <1>3 DEF Handling
<1>6. Pruned(b) \in [Attempts -> Nat] /\ b + Retention \in Nat
  BY <1>3, PrunedType, Numbers
<1>7. TypeOK'
  <2>1. expires' \in [Attempts -> Nat]
    BY <1>1, <1>6
  <2>2. admitted' \in [Attempts -> Nat]
    BY <1>1, <1>3 DEF TypeOK
  <2>3. handler' \in [Handlers -> Handling \cup {Idle}]
    BY <1>1, <1>3, <1>5
  <2>. QED BY <1>1, <1>3, <2>1, <2>2, <2>3 DEF TypeOK, publisher
<1>8. \A g \in Handlers : g # h => handler'[g] = handler[g]
  BY <1>1, <1>3
<1>9. handler'[h].at = "burnt" /\ handler'[h].attempt = a
  BY <1>0, <1>1, <1>3 DEF Handling
<1>10. /\ admitted'[a] = 1
       /\ \A d \in Attempts : d # a => admitted'[d] = admitted[d]
  BY <1>1, <1>2, <1>3 DEF TypeOK
<1>11. Timely'
  BY <1>1, <1>8, <1>9 DEF IInv, Timely, publisher
<1>12. Remembered'
  <2> SUFFICES ASSUME NEW d \in Attempts, admitted'[d] # 0
               PROVE  admitted'[d] = 1 /\ state[d] # "unused" /\ Covered(d)'
    BY <1>1 DEF Remembered, publisher
  <2>1. CASE d = a
    <3>1. expires'[a] = b + Retention
      BY <1>1, <1>6
    <3>2. app - b <= Skew
      BY <1>1, <1>3, Numbers DEF Skewed
    <3>3. b + Retention >= ts[a] + Freshness + Safety + Skew
      BY <1>3, <1>4, <3>2, RowOutlives
    <3>4. Covered(a)'
      BY <1>1, <3>1, <3>3 DEF Covered, publisher
    <3>. QED BY <1>4, <1>10, <2>1, <3>4
  <2>2. CASE d # a
    <3>1. admitted[d] = 1 /\ state[d] # "unused" /\ Covered(d)
      BY <1>10, <2>2 DEF IInv, Remembered
    <3>2. \/ Pruned(b)[d] >= ts[d] + Freshness + Safety + Skew
          \/ app > ts[d] + Freshness + Safety
      BY <1>1, <1>3, <3>1, PrunedCovered
    <3>3. expires'[d] = Pruned(b)[d]
      BY <1>1, <1>6, <2>2
    <3>4. Covered(d)'
      BY <1>1, <3>2, <3>3 DEF Covered, publisher
    <3>. QED BY <1>10, <2>2, <3>1, <3>4
  <2>. QED BY <2>1, <2>2
<1>13. BurntOnce'
  <2> SUFFICES ASSUME NEW g \in Handlers, handler'[g].at = "burnt"
               PROVE  admitted'[handler'[g].attempt] = 1
    BY DEF BurntOnce
  <2>1. CASE g = h
    BY <1>9, <1>10, <2>1
  <2>2. CASE g # h
    <3>1. handler[g].at = "burnt" /\ handler'[g] = handler[g]
      BY <1>8, <2>2
    <3>2. handler[g].attempt \in Attempts /\ admitted[handler[g].attempt] = 1
      BY <1>3, <3>1, HandlingType DEF IInv, BurntOnce
    <3>. QED BY <1>10, <3>1, <3>2
  <2>. QED BY <2>1, <2>2
<1>14. RepliesTruthful' /\ ReceiptsTruthful'
  <2>1. \A d \in Attempts : admitted[d] = 1 => admitted'[d] = 1
    BY <1>10
  <2>. QED BY <1>1, <2>1, PublisherFrame
<1>. QED BY <1>7, <1>11, <1>12, <1>13, <1>14 DEF IInv

\* A handler ends without a trace, whatever it was at.
LEMMA EndPreserves ==
  ASSUME IInv, NEW end \in SUBSET Handlers,
         handler' = [h \in Handlers |-> IF h \in end THEN Idle ELSE handler[h]],
         UNCHANGED <<app, db, publisher, expires, applied, replies, admitted>>
  PROVE  IInv'
<1>1. TypeOK'
  BY DEF IInv, TypeOK, publisher
<1>2. \A g \in Handlers : \/ handler'[g] = handler[g]
                          \/ handler'[g].at = "idle"
  BY DEF Idle
<1>3. Timely'
  BY <1>2 DEF IInv, Timely, publisher
<1>4. Remembered'
  BY DEF IInv, Remembered, Covered, publisher
<1>5. BurntOnce'
  BY <1>2 DEF IInv, BurntOnce
<1>6. RepliesTruthful' /\ ReceiptsTruthful'
  BY PublisherFrame
<1>. QED BY <1>1, <1>3, <1>4, <1>5, <1>6 DEF IInv

LEMMA ReplayPreserves ==
  ASSUME IInv, NEW h \in Handlers, Replay(h)
  PROVE  IInv'
<1>0. PICK b \in Nat : b = handler[h].begun
  BY HandlingType DEF IInv, Replay
<1>1. /\ ~Skewed(b)
      /\ expires' = Pruned(b)
      /\ handler' = [handler EXCEPT ![h] = Idle]
      /\ UNCHANGED <<app, db, publisher, applied, replies, admitted>>
  BY <1>0 DEF Replay
<1>2. TypeOK /\ handler \in [Handlers -> Handling \cup {Idle}]
  BY DEF IInv, TypeOK
<1>3. TypeOK'
  <2>1. expires' \in [Attempts -> Nat]
    BY <1>1, <1>2, PrunedType
  <2>. QED BY <1>1, <1>2, <2>1 DEF TypeOK, publisher
<1>4. \A g \in Handlers : handler'[g] = handler[g] \/ handler'[g].at = "idle"
  BY <1>1, <1>2 DEF Idle
<1>5. Timely'
  BY <1>1, <1>4 DEF IInv, Timely, publisher
<1>6. Remembered'
  <2> SUFFICES ASSUME NEW d \in Attempts, admitted[d] # 0
               PROVE  admitted[d] = 1 /\ state[d] # "unused" /\ Covered(d)'
    BY <1>1 DEF Remembered, publisher
  <2>1. admitted[d] = 1 /\ state[d] # "unused" /\ Covered(d)
    BY DEF IInv, Remembered
  <2>2. \/ Pruned(b)[d] >= ts[d] + Freshness + Safety + Skew
        \/ app > ts[d] + Freshness + Safety
    BY <1>1, <1>2, <2>1, PrunedCovered
  <2>. QED BY <1>1, <2>1, <2>2 DEF Covered, publisher
<1>7. BurntOnce'
  BY <1>1, <1>4 DEF IInv, BurntOnce
<1>8. RepliesTruthful' /\ ReceiptsTruthful'
  BY <1>1, PublisherFrame
<1>. QED BY <1>3, <1>5, <1>6, <1>7, <1>8 DEF IInv

LEMMA ReceivePreserves ==
  ASSUME IInv, NEW h \in Handlers, Receive(h)
  PROVE  IInv'
<1>0. PICK a \in Attempts : a = handler[h].attempt
  BY HandlingType DEF IInv, Receive
<1> DEFINE d == Decide(record[a])
<1>1. /\ handler[h].at = "burnt"
      /\ applied' = IF d = "applied" THEN applied + 1 ELSE applied
      /\ \/ replies' = replies \cup {[challenge |-> a, decision |-> d]}
         \/ replies' = replies
      /\ handler' = [handler EXCEPT ![h] = Idle]
      /\ UNCHANGED <<app, db, publisher, expires, admitted>>
  BY <1>0 DEF Receive
<1>2. /\ TypeOK /\ handler \in [Handlers -> Handling \cup {Idle}]
      /\ applied \in 0..NumRecords /\ record \in [Attempts -> Records]
  BY DEF IInv, TypeOK
<1>3. record[a] \in 1..NumRecords
  BY <1>2 DEF Records
<1>4. d \in Decisions
  BY DEF Decide, Decisions
<1>5. /\ applied' \in 0..NumRecords /\ applied <= applied'
      /\ d \in {"applied", "duplicate-ok"} => record[a] <= applied'
  BY <1>1, <1>2, <1>3, Numbers DEF Decide
<1>6. admitted[a] = 1
  BY <1>0, <1>1 DEF IInv, BurntOnce
<1> HIDE DEF d
<1>7. TypeOK'
  <2>1. replies' \subseteq Envelope
    BY <1>1, <1>2, <1>4 DEF TypeOK, Envelope
  <2>2. handler' \in [Handlers -> Handling \cup {Idle}]
    BY <1>1, <1>2
  <2>. QED BY <1>1, <1>2, <1>5, <2>1, <2>2 DEF TypeOK, publisher
<1>8. \A g \in Handlers : handler'[g] = handler[g] \/ handler'[g].at = "idle"
  BY <1>1, <1>2 DEF Idle
<1>9. Timely'
  BY <1>1, <1>8 DEF IInv, Timely, publisher
<1>10. Remembered'
  BY <1>1 DEF IInv, Remembered, Covered, publisher
<1>11. BurntOnce'
  BY <1>1, <1>8 DEF IInv, BurntOnce
<1>12. \A e \in Attempts : record[e] \in Int /\ record'[e] = record[e]
  BY <1>1, <1>2 DEF Records, publisher
<1>13. RepliesTruthful'
  <2> SUFFICES ASSUME NEW m \in replies' PROVE Truthful(m.challenge, m.decision)'
    BY DEF RepliesTruthful
  <2>1. CASE m \in replies
    <3>1. m.challenge \in Attempts /\ Truthful(m.challenge, m.decision)
      BY <1>2, <2>1 DEF IInv, TypeOK, Envelope, RepliesTruthful
    <3>. QED BY <1>1, <1>2, <1>5, <1>12, <3>1 DEF Truthful
  <2>2. CASE m = [challenge |-> a, decision |-> d]
    <3>1. m.challenge = a /\ m.decision = d
      BY <2>2
    <3>. QED BY <1>1, <1>5, <1>6, <1>12, <3>1 DEF Truthful
  <2>. QED BY <1>1, <2>1, <2>2
<1>14. ReceiptsTruthful'
  <2> SUFFICES ASSUME NEW e \in Attempts, state[e] = "returned" PROVE Truthful(e, receipt[e])'
    BY <1>1 DEF ReceiptsTruthful, publisher
  <2>1. Truthful(e, receipt[e])
    BY DEF IInv, ReceiptsTruthful
  <2>. QED BY <1>1, <1>2, <1>5, <1>12, <2>1 DEF Truthful, publisher
<1>. QED BY <1>7, <1>9, <1>10, <1>11, <1>13, <1>14 DEF IInv

LEMMA HandlePreserves ==
  ASSUME IInv, NEW h \in Handlers, Handle(h)
  PROVE  IInv'
<1>1. CASE OpenTx(h)
  BY <1>1, OpenTxPreserves
<1>2. CASE Burn(h)
  BY <1>2, BurnPreserves
<1>3. CASE Replay(h)
  BY <1>3, ReplayPreserves
<1>4. CASE Throw(h)
  <2>1. handler' = [g \in Handlers |-> IF g \in {h} THEN Idle ELSE handler[g]]
    BY <1>4 DEF Throw, IInv, TypeOK
  <2>. QED BY <1>4, <2>1, EndPreserves DEF Throw
<1>5. CASE Receive(h)
  BY <1>5, ReceivePreserves
<1>6. CASE \E a \in Attempts : Accept(h, a)
  BY <1>6, AcceptPreserves
<1>. QED BY <1>1, <1>2, <1>3, <1>4, <1>5, <1>6 DEF Handle

LEMMA RestartPreserves == IInv /\ Restart => IInv'
<1> SUFFICES ASSUME IInv, Restart PROVE IInv'
  OBVIOUS
<1>1. handler' = [g \in Handlers |-> IF g \in Handlers THEN Idle ELSE handler[g]]
  BY DEF Restart
<1>. QED BY <1>1, EndPreserves DEF Restart

LEMMA StutterPreserves == IInv /\ UNCHANGED vars => IInv'
BY DEF IInv, TypeOK, Timely, Remembered, Covered, BurntOnce, RepliesTruthful,
       ReceiptsTruthful, Truthful, vars, publisher, receiver

------------------------------------------------------------------------------

\* The invariant of the hop holds in every behaviour: what a nonce, an envelope and a
\* receipt say stays true whatever the network and the clocks do.
THEOREM TransportCorrect == Spec => []IInv
<1>1. Init => IInv
  BY InitIInv
<1>2. IInv /\ [Next]_vars => IInv'
  <2> SUFFICES ASSUME IInv, [Next]_vars PROVE IInv'
    OBVIOUS
  <2>1. CASE UNCHANGED vars
    BY <2>1, StutterPreserves
  <2>2. CASE AppTick \/ DbTick \/ Restart
    BY <2>2, AppTickPreserves, DbTickPreserves, RestartPreserves
  <2>3. CASE \E a \in Attempts : Publisher(a)
    BY <2>3, PublisherPreserves
  <2>4. CASE \E h \in Handlers : Handle(h)
    BY <2>4, HandlePreserves
  <2>. QED BY <2>1, <2>2, <2>3, <2>4 DEF Next
<1>. QED BY <1>1, <1>2, PTL DEF Spec

\* The state of the hop is well typed (createHttpOutboxReceiver, HttpOutboxTransport).
THEOREM TransportTyped == Spec => []TypeOK
<1>1. IInv => TypeOK
  BY DEF IInv
<1>. QED BY <1>1, TransportCorrect, PTL

\* PgReplayNonceStore admits each nonce at most once, for every freshness, skew and
\* safety margin, if the retention is the one createHttpOutboxReceiver insists on.
THEOREM NonceOnce == Spec => []NonceAdmittedOnce
<1>1. IInv => NonceAdmittedOnce
  <2> SUFFICES ASSUME IInv, NEW a \in Attempts PROVE admitted[a] <= 1
    BY DEF NonceAdmittedOnce
  <2>1. admitted[a] = 0 \/ admitted[a] = 1
    BY DEF IInv, Remembered
  <2>. QED BY <2>1
<1>. QED BY <1>1, TransportCorrect, PTL

\* A receipt that deliverAndAwaitAck returns belongs to the attempt it was awaited for,
\* and a record it reports as applied is applied.
THEOREM ReceiptBound == Spec => []ReceiptAnswersAttempt
<1>1. IInv => ReceiptAnswersAttempt
  BY DEF IInv, ReceiptsTruthful, Truthful, ReceiptAnswersAttempt
<1>. QED BY <1>1, TransportCorrect, PTL

------------------------------------------------------------------------------
(* The nonce authority on Redis.                                           *)

Gate == [epoch: Nat, left: Nat \cup {Forever}]
Recon == [at: {"waiting", "idle", "sent", "answered"}, expect: Nat, age: 0..Timeout,
          answer: Answer]
Live == [at: {"sent", "answered"}, proc: Procs, nonce: Nonces, expect: Nat, age: 0..Timeout,
         answer: Answer]
States == {"down", "booting", "up", "failed", "stopped"}

\* Redis has the newest epoch or none, and no process has seen a newer one.
Counted == (epoch = None \/ epoch = epochs) /\ checkpoint <= epochs

\* A process asks for an epoch that was checkpointed; one that is up trusts one.
Trusting ==
  \A p \in Procs :
    /\ gate[p].epoch <= checkpoint /\ recon[p].expect <= checkpoint
    /\ up[p] = "up" => gate[p].epoch # None
    /\ recon[p].at = "answered" => recon[p].answer.epoch \in 1..epochs

\* A request in flight was fresh when it was sent, at most its own age ago.
Asking ==
  \A r \in Reqs : InFlight(req[r]) =>
    /\ req[r].expect <= checkpoint
    /\ age[req[r].nonce] # Unsigned /\ age[req[r].nonce] <= SigWindow + req[r].age
    /\ req[r].at = "answered" => req[r].answer.epoch \in 1..epochs

\* A consume that runs late was sent for a signed request under a trusted epoch.
AskedLate ==
  \A c \in late : c.kind = "consume" => c.expect <= checkpoint /\ age[c.nonce] # Unsigned

\* Nonce n cannot be accepted again, or a quarantine will come first.
Safe(n) ==
  \/ Life(n) < 0 \/ key[n] > Life(n) \/ quar.left > Life(n)
  \/ epoch = None \/ config = None \/ Foreign

SpentSafe ==
  /\ \A n \in spent : age[n] # Unsigned /\ Safe(n)
  /\ \A n \in Nonces : granted[n] <= 1 /\ (granted[n] > 0 => n \in spent)

NonceInv == NonceTypeOK /\ Counted /\ Trusting /\ Asking /\ AskedLate /\ SpentSafe

LEMMA GovernedConstants ==
  /\ SigWindow \in Nat /\ SigWindow > 0 /\ Buffer \in Nat /\ Timeout \in Nat /\ Timeout < Buffer
  /\ KeyRetention \in Nat /\ KeyRetention > 2 * SigWindow + Timeout
  /\ Unsigned \in Int /\ Dead \in Int
  /\ \A p \in Procs : Quarantine(p) \in Nat /\ Quarantine(p) >= KeyRetention /\ Quarantine(p) > 0
<1>1. /\ SigWindow \in Nat /\ SigWindow > 0 /\ Buffer \in Nat /\ Timeout \in Nat /\ Timeout < Buffer
      /\ \A p \in Procs : Allowance[p] \in Nat
  BY GovernedAssumption
<1>2. KeyRetention \in Nat /\ KeyRetention > 2 * SigWindow + Timeout
  BY <1>1 DEF KeyRetention
<1>3. Unsigned \in Int /\ Dead \in Int
  BY <1>1 DEF Unsigned, Dead
<1>. QED BY <1>1, <1>2, <1>3 DEF Quarantine

\* A signed credential can be presented for less than the retention.
LEMMA LifeBound ==
  ASSUME NonceTypeOK, NEW n \in Nonces
  PROVE  /\ Life(n) \in Int /\ age[n] \in Int
         /\ age[n] # Unsigned => Life(n) < KeyRetention
<1>1. age[n] \in Unsigned..Dead
  BY DEF NonceTypeOK
<1>2. age[n] \in Int /\ age[n] >= Unsigned
  BY <1>1, GovernedConstants
<1>. QED BY <1>2, GovernedConstants DEF Life, Unsigned

RedisTypes ==
  /\ epoch \in Nat /\ config \in Nat /\ epochs \in Nat /\ quar \in [epoch: Nat, left: Nat]
  /\ key \in [Nonces -> Nat]

LEMMA NamedFacts ==
  ASSUME RedisTypes, Counted
  PROVE  /\ Named \in Nat /\ Named > 0 /\ Larger(epochs, Named) \in Nat
         /\ Named <= Larger(epochs, Named) /\ epochs <= Larger(epochs, Named)
         /\ epoch = None => Named = Larger(epochs, Named)
         /\ epoch # None => Named = epoch /\ Larger(epochs, Named) = epochs /\ epochs = epoch
BY DEF RedisTypes, Counted, Named, Larger, None

LEMMA QuarantineFacts ==
  ASSUME RedisTypes, NEW e \in Nat, NEW m \in Nat
  PROVE  /\ QuarantineAtLeast(e, m) \in [epoch: Nat, left: Nat]
         /\ QuarantineAtLeast(e, m).left >= m
BY DEF RedisTypes, QuarantineAtLeast, Larger

\* What a script may leave alone: Redis as it was, with an epoch and a configuration.
Undisturbed == epoch # None /\ config # None /\ UNCHANGED <<epoch, config, epochs, quar>>

\* A script that does not find the continuity it was told to expect starts a quarantine
\* that outlives every credential.
LEMMA ReconcileFacts ==
  ASSUME NEW p \in Procs, NEW e \in Nat, RedisTypes, Counted, checkpoint \in Nat,
         ReconcileScript(p, e), UNCHANGED checkpoint
  PROVE  /\ RedisTypes' /\ Counted' /\ UNCHANGED key /\ epochs' >= epochs
         /\ Named \in 1..epochs'
         /\ quar'.left >= KeyRetention \/ (Undisturbed /\ (e = None \/ epoch = e))
<1> DEFINE s == ReconcileStatus(p, e)
<1>1. /\ quar' = ReconcileQuarantine(p, s)
      /\ config' = IF config = None THEN Quarantine(p) ELSE config
      /\ epoch' = IF s = "CONFIG_MISMATCH" THEN epoch ELSE Named
      /\ epochs' = Larger(epochs, Named) /\ key' = key
  BY DEF ReconcileScript
<1>2. /\ s = "OK" => /\ epoch # None /\ config # None /\ (e = None \/ epoch = e)
      /\ s = "CONFIG_MISMATCH" => config # None
  BY DEF ReconcileStatus, Named, None
<1> HIDE DEF s
<1>3. /\ Quarantine(p) \in Nat /\ Quarantine(p) >= KeyRetention /\ Quarantine(p) > 0
      /\ KeyRetention \in Nat
  BY GovernedConstants
<1>4. PICK m \in Nat : m = Larger(Quarantine(p), config) /\ m >= KeyRetention
  BY <1>3 DEF Larger, RedisTypes
<1>5. PICK a \in Nat : a = Named
  BY NamedFacts
<1>6. \/ quar' = quar /\ s = "OK"
      \/ quar' = QuarantineAtLeast(a, m) \/ quar' = QuarantineAtLeast(a, Quarantine(p))
  BY <1>1, <1>4, <1>5 DEF ReconcileQuarantine
<1>7. quar' \in [epoch: Nat, left: Nat] /\ (quar'.left >= KeyRetention \/ (quar' = quar /\ s = "OK"))
  <2>1. CASE quar' = quar /\ s = "OK"
    BY <2>1 DEF RedisTypes
  <2>2. CASE quar' = QuarantineAtLeast(a, m)
    <3>1. quar' \in [epoch: Nat, left: Nat] /\ quar'.left >= m
      BY <2>2, QuarantineFacts
    <3>. QED BY <1>3, <1>4, <3>1
  <2>3. CASE quar' = QuarantineAtLeast(a, Quarantine(p))
    <3>1. quar' \in [epoch: Nat, left: Nat] /\ quar'.left >= Quarantine(p)
      BY <1>3, <2>3, QuarantineFacts
    <3>. QED BY <1>3, <3>1
  <2>. QED BY <1>6, <2>1, <2>2, <2>3
<1>8. RedisTypes'
  BY <1>1, <1>3, <1>7, NamedFacts DEF RedisTypes
<1>9. /\ epoch' = None \/ epoch' = epochs'
      /\ epochs' >= epochs /\ Named \in 1..epochs' /\ checkpoint' <= epochs'
  <2>1. /\ epoch \in Nat /\ epochs \in Nat /\ Named \in Nat /\ Named > 0 /\ epochs' \in Nat
        /\ Named <= epochs' /\ epochs <= epochs' /\ checkpoint <= epochs
        /\ epoch = None => Named = epochs'
        /\ epoch # None => Named = epoch /\ epochs' = epochs /\ epochs = epoch
    BY <1>1, NamedFacts DEF RedisTypes, Counted
  <2>. QED BY <1>1, <2>1
<1>10. s = "OK" /\ quar' = quar => Undisturbed
  BY <1>1, <1>2, NamedFacts DEF Undisturbed
<1>. QED BY <1>1, <1>2, <1>7, <1>8, <1>9, <1>10 DEF Counted

LEMMA ConsumeFacts ==
  ASSUME NEW p \in Procs, NEW e \in Nat, NEW n \in Nonces, RedisTypes, Counted,
         checkpoint \in Nat, ConsumeScript(p, e, n), UNCHANGED checkpoint
  PROVE  /\ RedisTypes' /\ Counted' /\ epochs' >= epochs /\ Named \in 1..epochs'
         /\ quar'.left >= KeyRetention \/ (Undisturbed /\ epoch = e)
         /\ \/ UNCHANGED <<key, spent>> /\ ConsumeStatus(p, e, n) # "FRESH"
            \/ /\ ConsumeStatus(p, e, n) = "FRESH"
               /\ key[n] = 0 /\ quar.left = 0 /\ epoch = e /\ Undisturbed
               /\ key' = [key EXCEPT ![n] = KeyRetention] /\ spent' = spent \cup {n}
<1> DEFINE s == ConsumeStatus(p, e, n)
<1>1. /\ quar' = ConsumeQuarantine(p, s)
      /\ config' = IF config = None THEN Quarantine(p) ELSE config
      /\ epoch' = IF s = "MISSING" THEN Named ELSE epoch
      /\ epochs' = Larger(epochs, Named)
      /\ key' = IF s = "FRESH" THEN [key EXCEPT ![n] = KeyRetention] ELSE key
      /\ spent' = IF s = "FRESH" THEN spent \cup {n} ELSE spent
  BY DEF ConsumeScript
<1>2. /\ s \in {"QUARANTINED", "FRESH", "REPLAY"} => /\ epoch # None /\ config # None /\ epoch = e
      /\ s = "FRESH" => ~(key[n] > 0) /\ ~(quar.left > 0)
      /\ s = "MISSING" => epoch = None
  BY DEF ConsumeStatus
<1> HIDE DEF s
<1>3. /\ Quarantine(p) \in Nat /\ Quarantine(p) >= KeyRetention /\ Quarantine(p) > 0
      /\ KeyRetention \in Nat
  BY GovernedConstants
<1>4. PICK m \in Nat : m = Larger(Quarantine(p), config) /\ m >= KeyRetention
  BY <1>3 DEF Larger, RedisTypes
<1>5. PICK a \in Nat : a = Named
  BY NamedFacts
<1>6. \/ quar' = quar /\ s \in {"QUARANTINED", "FRESH", "REPLAY"}
      \/ s # "FRESH" /\ quar' = QuarantineAtLeast(a, m)
      \/ s # "FRESH" /\ quar' = QuarantineAtLeast(a, Quarantine(p))
  BY <1>1, <1>4, <1>5 DEF ConsumeQuarantine
<1>7. /\ quar' \in [epoch: Nat, left: Nat]
      /\ \/ quar'.left >= KeyRetention /\ s # "FRESH"
         \/ quar' = quar /\ s \in {"QUARANTINED", "FRESH", "REPLAY"}
  <2>1. CASE quar' = quar /\ s \in {"QUARANTINED", "FRESH", "REPLAY"}
    BY <2>1 DEF RedisTypes
  <2>2. CASE s # "FRESH" /\ quar' = QuarantineAtLeast(a, m)
    <3>1. quar' \in [epoch: Nat, left: Nat] /\ quar'.left >= m
      BY <2>2, QuarantineFacts
    <3>. QED BY <1>3, <1>4, <2>2, <3>1
  <2>3. CASE s # "FRESH" /\ quar' = QuarantineAtLeast(a, Quarantine(p))
    <3>1. quar' \in [epoch: Nat, left: Nat] /\ quar'.left >= Quarantine(p)
      BY <1>3, <2>3, QuarantineFacts
    <3>. QED BY <1>3, <2>3, <3>1
  <2>. QED BY <1>6, <2>1, <2>2, <2>3
<1>8. key' \in [Nonces -> Nat]
  BY <1>1, <1>3 DEF RedisTypes
<1>9. RedisTypes'
  BY <1>1, <1>3, <1>7, <1>8, NamedFacts DEF RedisTypes
<1>10. /\ epoch' = None \/ epoch' = epochs'
       /\ epochs' >= epochs /\ Named \in 1..epochs' /\ checkpoint' <= epochs'
  <2>1. /\ epoch \in Nat /\ epochs \in Nat /\ Named \in Nat /\ Named > 0 /\ epochs' \in Nat
        /\ Named <= epochs' /\ epochs <= epochs' /\ checkpoint <= epochs
        /\ epoch = None => Named = epochs'
        /\ epoch # None => Named = epoch /\ epochs' = epochs /\ epochs = epoch
    BY <1>1, NamedFacts DEF RedisTypes, Counted
  <2>. QED BY <1>1, <1>2, <2>1
<1>11. s \in {"QUARANTINED", "FRESH", "REPLAY"} /\ quar' = quar => Undisturbed
  BY <1>1, <1>2, NamedFacts DEF Undisturbed
<1>12. s = "FRESH" => key[n] = 0 /\ quar.left = 0
  BY <1>2 DEF RedisTypes
<1>13. Counted'
  BY <1>10 DEF Counted
<1>14. quar'.left >= KeyRetention \/ (Undisturbed /\ epoch = e)
  BY <1>2, <1>7, <1>11
<1>15. \/ UNCHANGED <<key, spent>> /\ s # "FRESH"
       \/ /\ s = "FRESH" /\ key[n] = 0 /\ quar.left = 0 /\ epoch = e /\ Undisturbed
          /\ key' = [key EXCEPT ![n] = KeyRetention] /\ spent' = spent \cup {n}
  BY <1>1, <1>2, <1>7, <1>11, <1>12
<1>. QED BY <1>9, <1>10, <1>13, <1>14, <1>15 DEF s

LEMMA NonceTypes ==
  NonceTypeOK <=>
    /\ RedisTypes /\ checkpoint \in Nat
    /\ up \in [Procs -> States] /\ gate \in [Procs -> Gate] /\ recon \in [Procs -> Recon]
    /\ req \in [Reqs -> [at: {"idle"}] \cup Live]
    /\ late \subseteq Command /\ age \in [Nonces -> Unsigned..Dead]
    /\ spent \subseteq Nonces /\ granted \in [Nonces -> Nat] /\ faults \in Nat
BY DEF NonceTypeOK, RedisTypes, States, Gate, Recon, Live, Request

\* A step of one process that leaves Redis alone: it may give up requests and leave
\* commands behind.
LEMMA ProcessMoves ==
  ASSUME NonceInv, NEW p \in Procs, NEW u \in States, NEW g \in Gate, NEW c \in Recon,
         NEW k \in Nat,
         up' = [up EXCEPT ![p] = u], gate' = [gate EXCEPT ![p] = g],
         recon' = [recon EXCEPT ![p] = c], checkpoint' = k,
         UNCHANGED <<redisVars, age, spent, granted>>, faults' \in Nat,
         checkpoint <= k, k <= epochs, g.epoch <= k, c.expect <= k, u = "up" => g.epoch # None,
         c.at = "answered" => c.answer.epoch \in 1..epochs,
         Foreign => k < epoch /\ (c.at = "sent" => c.expect # None)
                              /\ (c.at = "answered" => c.answer.epoch # epoch),
         req' \in [Reqs -> [at: {"idle"}] \cup Live],
         \A r \in Reqs : req'[r].at = "idle" \/ req'[r] = req[r],
         late' \subseteq Command, AskedLate'
  PROVE  NonceInv'
<1>1. /\ up \in [Procs -> States] /\ gate \in [Procs -> Gate] /\ recon \in [Procs -> Recon]
      /\ epochs \in Nat /\ checkpoint \in Nat /\ RedisTypes /\ epoch \in Nat
      /\ \A q \in Procs : gate[q].epoch \in Nat /\ recon[q].expect \in Nat
      /\ \A r \in Reqs : InFlight(req[r]) => req[r].expect \in Nat
  BY NonceTypes DEF NonceInv, Gate, Recon, Live, RedisTypes, InFlight
<1>2. UNCHANGED <<epoch, quar, config, key, epochs>>
  BY DEF redisVars
<1>3. NonceTypeOK'
  <2>1. /\ up' \in [Procs -> States] /\ gate' \in [Procs -> Gate] /\ recon' \in [Procs -> Recon]
    BY <1>1
  <2>2. RedisTypes'
    BY <1>1, <1>2 DEF RedisTypes
  <2>3. UNCHANGED <<age, spent, granted>>
    OBVIOUS
  <2>. QED BY <2>1, <2>2, <2>3 DEF NonceInv, NonceTypeOK, RedisTypes, States, Gate, Recon, Live, Request
<1>4. Counted'
  BY <1>1, <1>2 DEF NonceInv, Counted
<1>5. Trusting'
  <2> SUFFICES ASSUME NEW q \in Procs
               PROVE  /\ gate'[q].epoch <= k /\ recon'[q].expect <= k
                      /\ up'[q] = "up" => gate'[q].epoch # None
                      /\ recon'[q].at = "answered" => recon'[q].answer.epoch \in 1..epochs
    BY <1>2 DEF Trusting
  <2>1. CASE q = p
    BY <1>1, <2>1
  <2>2. CASE q # p
    <3>1. gate'[q] = gate[q] /\ recon'[q] = recon[q] /\ up'[q] = up[q]
      BY <1>1, <2>2
    <3>2. /\ gate[q].epoch <= checkpoint /\ recon[q].expect <= checkpoint
          /\ up[q] = "up" => gate[q].epoch # None
          /\ recon[q].at = "answered" => recon[q].answer.epoch \in 1..epochs
      BY DEF NonceInv, Trusting
    <3>. QED BY <1>1, <3>1, <3>2
  <2>. QED BY <2>1, <2>2
<1>6. Asking'
  <2> SUFFICES ASSUME NEW r \in Reqs, InFlight(req'[r])
               PROVE  /\ req'[r].expect <= k
                      /\ age[req'[r].nonce] # Unsigned
                      /\ age[req'[r].nonce] <= SigWindow + req'[r].age
                      /\ req'[r].at = "answered" => req'[r].answer.epoch \in 1..epochs
    BY <1>2 DEF Asking, InFlight
  <2>1. req'[r] = req[r] /\ InFlight(req[r])
    BY DEF InFlight
  <2>. QED BY <1>1, <2>1 DEF NonceInv, Asking
<1>7. Foreign => Foreign'
  <2> SUFFICES ASSUME Foreign PROVE Foreign'
    OBVIOUS
  <2>1. k # None /\ epoch > k
    BY <1>1 DEF Foreign, None
  <2>2. \A q \in Procs : /\ recon'[q].at = "sent" => recon'[q].expect # None
                         /\ recon'[q].at = "answered" => recon'[q].answer.epoch # epoch
    BY <1>1 DEF Foreign
  <2>3. \A r \in Reqs : req'[r].at = "answered" => req'[r].answer.epoch # epoch
    BY DEF Foreign
  <2>. QED BY <1>2, <2>1, <2>2, <2>3 DEF Foreign
<1>8. SpentSafe'
  BY <1>2, <1>7 DEF NonceInv, SpentSafe, Safe, Life
<1>. QED BY <1>3, <1>4, <1>5, <1>6, <1>8 DEF NonceInv

\* A step that changes requests and nothing that they rely on.
LEMMA AskedLateKept ==
  ASSUME NonceInv, UNCHANGED <<late, age>>, checkpoint' \in Nat, checkpoint <= checkpoint'
  PROVE  late' \subseteq Command /\ AskedLate'
<1>1. late \subseteq Command /\ checkpoint \in Nat
  BY NonceTypes DEF NonceInv
<1>2. \A c \in late : c.expect \in Nat
  BY <1>1 DEF Command
<1>. QED BY <1>1, <1>2 DEF NonceInv, AskedLate

LEMMA IdleRecon ==
  /\ NoRecon \in Recon /\ NoRecon.at = "idle" /\ NoRecon.expect = 0
  /\ Rescheduled \in Recon /\ Rescheduled.at = "waiting" /\ Rescheduled.expect = 0
<1>1. 0 \in 0..Timeout /\ NoAnswer \in Answer
  BY GovernedConstants DEF NoAnswer, Answer, Statuses, None
<1>2. NoRecon \in Recon /\ NoRecon.at = "idle" /\ NoRecon.expect = 0
  BY <1>1 DEF Recon, NoRecon, None
<1>. QED BY <1>2 DEF Recon, Rescheduled

LEMMA ClosedGate ==
  ASSUME NEW g \in Gate
  PROVE  [g EXCEPT !.left = Forever] \in Gate /\ [g EXCEPT !.left = Forever].epoch = g.epoch
BY DEF Gate

LEMMA ProcessSteps ==
  ASSUME NonceInv, NEW p \in Procs, Boot(p) \/ StartReconcile(p) \/ ApplyReconcile(p) \/ Stop(p)
  PROVE  NonceInv'
<1>1. /\ up \in [Procs -> States] /\ gate \in [Procs -> Gate] /\ recon \in [Procs -> Recon]
      /\ req \in [Reqs -> [at: {"idle"}] \cup Live]
      /\ epochs \in Nat /\ checkpoint \in Nat /\ epoch \in Nat /\ faults \in Nat
      /\ checkpoint <= epochs /\ (epoch = None \/ epoch = epochs)
  BY NonceTypes DEF NonceInv, RedisTypes, Counted
<1>2. PICK g \in Gate : g = gate[p]
  BY <1>1
<1>3. PICK c \in Recon : c = recon[p]
  BY <1>1
<1>4. PICK u \in States : u = up[p]
  BY <1>1
<1>5. PICK k \in Nat : k = checkpoint
  BY <1>1
<1>6. /\ g.epoch \in Nat /\ g.epoch <= k /\ c.expect \in Nat /\ c.expect <= k
      /\ (u = "up" => g.epoch # None) /\ k <= epochs
      /\ (c.at = "answered" => c.answer.epoch \in 1..epochs)
      /\ Foreign => k < epoch /\ k # None
      /\ Foreign => (c.at = "sent" => c.expect # None)
                    /\ (c.at = "answered" => c.answer.epoch # epoch)
  BY <1>1, <1>2, <1>3, <1>4, <1>5 DEF NonceInv, Trusting, Foreign, Gate, Recon
<1>7. up = [up EXCEPT ![p] = u] /\ gate = [gate EXCEPT ![p] = g] /\ recon = [recon EXCEPT ![p] = c]
  BY <1>1, <1>2, <1>3, <1>4
<1>8. /\ UNCHANGED <<redisVars, age, spent, granted, req, late>> /\ faults' \in Nat
      /\ req' \in [Reqs -> [at: {"idle"}] \cup Live]
      /\ \A r \in Reqs : req'[r].at = "idle" \/ req'[r] = req[r]
  BY <1>1 DEF Boot, StartReconcile, ApplyReconcile, Stop, Fault
<1>9. 0 \in 0..Timeout /\ NoAnswer \in Answer /\ None \in Nat
  BY GovernedConstants DEF NoAnswer, Answer, Statuses, None
<1>10. ASSUME Boot(p) \/ StartReconcile(p) PROVE NonceInv'
  <2>1. PICK e \in Nat : /\ recon' = [recon EXCEPT ![p] = [at |-> "sent", expect |-> e, age |-> 0,
                                                           answer |-> NoAnswer]]
                         /\ e = k \/ (e = g.epoch /\ u = "up")
    BY <1>2, <1>4, <1>5, <1>6, <1>10 DEF Boot, StartReconcile, SendReconcile
  <2>2. PICK d \in Recon : d = [at |-> "sent", expect |-> e, age |-> 0, answer |-> NoAnswer]
    BY <1>9 DEF Recon
  <2>3. d.at = "sent" /\ d.expect = e /\ d.expect <= k
    BY <1>6, <2>1, <2>2
  <2>4. PICK v \in States : up' = [up EXCEPT ![p] = v] /\ (v = "up" => u = "up")
    BY <1>4, <1>7, <1>10 DEF Boot, StartReconcile, States
  <2>5. gate' = [gate EXCEPT ![p] = g] /\ checkpoint' = k /\ recon' = [recon EXCEPT ![p] = d]
    BY <1>5, <1>7, <1>10, <2>1, <2>2 DEF Boot, StartReconcile
  <2>6. late' \subseteq Command /\ AskedLate'
    BY <1>1, <1>5, <1>8, <2>5, AskedLateKept
  <2>7. checkpoint <= k /\ Foreign => (d.at = "sent" => d.expect # None)
    BY <1>1, <1>5, <1>6, <2>1, <2>3
  <2>8. checkpoint <= k
    BY <1>1, <1>5
  <2>. QED BY <1>6, <1>8, <2>3, <2>4, <2>5, <2>6, <2>7, <2>8, ProcessMoves
<1>11. ASSUME Stop(p) PROVE NonceInv'
  <2>1. PICK h \in Gate : h = [g EXCEPT !.left = Forever] /\ h.epoch = g.epoch
    BY ClosedGate
  <2>2. gate' = [gate EXCEPT ![p] = h] /\ checkpoint' = k /\ recon' = [recon EXCEPT ![p] = c]
    BY <1>1, <1>2, <1>5, <1>7, <1>11, <2>1 DEF Stop, FailClosed
  <2>3. up' = [up EXCEPT ![p] = "stopped"] /\ "stopped" \in States /\ checkpoint <= k
    BY <1>1, <1>5, <1>11 DEF Stop, States
  <2>6. late' \subseteq Command /\ AskedLate'
    BY <1>1, <1>5, <1>8, <2>2, AskedLateKept
  <2>. QED BY <1>6, <1>8, <2>1, <2>2, <2>3, <2>6, ProcessMoves
<1>12. ASSUME ApplyReconcile(p) PROVE NonceInv'
  <2>1. PICK d \in Recon : d = Rescheduled /\ d.at = "waiting" /\ d.expect = 0
    BY IdleRecon
  <2>2. recon' = [recon EXCEPT ![p] = d] /\ c.at = "answered"
    BY <1>3, <1>12, <2>1 DEF ApplyReconcile
  <2>3. PICK v \in States : /\ up' = [up EXCEPT ![p] = v]
                            /\ v = "up" /\ c.answer.status = "CONFIG_MISMATCH" => u = "up"
                            /\ v = "up" /\ u = "stopped" => FALSE
    BY <1>1, <1>3, <1>4, <1>12 DEF ApplyReconcile, States
  <2>4. d.expect <= k
    BY <1>5, <2>1
  <2>5. CASE c.answer.status = "CONFIG_MISMATCH"
    <3>1. PICK h \in Gate : h = [g EXCEPT !.left = Forever] /\ h.epoch = g.epoch
      BY ClosedGate
    <3>2. gate' = [gate EXCEPT ![p] = h] /\ checkpoint' = k /\ checkpoint <= k
      BY <1>1, <1>2, <1>3, <1>5, <1>12, <2>5, <3>1 DEF ApplyReconcile, FailClosed
    <3>3. late' \subseteq Command /\ AskedLate'
      BY <1>1, <1>5, <1>8, <3>2, AskedLateKept
    <3>. QED BY <1>6, <1>8, <2>1, <2>2, <2>3, <2>4, <2>5, <3>1, <3>2, <3>3, ProcessMoves
  <2>6. CASE c.answer.status # "CONFIG_MISMATCH" /\ u = "stopped"
    <3>2. gate' = [gate EXCEPT ![p] = g] /\ checkpoint' = k /\ checkpoint <= k
      BY <1>1, <1>3, <1>4, <1>5, <1>7, <1>12, <2>6 DEF ApplyReconcile
    <3>3. late' \subseteq Command /\ AskedLate'
      BY <1>1, <1>5, <1>8, <3>2, AskedLateKept
    <3>. QED BY <1>6, <1>8, <2>1, <2>2, <2>3, <2>4, <2>6, <3>2, <3>3, ProcessMoves
  <2>7. CASE c.answer.status # "CONFIG_MISMATCH" /\ u # "stopped"
    <3>1. PICK a \in Answer : a = c.answer /\ a.epoch \in 1..epochs /\ a.left \in Nat /\ a.epoch \in Nat
      BY <1>6, <2>2 DEF Recon, Answer
    <3>2. PICK h \in Gate : h = [epoch |-> a.epoch, left |-> a.left] /\ h.epoch = a.epoch
      <4>1. [epoch |-> a.epoch, left |-> a.left] \in Gate
        BY <3>1 DEF Gate
      <4>. QED BY <4>1
    <3>3. PICK l \in Nat : l = Larger(checkpoint, a.epoch)
      BY <1>1, <3>1 DEF Larger
    <3>4. gate' = [gate EXCEPT ![p] = h] /\ checkpoint' = l
      BY <1>3, <1>4, <1>12, <2>7, <3>1, <3>2, <3>3 DEF ApplyReconcile, Apply
    <3>5. checkpoint <= l /\ l <= epochs /\ h.epoch <= l /\ d.expect <= l /\ h.epoch # None
      BY <1>1, <2>1, <3>1, <3>2, <3>3 DEF Larger, None
    <3>6. Foreign => l < epoch
      BY <1>1, <1>5, <1>6, <2>2, <3>1, <3>3 DEF Larger, None
    <3>7. late' \subseteq Command /\ AskedLate'
      BY <1>8, <3>4, <3>5, AskedLateKept
    <3>. QED BY <1>8, <2>1, <2>2, <2>3, <3>4, <3>5, <3>6, <3>7, ProcessMoves
  <2>. QED BY <2>5, <2>6, <2>7
<1>. QED BY <1>10, <1>11, <1>12

\* What a process leaves behind when it gives a request or a reconcile up.
LEMMA FailSteps ==
  ASSUME NonceInv, NEW p \in Procs, ReconcileFails(p) \/ Crash(p)
  PROVE  NonceInv'
<1>1. /\ up \in [Procs -> States] /\ gate \in [Procs -> Gate] /\ recon \in [Procs -> Recon]
      /\ req \in [Reqs -> [at: {"idle"}] \cup Live]
      /\ epochs \in Nat /\ checkpoint \in Nat /\ epoch \in Nat /\ faults \in Nat
      /\ checkpoint <= epochs /\ late \subseteq Command
  BY NonceTypes DEF NonceInv, RedisTypes, Counted
<1>2. PICK g \in Gate : g = gate[p]
  BY <1>1
<1>3. PICK e \in Nat : e = recon[p].expect
  BY <1>1 DEF Recon
<1>4. PICK u \in States : u = up[p]
  BY <1>1
<1>5. PICK k \in Nat : k = checkpoint /\ checkpoint <= k /\ k <= epochs
  BY <1>1
<1>6. /\ g.epoch \in Nat /\ g.epoch <= k /\ (u = "up" => g.epoch # None)
      /\ Foreign => k < epoch
  BY <1>1, <1>2, <1>4, <1>5 DEF NonceInv, Trusting, Foreign, Gate
<1>7. [kind |-> "reconcile", proc |-> p, expect |-> e] \in Command
  BY DEF Command
<1>8. UNCHANGED <<redisVars, age, spent, granted>> /\ faults' \in Nat
  BY <1>1 DEF ReconcileFails, Crash, Fault
<1>9. ASSUME ReconcileFails(p) PROVE NonceInv'
  <2>1. PICK d \in Recon : d = Rescheduled /\ d.at = "waiting" /\ d.expect <= k
    BY <1>5, IdleRecon
  <2>2. PICK h \in Gate : h = [g EXCEPT !.left = Forever] /\ h.epoch = g.epoch
    BY <1>2, ClosedGate
  <2>3. gate' = [gate EXCEPT ![p] = h] /\ checkpoint' = k /\ recon' = [recon EXCEPT ![p] = d]
    BY <1>1, <1>2, <1>5, <1>9, <2>1, <2>2 DEF ReconcileFails, FailClosed
  <2>4. PICK v \in States : up' = [up EXCEPT ![p] = v] /\ (v = "up" => u = "up")
    BY <1>4, <1>9 DEF ReconcileFails, States
  <2>5. /\ req' \in [Reqs -> [at: {"idle"}] \cup Live]
        /\ \A r \in Reqs : req'[r].at = "idle" \/ req'[r] = req[r]
    BY <1>1, <1>9 DEF ReconcileFails
  <2>6. late' \subseteq late \cup {[kind |-> "reconcile", proc |-> p, expect |-> e]}
    BY <1>3, <1>9 DEF ReconcileFails
  <2>7. late' \subseteq Command
    BY <1>1, <1>7, <2>6
  <2>8. AskedLate'
    <3> SUFFICES ASSUME NEW c \in late', c.kind = "consume"
                 PROVE  c.expect <= checkpoint /\ age[c.nonce] # Unsigned
      BY <1>5, <1>8, <2>3 DEF AskedLate
    <3>1. c \in late
      BY <2>6
    <3>. QED BY <3>1 DEF NonceInv, AskedLate
  <2>. QED BY <1>5, <1>6, <1>8, <2>1, <2>2, <2>3, <2>4, <2>5, <2>7, <2>8, ProcessMoves
<1>10. ASSUME Crash(p) PROVE NonceInv'
  <2>1. PICK d \in Recon : d = NoRecon /\ d.at = "idle" /\ d.expect <= k
    BY <1>5, IdleRecon
  <2>2. PICK h \in Gate : h = Closed /\ h.epoch <= k
    <3>1. Closed \in Gate /\ Closed.epoch = 0
      BY DEF Gate, Closed, None
    <3>. QED BY <1>5, <3>1
  <2>3. /\ gate' = [gate EXCEPT ![p] = h] /\ checkpoint' = k /\ recon' = [recon EXCEPT ![p] = d]
        /\ up' = [up EXCEPT ![p] = "down"] /\ "down" \in States
    BY <1>5, <1>10, <2>1, <2>2 DEF Crash, States
  <2>5. /\ req' \in [Reqs -> [at: {"idle"}] \cup Live]
        /\ \A r \in Reqs : req'[r].at = "idle" \/ req'[r] = req[r]
    <3>1. NoReq \in [at: {"idle"}] /\ NoReq.at = "idle"
      BY DEF NoReq
    <3>. QED BY <1>1, <1>10, <3>1 DEF Crash
  <2>6. ASSUME NEW c \in late'
        PROVE  \/ c \in late \/ c = [kind |-> "reconcile", proc |-> p, expect |-> e]
               \/ \E r \in Reqs : /\ req[r].at = "sent"
                                  /\ c = [kind |-> "consume", proc |-> p, expect |-> req[r].expect,
                                          nonce |-> req[r].nonce]
    BY <1>3, <1>10 DEF Crash
  <2>7. ASSUME NEW r \in Reqs, req[r].at = "sent"
        PROVE  /\ req[r].expect \in Nat /\ req[r].nonce \in Nonces
               /\ req[r].expect <= checkpoint /\ age[req[r].nonce] # Unsigned
    BY <1>1, <2>7 DEF NonceInv, Asking, InFlight, Live
  <2>8. late' \subseteq Command
    <3> SUFFICES ASSUME NEW c \in late' PROVE c \in Command
      OBVIOUS
    <3>1. ASSUME NEW r \in Reqs, req[r].at = "sent",
                 c = [kind |-> "consume", proc |-> p, expect |-> req[r].expect, nonce |-> req[r].nonce]
          PROVE  c \in Command
      BY <2>7, <3>1 DEF Command
    <3>. QED BY <1>1, <1>7, <2>6, <3>1
  <2>9. AskedLate'
    <3> SUFFICES ASSUME NEW c \in late', c.kind = "consume"
                 PROVE  c.expect <= checkpoint /\ age[c.nonce] # Unsigned
      BY <1>5, <1>8, <2>3 DEF AskedLate
    <3>1. ASSUME NEW r \in Reqs, req[r].at = "sent",
                 c = [kind |-> "consume", proc |-> p, expect |-> req[r].expect, nonce |-> req[r].nonce]
          PROVE  c.expect <= checkpoint /\ age[c.nonce] # Unsigned
      BY <2>7, <3>1
    <3>2. c \in late => c.expect <= checkpoint /\ age[c.nonce] # Unsigned
      BY DEF NonceInv, AskedLate
    <3>3. c # [kind |-> "reconcile", proc |-> p, expect |-> e]
      OBVIOUS
    <3>. QED BY <2>6, <3>1, <3>2, <3>3
  <2>. QED BY <1>5, <1>6, <1>8, <2>1, <2>2, <2>3, <2>5, <2>8, <2>9, ProcessMoves
<1>. QED BY <1>9, <1>10

\* A request gets its answer, or is given up.
LEMMA RequestEnds ==
  ASSUME NonceInv, NEW r \in Reqs, ApplyConsume(r) \/ ConsumeFails(r)
  PROVE  NonceInv'
<1>1. /\ up \in [Procs -> States] /\ gate \in [Procs -> Gate] /\ recon \in [Procs -> Recon]
      /\ req \in [Reqs -> [at: {"idle"}] \cup Live]
      /\ epochs \in Nat /\ checkpoint \in Nat /\ epoch \in Nat /\ faults \in Nat
      /\ checkpoint <= epochs /\ late \subseteq Command /\ (epoch = None \/ epoch = epochs)
  BY NonceTypes DEF NonceInv, RedisTypes, Counted
<1>2. InFlight(req[r])
  BY DEF ApplyConsume, ConsumeFails, InFlight
<1>3. PICK q \in Live : q = req[r]
  BY <1>1, <1>2 DEF InFlight
<1>4. PICK p \in Procs : p = q.proc
  BY <1>3 DEF Live
<1>5. /\ q.expect \in Nat /\ q.nonce \in Nonces /\ q.expect <= checkpoint /\ age[q.nonce] # Unsigned
      /\ q.answer \in Answer /\ (q.at = "answered" => q.answer.epoch \in 1..epochs)
      /\ Foreign /\ q.at = "answered" => q.answer.epoch # epoch
  BY <1>2, <1>3 DEF NonceInv, Asking, Live, Foreign
<1>6. PICK g \in Gate : g = gate[p]
  BY <1>1
<1>7. PICK c \in Recon : c = recon[p]
  BY <1>1
<1>8. PICK u \in States : u = up[p]
  BY <1>1
<1>9. PICK k \in Nat : k = checkpoint /\ checkpoint <= k /\ k <= epochs
  BY <1>1
<1>10. /\ g.epoch \in Nat /\ g.epoch <= k /\ c.expect \in Nat /\ c.expect <= k
       /\ (u = "up" => g.epoch # None)
       /\ (c.at = "answered" => c.answer.epoch \in 1..epochs)
       /\ Foreign => k < epoch /\ k # None
       /\ Foreign => (c.at = "sent" => c.expect # None)
                     /\ (c.at = "answered" => c.answer.epoch # epoch)
  BY <1>1, <1>6, <1>7, <1>8, <1>9 DEF NonceInv, Trusting, Foreign, Gate, Recon
<1>11. up = [up EXCEPT ![p] = u] /\ gate = [gate EXCEPT ![p] = g] /\ recon = [recon EXCEPT ![p] = c]
  BY <1>1, <1>6, <1>7, <1>8
<1>12. /\ UNCHANGED <<redisVars, age, spent, granted, up, recon>> /\ faults' \in Nat
       /\ req' = [req EXCEPT ![r] = NoReq]
  BY <1>1 DEF ApplyConsume, ConsumeFails, Fault
<1>13. up' = [up EXCEPT ![p] = u] /\ recon' = [recon EXCEPT ![p] = c]
  BY <1>11, <1>12
<1>14. /\ req' \in [Reqs -> [at: {"idle"}] \cup Live]
       /\ \A s \in Reqs : req'[s].at = "idle" \/ req'[s] = req[s]
  <2>1. NoReq \in [at: {"idle"}] /\ NoReq.at = "idle"
    BY DEF NoReq
  <2>. QED BY <1>1, <1>12, <2>1
<1>15. ASSUME ApplyConsume(r), UNCHANGED <<gate, checkpoint>> PROVE NonceInv'
  <2>1. gate' = [gate EXCEPT ![p] = g] /\ checkpoint' = k
    BY <1>9, <1>11, <1>15
  <2>2. late' \subseteq Command /\ AskedLate'
    BY <1>1, <1>12, <1>15, AskedLateKept DEF ApplyConsume
  <2>. QED BY <1>9, <1>10, <1>12, <1>13, <1>14, <2>1, <2>2, ProcessMoves
<1>16. ASSUME ApplyConsume(r), Apply(p, q.answer) PROVE NonceInv'
  <2>1. PICK a \in Answer : a = q.answer /\ a.epoch \in 1..epochs /\ a.left \in Nat /\ a.epoch \in Nat
    BY <1>3, <1>5, <1>16 DEF ApplyConsume, Answer
  <2>2. PICK h \in Gate : h = [epoch |-> a.epoch, left |-> a.left] /\ h.epoch = a.epoch
    <3>1. [epoch |-> a.epoch, left |-> a.left] \in Gate
      BY <2>1 DEF Gate
    <3>. QED BY <3>1
  <2>3. PICK l \in Nat : l = Larger(checkpoint, a.epoch)
    BY <1>1, <2>1 DEF Larger
  <2>4. gate' = [gate EXCEPT ![p] = h] /\ checkpoint' = l
    BY <1>16, <2>1, <2>2, <2>3 DEF Apply
  <2>5. checkpoint <= l /\ l <= epochs /\ h.epoch <= l /\ c.expect <= l /\ h.epoch # None
    BY <1>1, <1>9, <1>10, <2>1, <2>2, <2>3 DEF Larger, None
  <2>6. Foreign => l < epoch
    BY <1>1, <1>3, <1>5, <1>9, <1>10, <1>16, <2>1, <2>3 DEF Larger, None, ApplyConsume
  <2>7. late' \subseteq Command /\ AskedLate'
    BY <1>12, <1>16, <2>4, <2>5, AskedLateKept DEF ApplyConsume
  <2>. QED BY <1>10, <1>12, <1>13, <1>14, <2>4, <2>5, <2>6, <2>7, ProcessMoves
<1>17. ASSUME ConsumeFails(r) PROVE NonceInv'
  <2>1. PICK h \in Gate : h = [g EXCEPT !.left = Forever] /\ h.epoch = g.epoch
    BY <1>6, ClosedGate
  <2>2. gate' = [gate EXCEPT ![p] = h] /\ checkpoint' = k
    BY <1>1, <1>3, <1>4, <1>6, <1>9, <1>17, <2>1 DEF ConsumeFails, FailClosed
  <2>3. PICK m \in Command : m = [kind |-> "consume", proc |-> p, expect |-> q.expect,
                                  nonce |-> q.nonce]
    BY <1>4, <1>5 DEF Command
  <2>4. late' \subseteq late \cup {m}
    BY <1>3, <1>4, <1>17, <2>3 DEF ConsumeFails
  <2>5. late' \subseteq Command
    BY <1>1, <2>3, <2>4
  <2>6. AskedLate'
    <3> SUFFICES ASSUME NEW x \in late', x.kind = "consume"
                 PROVE  x.expect <= checkpoint /\ age[x.nonce] # Unsigned
      BY <1>9, <1>12, <2>2 DEF AskedLate
    <3>1. x = m => x.expect <= checkpoint /\ age[x.nonce] # Unsigned
      BY <1>5, <2>3
    <3>2. x \in late => x.expect <= checkpoint /\ age[x.nonce] # Unsigned
      BY DEF NonceInv, AskedLate
    <3>. QED BY <2>4, <3>1, <3>2
  <2>7. h.epoch <= k /\ (u = "up" => h.epoch # None)
    BY <1>10, <2>1
  <2>. QED BY <1>9, <1>10, <1>12, <1>13, <1>14, <2>2, <2>5, <2>6, <2>7, ProcessMoves
<1>18. ApplyConsume(r) => UNCHANGED <<gate, checkpoint>> \/ Apply(p, q.answer)
  BY <1>3, <1>4 DEF ApplyConsume
<1>. QED BY <1>15, <1>16, <1>17, <1>18

\* After a script that started a quarantine, or left Redis alone, a spent nonce is safe.
LEMMA SafeAfterScript ==
  ASSUME NonceInv, RedisTypes', UNCHANGED age, NEW n \in Nonces, age[n] # Unsigned,
         \/ quar'.left >= KeyRetention
         \/ Undisturbed /\ Safe(n) /\ key'[n] = key[n] /\ (Foreign => Foreign')
         \/ key'[n] = KeyRetention
  PROVE  Safe(n)'
<1>1. /\ Life(n) \in Int /\ Life(n) < KeyRetention /\ KeyRetention \in Nat /\ Life(n)' = Life(n)
      /\ key'[n] \in Nat /\ quar'.left \in Nat
  BY LifeBound, GovernedConstants DEF NonceInv, Life, RedisTypes
<1>2. CASE quar'.left >= KeyRetention \/ key'[n] = KeyRetention
  BY <1>1, <1>2 DEF Safe
<1>3. CASE Undisturbed /\ Safe(n) /\ key'[n] = key[n] /\ (Foreign => Foreign')
  BY <1>1, <1>3 DEF Safe, Undisturbed
<1>. QED BY <1>2, <1>3

\* A reconcile of a process runs on Redis.
LEMMA RunReconcileStep ==
  ASSUME NonceInv, NEW p \in Procs, RunReconcile(p)
  PROVE  NonceInv'
<1>1. /\ recon \in [Procs -> Recon] /\ RedisTypes /\ checkpoint \in Nat
      /\ epochs \in Nat /\ epoch \in Nat
  BY NonceTypes DEF NonceInv, RedisTypes
<1>2. PICK c \in Recon : c = recon[p] /\ c.expect \in Nat /\ c.at = "sent"
  BY <1>1 DEF Recon, RunReconcile
<1>3. UNCHANGED <<up, gate, checkpoint, req, late, age, spent, granted, faults>>
  BY DEF RunReconcile
<1>4. /\ RedisTypes' /\ Counted' /\ UNCHANGED key /\ epochs' >= epochs
      /\ Named \in 1..epochs'
      /\ quar'.left >= KeyRetention \/ (Undisturbed /\ (c.expect = None \/ epoch = c.expect))
  BY <1>1, <1>2, <1>3, ReconcileFacts DEF NonceInv, RunReconcile
<1>5. PICK a \in Answer : a = AnswerOf(ReconcileStatus(p, c.expect)) /\ a.epoch = Named
  <2>1. ReconcileStatus(p, c.expect) \in Statuses
    BY DEF ReconcileStatus, Statuses
  <2>2. Named \in Nat /\ quar'.left \in Nat
    BY <1>1, <1>4, NamedFacts DEF NonceInv, RedisTypes
  <2>3. AnswerOf(ReconcileStatus(p, c.expect)) \in Answer
    BY <2>1, <2>2 DEF AnswerOf, Answer
  <2>4. AnswerOf(ReconcileStatus(p, c.expect)).epoch = Named
    BY DEF AnswerOf
  <2>. QED BY <2>3, <2>4
<1>6. PICK d \in Recon : /\ d = [c EXCEPT !.at = "answered", !.answer = a]
                         /\ d.at = "answered" /\ d.answer = a /\ d.expect = c.expect
  <2>1. [c EXCEPT !.at = "answered", !.answer = a] \in Recon
    BY <1>2, <1>5 DEF Recon
  <2>. QED BY <1>2, <2>1 DEF Recon
<1>7. recon' = [recon EXCEPT ![p] = d]
  BY <1>1, <1>2, <1>5, <1>6 DEF RunReconcile
<1>8. NonceTypeOK'
  <2>1. recon' \in [Procs -> Recon]
    BY <1>1, <1>6, <1>7
  <2>. QED BY <1>3, <1>4, <2>1
       DEF NonceInv, NonceTypeOK, RedisTypes, States, Gate, Recon, Live, Request
<1>9. Trusting'
  <2> SUFFICES ASSUME NEW q \in Procs
               PROVE  /\ recon'[q].expect <= checkpoint
                      /\ recon'[q].at = "answered" => recon'[q].answer.epoch \in 1..epochs'
    BY <1>3 DEF NonceInv, Trusting
  <2>1. CASE q = p
    BY <1>1, <1>2, <1>4, <1>5, <1>6, <1>7, <2>1 DEF NonceInv, Trusting
  <2>2. CASE q # p
    <3>1. recon'[q] = recon[q]
      BY <1>1, <1>7, <2>2
    <3>2. epochs' \in Nat
      BY <1>4 DEF RedisTypes
    <3>. QED BY <1>1, <1>4, <3>1, <3>2 DEF NonceInv, Trusting
  <2>. QED BY <2>1, <2>2
<1>10. Asking' /\ AskedLate'
  <2>1. epochs' \in Nat
    BY <1>4 DEF RedisTypes
  <2>. QED BY <1>1, <1>3, <1>4, <2>1 DEF NonceInv, Asking, AskedLate, InFlight
<1>11. Foreign => quar'.left >= KeyRetention
  <2>1. Foreign => c.expect # None /\ c.expect # epoch
    BY <1>1, <1>2 DEF Foreign, NonceInv, Trusting
  <2>. QED BY <1>4, <2>1
<1>12. SpentSafe'
  <2>1. ASSUME NEW n \in spent PROVE Safe(n)'
    <3>1. n \in Nonces /\ age[n] # Unsigned /\ Safe(n)
      BY NonceTypes DEF NonceInv, SpentSafe
    <3>. QED BY <1>3, <1>4, <1>11, <3>1, SafeAfterScript
  <2>. QED BY <1>3, <2>1 DEF NonceInv, SpentSafe
<1>. QED BY <1>4, <1>8, <1>9, <1>10, <1>12 DEF NonceInv

\* A consume of a request runs on Redis.  A nonce that was spent is refused: a script that
\* finds the epoch it expects finds no key and no quarantine only when the request with
\* this nonce would be too old.
LEMMA RunConsumeStep ==
  ASSUME NonceInv, NEW r \in Reqs, RunConsume(r)
  PROVE  NonceInv'
<1>1. /\ req \in [Reqs -> [at: {"idle"}] \cup Live] /\ RedisTypes /\ checkpoint \in Nat
      /\ epochs \in Nat /\ epoch \in Nat /\ spent \subseteq Nonces /\ granted \in [Nonces -> Nat]
  BY NonceTypes DEF NonceInv, RedisTypes
<1>2. req[r].at = "sent"
  BY DEF RunConsume
<1>3. PICK q \in Live : q = req[r]
  BY <1>1, <1>2
<1>4. PICK p \in Procs, n \in Nonces : p = q.proc /\ n = q.nonce
  BY <1>3 DEF Live
<1>5. /\ q.expect \in Nat /\ q.expect <= checkpoint /\ age[n] # Unsigned
      /\ age[n] <= SigWindow + q.age /\ q.age \in 0..Timeout
  BY <1>2, <1>3, <1>4 DEF NonceInv, Asking, Live, InFlight
<1>6. PICK e \in Nat : e = q.expect
  BY <1>5
<1>7. PICK s : s = ConsumeStatus(p, e, n)
  OBVIOUS
<1>8. /\ ConsumeScript(p, e, n) /\ UNCHANGED <<up, gate, recon, checkpoint, late, age, faults>>
      /\ req' = [req EXCEPT ![r].at = "answered", ![r].answer = AnswerOf(s)]
      /\ granted' = IF s = "FRESH" THEN [granted EXCEPT ![n] = @ + 1] ELSE granted
  BY <1>3, <1>4, <1>6, <1>7 DEF RunConsume, procVars
<1>9. /\ RedisTypes' /\ Counted' /\ epochs' >= epochs /\ Named \in 1..epochs'
      /\ quar'.left >= KeyRetention \/ (Undisturbed /\ epoch = e)
      /\ \/ UNCHANGED <<key, spent>> /\ s # "FRESH"
         \/ /\ s = "FRESH" /\ key[n] = 0 /\ quar.left = 0 /\ epoch = e /\ Undisturbed
            /\ key' = [key EXCEPT ![n] = KeyRetention] /\ spent' = spent \cup {n}
  BY <1>1, <1>7, <1>8, ConsumeFacts DEF NonceInv
<1>10. PICK a \in Answer : a = AnswerOf(s) /\ a.epoch = Named
  <2>1. s \in Statuses
    BY <1>7 DEF ConsumeStatus, Statuses
  <2>2. Named \in Nat /\ quar'.left \in Nat
    BY <1>1, <1>9, NamedFacts DEF NonceInv, RedisTypes
  <2>3. AnswerOf(s) \in Answer
    BY <2>1, <2>2 DEF AnswerOf, Answer
  <2>4. AnswerOf(s).epoch = Named
    BY DEF AnswerOf
  <2>. QED BY <2>3, <2>4
<1>11. PICK d \in Live : /\ d = [q EXCEPT !.at = "answered", !.answer = a]
                         /\ d.at = "answered" /\ d.answer = a /\ d.expect = q.expect
                         /\ d.nonce = q.nonce /\ d.age = q.age
  <2>1. [q EXCEPT !.at = "answered", !.answer = a] \in Live
    BY <1>3, <1>10 DEF Live
  <2>. QED BY <1>3, <2>1 DEF Live
<1>12. req' = [req EXCEPT ![r] = d]
  BY <1>1, <1>3, <1>8, <1>10, <1>11
<1>13. Foreign => e # epoch
  BY <1>1, <1>5, <1>6 DEF Foreign
<1>14. n \in spent => s # "FRESH"
  <2> SUFFICES ASSUME n \in spent, s = "FRESH" PROVE FALSE
    OBVIOUS
  <2>1. key[n] = 0 /\ quar.left = 0 /\ epoch = e /\ epoch # None /\ config # None
    BY <1>9 DEF Undisturbed
  <2>2. Safe(n) /\ ~Foreign
    BY <1>13, <2>1 DEF NonceInv, SpentSafe
  <2>3. Life(n) \in Int /\ Life(n) >= 0
    BY <1>5, LifeBound, GovernedConstants DEF NonceInv, Life
  <2>. QED BY <2>1, <2>2, <2>3 DEF Safe
<1>15. /\ spent' \subseteq Nonces /\ granted' \in [Nonces -> Nat]
       /\ \A m \in Nonces : granted'[m] <= 1 /\ (granted'[m] > 0 => m \in spent')
  <2>1. \A m \in Nonces : granted[m] \in Nat /\ granted[m] <= 1 /\ (granted[m] > 0 => m \in spent)
    BY <1>1 DEF NonceInv, SpentSafe
  <2>2. CASE s # "FRESH"
    BY <1>1, <1>8, <1>9, <2>1, <2>2
  <2>3. CASE s = "FRESH"
    <3>1. n \notin spent /\ spent' = spent \cup {n} /\ granted' = [granted EXCEPT ![n] = granted[n] + 1]
      BY <1>8, <1>9, <1>14, <2>3
    <3>2. granted[n] = 0
      BY <2>1, <3>1
    <3>. QED BY <1>1, <2>1, <3>1, <3>2
  <2>. QED BY <2>2, <2>3
<1>16. NonceTypeOK'
  <2>1. req' \in [Reqs -> [at: {"idle"}] \cup Live]
    BY <1>1, <1>11, <1>12
  <2>. QED BY <1>8, <1>9, <1>15, <2>1
       DEF NonceInv, NonceTypeOK, RedisTypes, States, Gate, Recon, Live, Request
<1>17. Trusting' /\ AskedLate'
  <2>1. epochs' \in Nat
    BY <1>9 DEF RedisTypes
  <2>. QED BY <1>1, <1>8, <1>9, <2>1 DEF NonceInv, Trusting, AskedLate
<1>18. Asking'
  <2> SUFFICES ASSUME NEW t \in Reqs, InFlight(req'[t])
               PROVE  /\ req'[t].expect <= checkpoint
                      /\ age[req'[t].nonce] # Unsigned
                      /\ age[req'[t].nonce] <= SigWindow + req'[t].age
                      /\ req'[t].at = "answered" => req'[t].answer.epoch \in 1..epochs'
    BY <1>8 DEF Asking, InFlight
  <2>1. CASE t = r
    <3>1. req'[t] = d
      BY <1>1, <1>12, <2>1
    <3>. QED BY <1>4, <1>5, <1>9, <1>10, <1>11, <3>1
  <2>2. CASE t # r
    <3>1. req'[t] = req[t]
      BY <1>1, <1>12, <2>2
    <3>2. epochs' \in Nat
      BY <1>9 DEF RedisTypes
    <3>. QED BY <1>1, <1>9, <3>1, <3>2 DEF NonceInv, Asking
  <2>. QED BY <2>1, <2>2
<1>19. SpentSafe'
  <2>1. ASSUME NEW m \in spent' PROVE age[m] # Unsigned /\ Safe(m)'
    <3>1. m \in Nonces /\ RedisTypes' /\ age' = age
      BY <1>8, <1>9, <1>15
    <3>2. CASE s = "FRESH" /\ m = n
      <4>1. key'[m] = KeyRetention
        BY <1>1, <1>9, <3>2 DEF RedisTypes
      <4>. QED BY <1>5, <3>1, <3>2, <4>1, SafeAfterScript
    <3>3. CASE ~(s = "FRESH" /\ m = n)
      <4>1. m \in spent /\ key'[m] = key[m]
        BY <1>1, <1>9, <3>1, <3>3 DEF RedisTypes
      <4>2. age[m] # Unsigned /\ Safe(m)
        BY <4>1 DEF NonceInv, SpentSafe
      <4>3. quar'.left >= KeyRetention \/ (Undisturbed /\ (Foreign => Foreign'))
        BY <1>9, <1>13
      <4>. QED BY <3>1, <4>1, <4>2, <4>3, SafeAfterScript
    <3>. QED BY <3>2, <3>3
  <2>. QED BY <1>8, <1>15, <2>1 DEF SpentSafe
<1>. QED BY <1>9, <1>16, <1>17, <1>18, <1>19 DEF NonceInv

\* A command that timed out runs after all, and nobody hears its answer.
LEMMA RunLateStep ==
  ASSUME NonceInv, NEW c \in late, RunLate(c)
  PROVE  NonceInv'
<1>1. /\ RedisTypes /\ checkpoint \in Nat /\ epochs \in Nat /\ epoch \in Nat
      /\ spent \subseteq Nonces /\ late \subseteq Command
  BY NonceTypes DEF NonceInv, RedisTypes
<1>2. PICK p \in Procs, e \in Nat : p = c.proc /\ e = c.expect
  BY <1>1 DEF Command
<1>3. UNCHANGED <<up, gate, recon, checkpoint, req, age, granted, faults>> /\ late' = late \ {c}
  BY DEF RunLate, procVars
<1>4. /\ RedisTypes' /\ Counted' /\ epochs' >= epochs /\ spent' \subseteq Nonces
      /\ spent \subseteq spent'
      /\ \A m \in spent' : age[m] # Unsigned /\ Safe(m)'
  <2>1. ASSUME c.kind = "reconcile", ReconcileScript(p, e), UNCHANGED spent
        PROVE  /\ RedisTypes' /\ Counted' /\ epochs' >= epochs /\ spent' \subseteq Nonces
               /\ spent \subseteq spent'
               /\ \A m \in spent' : age[m] # Unsigned /\ Safe(m)'
    <3>1. /\ RedisTypes' /\ Counted' /\ UNCHANGED key /\ epochs' >= epochs
          /\ quar'.left >= KeyRetention \/ Undisturbed
      BY <1>1, <1>3, <2>1, ReconcileFacts DEF NonceInv
    <3>2. Undisturbed /\ Foreign => Foreign'
      BY <1>3 DEF Undisturbed, Foreign
    <3>3. ASSUME NEW m \in spent PROVE age[m] # Unsigned /\ Safe(m)'
      <4>1. m \in Nonces /\ age[m] # Unsigned /\ Safe(m)
        BY <1>1 DEF NonceInv, SpentSafe
      <4>. QED BY <1>3, <3>1, <3>2, <4>1, SafeAfterScript
    <3>. QED BY <1>1, <2>1, <3>1, <3>3
  <2>2. ASSUME c.kind = "consume", ConsumeScript(p, e, c.nonce)
        PROVE  /\ RedisTypes' /\ Counted' /\ epochs' >= epochs /\ spent' \subseteq Nonces
               /\ spent \subseteq spent'
               /\ \A m \in spent' : age[m] # Unsigned /\ Safe(m)'
    <3>1. PICK n \in Nonces : n = c.nonce
      BY <1>1, <2>2 DEF Command
    <3>2. e <= checkpoint /\ age[n] # Unsigned
      BY <1>2, <2>2, <3>1 DEF NonceInv, AskedLate
    <3>3. PICK s : s = ConsumeStatus(p, e, n)
      OBVIOUS
    <3>4. /\ RedisTypes' /\ Counted' /\ epochs' >= epochs
          /\ quar'.left >= KeyRetention \/ (Undisturbed /\ epoch = e)
          /\ \/ UNCHANGED <<key, spent>> /\ s # "FRESH"
             \/ /\ s = "FRESH" /\ key' = [key EXCEPT ![n] = KeyRetention]
                /\ spent' = spent \cup {n}
      BY <1>1, <1>3, <2>2, <3>1, <3>3, ConsumeFacts DEF NonceInv
    <3>5. Foreign => e # epoch
      BY <1>1, <3>2 DEF Foreign
    <3>6. spent' \subseteq Nonces /\ spent \subseteq spent'
      BY <1>1, <3>4
    <3>7. ASSUME NEW m \in spent' PROVE age[m] # Unsigned /\ Safe(m)'
      <4>1. m \in Nonces
        BY <3>6
      <4>2. CASE s = "FRESH" /\ m = n
        <5>1. key'[m] = KeyRetention
          BY <1>1, <3>4, <4>2 DEF RedisTypes
        <5>. QED BY <1>3, <3>2, <3>4, <4>1, <4>2, <5>1, SafeAfterScript
      <4>3. CASE ~(s = "FRESH" /\ m = n)
        <5>1. m \in spent /\ key'[m] = key[m]
          BY <1>1, <3>4, <4>1, <4>3 DEF RedisTypes
        <5>2. age[m] # Unsigned /\ Safe(m)
          BY <5>1 DEF NonceInv, SpentSafe
        <5>3. quar'.left >= KeyRetention \/ (Undisturbed /\ (Foreign => Foreign'))
          BY <3>4, <3>5
        <5>. QED BY <1>3, <3>4, <4>1, <5>1, <5>2, <5>3, SafeAfterScript
      <4>. QED BY <4>2, <4>3
    <3>. QED BY <3>4, <3>6, <3>7
  <2>. QED BY <1>2, <2>1, <2>2 DEF RunLate
<1>5. NonceTypeOK'
  <2>1. late' \subseteq Command
    BY <1>1, <1>3
  <2>. QED BY <1>3, <1>4, <2>1 DEF NonceInv, NonceTypeOK, RedisTypes
<1>6. Trusting' /\ Asking' /\ AskedLate'
  <2>1. epochs' \in Nat
    BY <1>4 DEF RedisTypes
  <2>. QED BY <1>1, <1>3, <1>4, <2>1 DEF NonceInv, Trusting, Asking, AskedLate, InFlight
<1>7. SpentSafe'
  BY <1>3, <1>4 DEF NonceInv, SpentSafe
<1>. QED BY <1>4, <1>5, <1>6, <1>7 DEF NonceInv

LEMMA SendConsumeStep ==
  ASSUME NonceInv, NEW r \in Reqs, NEW p \in Procs, NEW n \in Nonces, SendConsume(r, p, n)
  PROVE  NonceInv'
<1>1. /\ req \in [Reqs -> [at: {"idle"}] \cup Live] /\ gate \in [Procs -> Gate]
      /\ age[n] \in Int
  BY NonceTypes, LifeBound DEF NonceInv
<1>2. /\ UNCHANGED <<redisVars, procVars, late, age, spent, granted, faults>>
      /\ age[n] \in -SigWindow..SigWindow
  BY DEF SendConsume
<1>3. UNCHANGED <<epoch, quar, config, key, epochs, up, gate, recon, checkpoint>>
  BY <1>2 DEF redisVars, procVars
<1>4. PICK e \in Nat : e = gate[p].epoch /\ e <= checkpoint
  BY <1>1 DEF NonceInv, Trusting, Gate
<1>5. PICK d \in Live : /\ d = [at |-> "sent", proc |-> p, nonce |-> n, expect |-> e, age |-> 0,
                                answer |-> NoAnswer]
                        /\ d.at = "sent" /\ d.nonce = n /\ d.expect = e /\ d.age = 0
  <2>1. 0 \in 0..Timeout /\ NoAnswer \in Answer
    BY GovernedConstants DEF NoAnswer, Answer, Statuses, None
  <2>2. [at |-> "sent", proc |-> p, nonce |-> n, expect |-> e, age |-> 0, answer |-> NoAnswer]
          \in Live
    BY <2>1 DEF Live
  <2>. QED BY <2>2
<1>6. req' = [req EXCEPT ![r] = d]
  BY <1>4, <1>5 DEF SendConsume
<1>7. age[n] # Unsigned /\ age[n] <= SigWindow + 0
  BY <1>1, <1>2, GovernedConstants DEF Unsigned
<1>8. NonceTypeOK'
  <2>1. req' \in [Reqs -> [at: {"idle"}] \cup Live]
    BY <1>1, <1>5, <1>6
  <2>. QED BY <1>2, <1>3, <2>1 DEF NonceInv, NonceTypeOK, Live, Request
<1>9. Counted' /\ Trusting' /\ AskedLate'
  BY <1>2, <1>3 DEF NonceInv, Counted, Trusting, AskedLate
<1>10. Asking'
  <2> SUFFICES ASSUME NEW t \in Reqs, InFlight(req'[t])
               PROVE  /\ req'[t].expect <= checkpoint
                      /\ age[req'[t].nonce] # Unsigned
                      /\ age[req'[t].nonce] <= SigWindow + req'[t].age
                      /\ req'[t].at = "answered" => req'[t].answer.epoch \in 1..epochs
    BY <1>2, <1>3 DEF Asking, InFlight
  <2>1. CASE t = r
    BY <1>1, <1>4, <1>5, <1>6, <1>7, <2>1
  <2>2. CASE t # r
    <3>1. req'[t] = req[t]
      BY <1>1, <1>6, <2>2
    <3>. QED BY <3>1 DEF NonceInv, Asking
  <2>. QED BY <2>1, <2>2
<1>11. Foreign => Foreign'
  <2>1. \A t \in Reqs : req'[t].at = "answered" => req'[t] = req[t]
    BY <1>1, <1>5, <1>6
  <2>. QED BY <1>3, <2>1 DEF Foreign
<1>12. SpentSafe'
  BY <1>2, <1>3, <1>11 DEF NonceInv, SpentSafe, Safe, Life
<1>. QED BY <1>8, <1>9, <1>10, <1>12 DEF NonceInv

LEMMA SignStep ==
  ASSUME NonceInv, NEW n \in Nonces, NEW a \in -SigWindow..0, Sign(n, a)
  PROVE  NonceInv'
<1>1. /\ age \in [Nonces -> Unsigned..Dead] /\ spent \subseteq Nonces /\ late \subseteq Command
      /\ req \in [Reqs -> [at: {"idle"}] \cup Live]
  BY NonceTypes DEF NonceInv
<1>2. /\ UNCHANGED <<redisVars, procVars, req, late, spent, granted, faults>>
      /\ age[n] = Unsigned /\ age' = [age EXCEPT ![n] = a]
  BY DEF Sign
<1>3. UNCHANGED <<epoch, quar, config, key, epochs, up, gate, recon, checkpoint>>
  BY <1>2 DEF redisVars, procVars
<1>4. /\ age' \in [Nonces -> Unsigned..Dead]
      /\ \A m \in Nonces : age[m] # Unsigned => age'[m] = age[m]
  <2>1. a \in Unsigned..Dead
    BY GovernedConstants DEF Unsigned, Dead
  <2>. QED BY <1>1, <1>2, <2>1
<1>5. NonceTypeOK'
  BY <1>2, <1>3, <1>4 DEF NonceInv, NonceTypeOK
<1>6. Counted' /\ Trusting'
  BY <1>3 DEF NonceInv, Counted, Trusting
<1>7. Asking' /\ AskedLate'
  <2>1. \A r \in Reqs : InFlight(req[r]) => req[r].nonce \in Nonces
    BY <1>1 DEF InFlight, Live
  <2>2. \A c \in late : c.kind = "consume" => c.nonce \in Nonces
    BY <1>1 DEF Command
  <2>. QED BY <1>2, <1>3, <1>4, <2>1, <2>2 DEF NonceInv, Asking, AskedLate, InFlight
<1>8. SpentSafe'
  <2>1. Foreign => Foreign'
    BY <1>2, <1>3 DEF Foreign
  <2>2. \A m \in spent : age'[m] = age[m] /\ age[m] # Unsigned
    BY <1>1, <1>4 DEF NonceInv, SpentSafe
  <2>. QED BY <1>2, <1>3, <2>1, <2>2 DEF NonceInv, SpentSafe, Safe, Life
<1>. QED BY <1>5, <1>6, <1>7, <1>8 DEF NonceInv

\* Redis loses everything, or is replaced by an instance with an epoch nobody has seen.
LEMMA LossSteps ==
  ASSUME NonceInv, LoseData \/ Failover
  PROVE  NonceInv'
<1>1. /\ RedisTypes /\ checkpoint \in Nat /\ faults \in Nat
      /\ epochs \in Nat /\ epoch \in Nat /\ config \in Nat /\ checkpoint <= epochs
  BY NonceTypes DEF NonceInv, RedisTypes, Counted
<1>2. /\ UNCHANGED <<up, gate, recon, checkpoint, req, late, age, spent, granted>>
      /\ quar' = [epoch |-> None, left |-> 0] /\ key' = [n \in Nonces |-> 0]
      /\ faults' = faults + 1
  BY DEF LoseData, Failover, procVars, Fault
<1>3. \/ epoch' = None /\ epochs' = epochs /\ config' = None
      \/ /\ epoch' = epochs + 1 /\ epochs' = epochs + 1 /\ config' = config /\ checkpoint # None
         /\ \A p \in Procs : recon[p].at = "sent" => recon[p].expect # None
  BY DEF LoseData, Failover
<1>4. RedisTypes'
  <2>1. quar' \in [epoch: Nat, left: Nat] /\ key' \in [Nonces -> Nat]
    BY <1>2 DEF None
  <2>. QED BY <1>1, <1>3, <2>1 DEF RedisTypes, None
<1>5. NonceTypeOK'
  BY <1>1, <1>2, <1>4 DEF NonceInv, NonceTypeOK, RedisTypes
<1>6. Counted' /\ epochs' \in Nat /\ epochs' >= epochs
  BY <1>1, <1>2, <1>3 DEF Counted
<1>7. Trusting' /\ Asking' /\ AskedLate'
  BY <1>1, <1>2, <1>6 DEF NonceInv, Trusting, Asking, AskedLate, InFlight
<1>8. epoch' = None \/ Foreign'
  <2> SUFFICES ASSUME epoch' # None PROVE Foreign'
    OBVIOUS
  <2>1. /\ epoch' = epochs + 1 /\ checkpoint # None
        /\ \A p \in Procs : recon[p].at = "sent" => recon[p].expect # None
    BY <1>3
  <2>2. \A p \in Procs : recon[p].at = "answered" => recon[p].answer.epoch # epoch'
    BY <1>1, <2>1 DEF NonceInv, Trusting
  <2>3. \A r \in Reqs : req[r].at = "answered" => req[r].answer.epoch # epoch'
    BY <1>1, <2>1 DEF NonceInv, Asking, InFlight
  <2>4. epoch' > checkpoint
    BY <1>1, <2>1
  <2>. QED BY <1>2, <2>1, <2>2, <2>3, <2>4 DEF Foreign
<1>9. SpentSafe'
  BY <1>2, <1>8 DEF NonceInv, SpentSafe, Safe
<1>. QED BY <1>5, <1>6, <1>7, <1>9 DEF NonceInv

\* A clock step: a key and a quarantine lose no more time than the credential.
LEMMA TickStep ==
  ASSUME NonceInv, Tick
  PROVE  NonceInv'
<1>1. /\ RedisTypes /\ checkpoint \in Nat /\ epochs \in Nat /\ epoch \in Nat
      /\ gate \in [Procs -> Gate] /\ recon \in [Procs -> Recon]
      /\ req \in [Reqs -> [at: {"idle"}] \cup Live] /\ age \in [Nonces -> Unsigned..Dead]
      /\ spent \subseteq Nonces /\ late \subseteq Command
  BY NonceTypes DEF NonceInv, RedisTypes
<1>2. /\ UNCHANGED <<epoch, config, epochs, up, checkpoint, late, spent, granted, faults>>
      /\ quar' = [quar EXCEPT !.left = Less(@)]
      /\ key' = [n \in Nonces |-> Less(key[n])]
      /\ gate' = [p \in Procs |-> [gate[p] EXCEPT !.left = Less(@)]]
      /\ recon' = [p \in Procs |-> IF InFlight(recon[p]) THEN [recon[p] EXCEPT !.age = @ + 1]
                                   ELSE NoRecon]
      /\ req' = [r \in Reqs |-> IF InFlight(req[r]) THEN [req[r] EXCEPT !.age = @ + 1] ELSE NoReq]
      /\ age' = [n \in Nonces |-> IF age[n] \in {Unsigned, Dead} THEN age[n] ELSE age[n] + 1]
      /\ \A r \in Reqs : InFlight(req[r]) => req[r].age < Timeout
      /\ \A p \in Procs : InFlight(recon[p]) => recon[p].age < Timeout
  BY DEF Tick
<1>3. \A x \in Nat : Less(x) \in Nat /\ (x > 0 => Less(x) = x - 1)
  BY DEF Less
<1>4. Timeout \in Nat /\ SigWindow \in Nat /\ Unsigned = -SigWindow - 1 /\ Dead = SigWindow + Timeout + 1
  BY GovernedConstants DEF Unsigned, Dead
<1>5. RedisTypes'
  <2>1. PICK x \in Nat : x = Less(quar.left)
    BY <1>1, <1>3 DEF RedisTypes
  <2>2. quar' = [quar EXCEPT !.left = x]
    BY <1>2, <2>1
  <2>3. quar' \in [epoch: Nat, left: Nat]
    BY <1>1, <2>2 DEF RedisTypes
  <2>4. key' \in [Nonces -> Nat]
    BY <1>1, <1>2, <1>3 DEF RedisTypes
  <2>. QED BY <1>1, <1>2, <2>3, <2>4 DEF RedisTypes
<1>6. \A p \in Procs : gate'[p] \in Gate /\ gate'[p].epoch = gate[p].epoch
  <2> SUFFICES ASSUME NEW p \in Procs PROVE gate'[p] \in Gate /\ gate'[p].epoch = gate[p].epoch
    OBVIOUS
  <2>1. PICK g \in Gate : g = gate[p]
    BY <1>1
  <2>2. Less(g.left) \in Nat \cup {Forever}
    <3>1. g.left \in Nat \cup {Forever} /\ Less(Forever) = Forever
      BY DEF Gate, Less, Forever
    <3>. QED BY <1>3, <3>1
  <2>3. PICK x \in Nat \cup {Forever} : x = Less(g.left)
    BY <2>2
  <2>4. gate'[p] = [g EXCEPT !.left = x]
    BY <1>2, <2>1, <2>3
  <2>. QED BY <2>1, <2>4 DEF Gate
<1>7. \A p \in Procs :
        /\ recon'[p] \in Recon
        /\ \/ recon'[p] = NoRecon
           \/ /\ recon'[p].at = recon[p].at /\ recon'[p].expect = recon[p].expect
              /\ recon'[p].answer = recon[p].answer
  <2> SUFFICES ASSUME NEW p \in Procs
               PROVE  /\ recon'[p] \in Recon
                      /\ \/ recon'[p] = NoRecon
                         \/ /\ recon'[p].at = recon[p].at /\ recon'[p].expect = recon[p].expect
                            /\ recon'[p].answer = recon[p].answer
    OBVIOUS
  <2>1. CASE ~InFlight(recon[p])
    BY <1>2, <2>1, IdleRecon
  <2>2. CASE InFlight(recon[p])
    <3>1. PICK c \in Recon : c = recon[p] /\ c.age < Timeout /\ c.age \in 0..Timeout
      BY <1>1, <1>2, <2>2 DEF Recon
    <3>2. PICK x \in 0..Timeout : x = c.age + 1
      BY <1>4, <3>1
    <3>3. recon'[p] = [c EXCEPT !.age = x]
      BY <1>2, <2>2, <3>1, <3>2
    <3>. QED BY <3>1, <3>3 DEF Recon
  <2>. QED BY <2>1, <2>2
<1>8. \A r \in Reqs :
        /\ req'[r] \in [at: {"idle"}] \cup Live
        /\ \/ req'[r] = NoReq
           \/ /\ InFlight(req[r]) /\ req[r] \in Live /\ req'[r].at = req[r].at
              /\ req'[r].expect = req[r].expect
              /\ req'[r].answer = req[r].answer /\ req'[r].nonce = req[r].nonce
              /\ req'[r].age = req[r].age + 1
  <2> SUFFICES ASSUME NEW r \in Reqs
               PROVE  /\ req'[r] \in [at: {"idle"}] \cup Live
                      /\ \/ req'[r] = NoReq
                         \/ /\ InFlight(req[r]) /\ req[r] \in Live /\ req'[r].at = req[r].at
                            /\ req'[r].expect = req[r].expect
                            /\ req'[r].answer = req[r].answer /\ req'[r].nonce = req[r].nonce
                            /\ req'[r].age = req[r].age + 1
    OBVIOUS
  <2>1. CASE ~InFlight(req[r])
    <3>1. NoReq \in [at: {"idle"}]
      BY DEF NoReq
    <3>. QED BY <1>2, <2>1, <3>1
  <2>2. CASE InFlight(req[r])
    <3>1. PICK q \in Live : q = req[r] /\ q.age < Timeout /\ q.age \in 0..Timeout
      BY <1>1, <1>2, <2>2 DEF Live, InFlight
    <3>2. PICK x \in 0..Timeout : x = q.age + 1
      BY <1>4, <3>1
    <3>3. req'[r] = [q EXCEPT !.age = x]
      BY <1>2, <2>2, <3>1, <3>2
    <3>4. /\ req'[r] \in Live /\ req'[r].at = q.at /\ req'[r].expect = q.expect
          /\ req'[r].answer = q.answer /\ req'[r].nonce = q.nonce /\ req'[r].age = x
      BY <3>1, <3>3 DEF Live
    <3>. QED BY <2>2, <3>1, <3>2, <3>4
  <2>. QED BY <2>1, <2>2
<1>9. \A n \in Nonces : /\ age[n] \in Int /\ age'[n] \in Unsigned..Dead
                        /\ age[n] # Unsigned => age'[n] # Unsigned
                        /\ \/ age'[n] = age[n] /\ age[n] = Unsigned
                           \/ age'[n] = age[n] /\ age[n] = Dead
                           \/ age'[n] = age[n] + 1
  <2> SUFFICES ASSUME NEW n \in Nonces
               PROVE  /\ age[n] \in Int /\ age'[n] \in Unsigned..Dead
                      /\ age[n] # Unsigned => age'[n] # Unsigned
                      /\ \/ age'[n] = age[n] /\ age[n] = Unsigned
                         \/ age'[n] = age[n] /\ age[n] = Dead
                         \/ age'[n] = age[n] + 1
    OBVIOUS
  <2>1. age[n] \in Unsigned..Dead /\ age[n] \in Int
    BY <1>1, <1>4
  <2>2. age'[n] = IF age[n] \in {Unsigned, Dead} THEN age[n] ELSE age[n] + 1
    BY <1>2
  <2>. QED BY <1>4, <2>1, <2>2
<1>10. NonceTypeOK'
  <2>1. /\ gate' \in [Procs -> Gate] /\ recon' \in [Procs -> Recon]
        /\ req' \in [Reqs -> [at: {"idle"}] \cup Live] /\ age' \in [Nonces -> Unsigned..Dead]
    BY <1>2, <1>6, <1>7, <1>8, <1>9
  <2>. QED BY <1>2, <1>5, <2>1
       DEF NonceInv, NonceTypeOK, RedisTypes, States, Gate, Recon, Live, Request
<1>11. Counted' /\ Trusting'
  <2>1. NoRecon.at # "answered" /\ NoRecon.expect <= checkpoint
    BY <1>1, IdleRecon
  <2>. QED BY <1>2, <1>6, <1>7, <2>1 DEF NonceInv, Counted, Trusting
<1>12. Asking'
  <2> SUFFICES ASSUME NEW r \in Reqs, InFlight(req'[r])
               PROVE  /\ req'[r].expect <= checkpoint
                      /\ age'[req'[r].nonce] # Unsigned
                      /\ age'[req'[r].nonce] <= SigWindow + req'[r].age
                      /\ req'[r].at = "answered" => req'[r].answer.epoch \in 1..epochs
    BY <1>2 DEF Asking, InFlight
  <2>1. /\ InFlight(req[r]) /\ req[r] \in Live /\ req'[r].at = req[r].at
        /\ req'[r].expect = req[r].expect /\ req'[r].answer = req[r].answer
        /\ req'[r].nonce = req[r].nonce /\ req'[r].age = req[r].age + 1
    BY <1>8 DEF InFlight, NoReq
  <2>2. PICK n \in Nonces : n = req[r].nonce
    BY <2>1 DEF Live
  <2>3. PICK x \in Nat : x = req[r].age
    BY <1>4, <2>1 DEF Live
  <2>4. /\ req[r].expect <= checkpoint /\ age[n] # Unsigned /\ age[n] <= SigWindow + x
        /\ req[r].at = "answered" => req[r].answer.epoch \in 1..epochs
    BY <2>1, <2>2, <2>3 DEF NonceInv, Asking
  <2>5. age'[n] # Unsigned /\ age'[n] <= SigWindow + (x + 1)
    BY <1>4, <1>9, <2>4
  <2>. QED BY <2>1, <2>2, <2>3, <2>4, <2>5
<1>13. AskedLate'
  <2>1. \A c \in late : c.kind = "consume" => c.nonce \in Nonces
    BY <1>1 DEF Command
  <2>. QED BY <1>2, <1>9, <2>1 DEF NonceInv, AskedLate
<1>14. Foreign => Foreign'
  <2>1. NoRecon.at = "idle" /\ NoReq.at = "idle"
    BY IdleRecon DEF NoReq
  <2>. QED BY <1>2, <1>7, <1>8, <2>1 DEF Foreign
<1>15. SpentSafe'
  <2>1. ASSUME NEW n \in spent PROVE age'[n] # Unsigned /\ Safe(n)'
    <3>1. n \in Nonces /\ age[n] # Unsigned /\ Safe(n)
      BY <1>1 DEF NonceInv, SpentSafe
    <3>2. /\ age'[n] # Unsigned /\ age[n] \in Int
          /\ (age'[n] = age[n] /\ age[n] = Dead) \/ age'[n] = age[n] + 1
      BY <1>9, <3>1
    <3>3. /\ Life(n) \in Int /\ Life(n)' \in Int
          /\ Life(n)' < 0 \/ (Life(n)' = Life(n) - 1 /\ Life(n) > 0)
      BY <1>4, <3>2 DEF Life
    <3>4. /\ key[n] \in Nat /\ quar.left \in Nat
          /\ key'[n] = Less(key[n]) /\ quar'.left = Less(quar.left)
      BY <1>1, <1>2, <3>1 DEF RedisTypes
    <3>5. Life(n)' < 0 \/ (key[n] > Life(n) => key'[n] > Life(n)')
      BY <1>3, <3>3, <3>4
    <3>6. Life(n)' < 0 \/ (quar.left > Life(n) => quar'.left > Life(n)')
      BY <1>3, <3>3, <3>4
    <3>7. Life(n) < 0 => Life(n)' < 0
      BY <3>3
    <3>. QED BY <1>2, <1>14, <3>1, <3>2, <3>5, <3>6, <3>7 DEF Safe
  <2>. QED BY <1>2, <2>1 DEF NonceInv, SpentSafe
<1>. QED BY <1>10, <1>11, <1>12, <1>13, <1>15 DEF NonceInv

LEMMA NonceStarts == NonceInit => NonceInv
<1> SUFFICES ASSUME NonceInit PROVE NonceInv
  OBVIOUS
<1>1. RedisTypes /\ checkpoint \in Nat /\ faults \in Nat
  <2>1. quar \in [epoch: Nat, left: Nat] /\ key \in [Nonces -> Nat]
    BY DEF NonceInit, None
  <2>. QED BY <2>1 DEF NonceInit, RedisTypes, None
<1>2. /\ up \in [Procs -> States] /\ \A p \in Procs : up[p] = "down"
  BY DEF NonceInit, States
<1>3. Closed \in Gate /\ Closed.epoch = 0
  BY DEF Closed, Gate, None
<1>4. gate \in [Procs -> Gate] /\ \A p \in Procs : gate[p].epoch = 0
  BY <1>3 DEF NonceInit
<1>5. recon \in [Procs -> Recon] /\ \A p \in Procs : recon[p].at = "idle" /\ recon[p].expect = 0
  BY IdleRecon DEF NonceInit
<1>6. NoReq \in [at: {"idle"}] /\ NoReq.at = "idle"
  BY DEF NoReq
<1>7. req \in [Reqs -> [at: {"idle"}] \cup Live] /\ \A r \in Reqs : req[r].at = "idle"
  BY <1>6 DEF NonceInit
<1>8. age \in [Nonces -> Unsigned..Dead] /\ granted \in [Nonces -> Nat]
  BY GovernedConstants DEF NonceInit, Unsigned, Dead
<1>9. NonceTypeOK
  BY <1>1, <1>2, <1>4, <1>5, <1>7, <1>8 DEF NonceInit, NonceTypeOK, RedisTypes, States, Gate,
     Recon, Live, Request
<1>10. Counted /\ Trusting
  BY <1>2, <1>4, <1>5 DEF NonceInit, Counted, Trusting, None
<1>11. Asking /\ AskedLate /\ SpentSafe
  BY <1>7 DEF NonceInit, Asking, AskedLate, SpentSafe, InFlight
<1>. QED BY <1>9, <1>10, <1>11 DEF NonceInv

LEMMA NonceKept == NonceInv /\ [NonceNext]_nonceVars => NonceInv'
<1> SUFFICES ASSUME NonceInv, [NonceNext]_nonceVars PROVE NonceInv'
  OBVIOUS
<1>1. CASE UNCHANGED nonceVars
  <2>1. UNCHANGED <<epoch, quar, config, key, epochs, up, gate, recon, checkpoint, req, late, age,
                    spent, granted, faults>>
    BY <1>1 DEF nonceVars, redisVars, procVars
  <2>2. NonceTypeOK' /\ Counted' /\ Trusting'
    BY <2>1 DEF NonceInv, NonceTypeOK, Counted, Trusting
  <2>3. Asking' /\ AskedLate'
    BY <2>1 DEF NonceInv, Asking, AskedLate, InFlight
  <2>4. Foreign => Foreign'
    BY <2>1 DEF Foreign
  <2>5. SpentSafe'
    BY <2>1, <2>4 DEF NonceInv, SpentSafe, Safe, Life
  <2>. QED BY <2>2, <2>3, <2>5 DEF NonceInv
<1>2. CASE \E p \in Procs : \/ Boot(p) \/ StartReconcile(p) \/ RunReconcile(p)
                            \/ ApplyReconcile(p) \/ ReconcileFails(p) \/ Stop(p) \/ Crash(p)
  BY <1>2, ProcessSteps, RunReconcileStep, FailSteps
<1>3. CASE \E n \in Nonces : \/ \E a \in -SigWindow..0 : Sign(n, a)
                             \/ \E r \in Reqs, p \in Procs : SendConsume(r, p, n)
  BY <1>3, SignStep, SendConsumeStep
<1>4. CASE \E r \in Reqs : RunConsume(r) \/ ApplyConsume(r) \/ ConsumeFails(r)
  BY <1>4, RunConsumeStep, RequestEnds
<1>5. CASE (\E c \in late : RunLate(c)) \/ LoseData \/ Failover \/ Tick
  BY <1>5, RunLateStep, LossSteps, TickStep
<1>. QED BY <1>1, <1>2, <1>3, <1>4, <1>5 DEF NonceNext

\* Of all requests that carry a nonce at most one is accepted, whatever commands run late,
\* however often Redis loses its data or is replaced, and a spent nonce stays guarded by its
\* key, a quarantine or an epoch nobody trusts (CONSUME_SCRIPT, RECONCILE_SCRIPT): for any
\* number of processes, requests, nonces and faults, any allowance of each process, and any
\* command timeout below the safety buffer.
THEOREM NonceGrantedOnce == NonceSpec => []GrantedOnce
<1>1. NonceInv => GrantedOnce
  BY DEF NonceInv, SpentSafe, Safe, GrantedOnce
<1>. QED BY <1>1, NonceStarts, NonceKept, PTL DEF NonceSpec

==============================================================================
