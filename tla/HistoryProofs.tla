---------------------------- MODULE HistoryProofs ----------------------------
(***************************************************************************)
(* Proofs about what is kept of the past.                                  *)
(*                                                                         *)
(* Replication: the replica is a state the numbered mutations lead         *)
(* through, and a mutation is lost only by an overflow or a crash, for any *)
(* number of writers, keys, mutations and faults and any length of the     *)
(* queue.  At keys whose calls do not overlap the replica at rest is the   *)
(* primary.                                                                *)
(*                                                                         *)
(* Admission: for any number of processes, limits and windows the limiter  *)
(* exceeds its limit by less than the number of processes, and racing      *)
(* writers neither fork the audit chain nor hide a truncation.             *)
(***************************************************************************)
EXTENDS Replication, Admission, FiniteSetTheorems, TLAPS

\* What the drainer pushes is the head of the queue until the queue sheds it.
Draining == dpc = "await" => queue # <<>> /\ (shed = {} => cur = queue[1])

ReplInv == TypeOK /\ ReplicaIsHistory /\ Draining /\ LostOnlyByOverflow

-----------------------------------------------------------------------------
(* The replica.                                                            *)

LEMMA DispositionFacts ==
  ASSUME TypeOK, NEW n \in 1..Len(ops), NEW d \in Dispositions(n)
  PROVE  /\ d \in Answers
         /\ d \in {"applied", "apply_failed"} => n = last + 1
         /\ d = "duplicate" => n = last
<1>1. n \in Nat /\ last \in Nat
  BY DEF TypeOK
<1>2. CASE n = last
  BY <1>1, <1>2 DEF Dispositions, Answers
<1>3. CASE n < last
  BY <1>1, <1>3 DEF Dispositions, Answers
<1>4. CASE n > last + 1
  BY <1>1, <1>4 DEF Dispositions, Answers
<1>5. CASE n = last + 1
  BY <1>1, <1>5 DEF Dispositions, Answers
<1> QED
  BY <1>1, <1>2, <1>3, <1>4, <1>5

\* Writing operation n, the next or the one already half-written, leaves the
\* result of the operations 1 to n.
LEMMA PutReflects ==
  ASSUME TypeOK, NEW n \in 1..Len(ops), n = last + 1, replica' = Put(n), UNCHANGED ops,
         NEW k \in Keys, Reflects(k, last) \/ Reflects(k, last + 1)
  PROVE  Reflects(k, n)'
<1>1. /\ n \in Nat /\ last \in Nat /\ last = n - 1 /\ ops[n] \in Op
      /\ replica \in [Keys -> Contents]
  BY DEF TypeOK
<1>2. CASE ops[n].key = k
  <2>1. replica'[k] = ops[n].val
    BY <1>1, <1>2 DEF Put
  <2>2. n \in 1..n /\ (n + 1)..n = {}
    BY <1>1
  <2> QED
    BY <1>2, <2>1, <2>2 DEF Reflects
<1>3. CASE ops[n].key # k
  <2>1. replica'[k] = replica[k]
    BY <1>1, <1>3 DEF Put, Op
  <2>2. CASE Reflects(k, last)
    <3>1. CASE replica[k] = Absent /\ \A j \in 1..last : ops[j].key # k
      <4>1. \A j \in 1..n : ops[j].key # k
        BY <1>1, <1>3, <3>1
      <4> QED
        BY <2>1, <3>1, <4>1 DEF Reflects
    <3>2. CASE \E m \in 1..last : /\ ops[m].key = k /\ replica[k] = ops[m].val
                                  /\ \A j \in (m + 1)..last : ops[j].key # k
      <4>1. PICK m \in 1..last : /\ ops[m].key = k /\ replica[k] = ops[m].val
                                 /\ \A j \in (m + 1)..last : ops[j].key # k
        BY <3>2
      <4>2. m \in 1..n /\ \A j \in (m + 1)..n : ops[j].key # k
        BY <1>1, <1>3, <4>1
      <4> QED
        BY <2>1, <4>1, <4>2 DEF Reflects
    <3> QED
      BY <2>2, <3>1, <3>2 DEF Reflects
  <2>3. CASE Reflects(k, last + 1)
    BY <2>1, <2>3 DEF Reflects
  <2> QED
    BY <2>2, <2>3
<1> QED
  BY <1>2, <1>3

\* One ingest keeps the replica on the history and never goes back.
LEMMA IngestStep ==
  ASSUME TypeOK, ReplicaIsHistory, NEW n \in 1..Len(ops), NEW d, Ingest(n, d),
         UNCHANGED <<ops, own>>
  PROVE  /\ last' \in 0..Len(ops) /\ last' >= last
         /\ d \in Accepted => last' = n
         /\ replica' \in [Keys -> Contents]
         /\ ReplicaIsHistory'
<1>1. /\ d \in Dispositions(n) /\ d \in Answers
      /\ d \in {"applied", "apply_failed"} => n = last + 1
      /\ d = "duplicate" => n = last
      /\ last' = IF d = "applied" THEN n ELSE last
  BY DispositionFacts DEF Ingest
<1>2. /\ last \in Nat /\ Len(ops) \in Nat /\ last \in 0..Len(ops) /\ n \in Nat
      /\ replica \in [Keys -> Contents] /\ ops[n] \in Op
  BY DEF TypeOK
<1>3. last' \in 0..Len(ops) /\ last' >= last /\ (d \in Accepted => last' = n)
  BY <1>1, <1>2 DEF Accepted
<1>4. replica' = replica \/ (n = last + 1 /\ replica' = Put(n))
  BY <1>1 DEF Ingest
<1>5. replica' \in [Keys -> Contents]
  BY <1>2, <1>4 DEF Put, Op
<1>6. ReplicaIsHistory'
  <2>1. CASE replica' = replica /\ d # "applied"
    BY <1>1, <2>1 DEF ReplicaIsHistory, Reflects
  <2>2. CASE n = last + 1 /\ replica' = Put(n)
    <3>1. \A k \in Keys \ own : Reflects(k, n)'
      BY <2>2, PutReflects DEF ReplicaIsHistory
    <3>2. CASE last' = n
      BY <3>1, <3>2 DEF ReplicaIsHistory, Reflects
    <3>3. CASE last' = last
      <4>1. last' < Len(ops') /\ last' + 1 = n
        BY <1>2, <2>2, <3>3
      <4>2. \A k \in Keys \ own : Reflects(k, last + 1)'
        BY <3>1, <4>1 DEF Reflects
      <4> QED
        BY <4>1, <4>2 DEF ReplicaIsHistory
    <3> QED
      BY <1>1, <3>2, <3>3
  <2>3. d = "applied" => replica' = Put(n)
    BY DEF Ingest
  <2> QED
    BY <1>1, <1>4, <2>1, <2>2, <2>3
<1> QED
  BY <1>3, <1>5, <1>6

-----------------------------------------------------------------------------
(* The primary.                                                            *)

LEMMA InitInv == Init => ReplInv
<1> SUFFICES ASSUME Init PROVE ReplInv
  OBVIOUS
<1>1. TypeOK
  <2>1. /\ primary \in [Keys -> Contents] /\ replica \in [Keys -> Contents]
        /\ ops \in Seq(Op) /\ queue \in Seq(Nat) /\ Len(queue) = 0 /\ Len(ops) = 0
        /\ DOMAIN queue = {}
    BY DEF Init, Contents
  <2>2. /\ wpc \in [Writers -> {"idle", "written", "drawn"}] /\ num \in [Writers -> 0..0]
        /\ arg \in [Writers -> Op \cup {Absent}]
        /\ \A w \in Writers : wpc[w] = "idle"
    BY DEF Init
  <2>3. /\ cur \in 0..0 /\ last \in 0..0 /\ faults \in Nat
        /\ dpc = "off" /\ shed = {} /\ late = {} /\ own = {} /\ overlapped = {}
    BY DEF Init
  <2>5. missed \in BOOLEAN /\ promoted \in BOOLEAN
    BY Zenon DEF Init
  <2>4. Len(queue) <= MaxQueue
    BY <2>1, ReplicationAssumption
  <2> QED
    BY <2>1, <2>2, <2>3, <2>4, <2>5 DEF TypeOK
<1>2. ReplicaIsHistory
  BY DEF Init, ReplicaIsHistory, Reflects
<1>3. Draining /\ LostOnlyByOverflow
  BY DEF Init, Draining, LostOnlyByOverflow
<1> QED
  BY <1>1, <1>2, <1>3 DEF ReplInv

LEMMA WriteInv ==
  ASSUME ReplInv, NEW w \in Writers, NEW op \in Op, Write(w, op)
  PROVE  ReplInv'
<1>1. /\ UNCHANGED <<num, ops, queue, dpc, cur, shed, replica, last, missed, late, promoted, own,
                     faults>>
      /\ wpc[w] = "idle" /\ wpc' = [wpc EXCEPT ![w] = "written"]
      /\ arg' = [arg EXCEPT ![w] = op] /\ primary' = [primary EXCEPT ![op.key] = op.val]
  BY DEF Write, drainVars, ingestVars
<1>2. /\ primary \in [Keys -> Contents] /\ arg \in [Writers -> Op \cup {Absent}]
      /\ wpc \in [Writers -> {"idle", "written", "drawn"}]
      /\ \A v \in Writers : wpc[v] = "written" => arg[v] \in Op
      /\ op.key \in Keys /\ op.val \in Contents
  BY DEF ReplInv, TypeOK, Op
<1>3. /\ primary' \in [Keys -> Contents]
      /\ wpc' \in [Writers -> {"idle", "written", "drawn"}]
      /\ arg' \in [Writers -> Op \cup {Absent}]
      /\ \A v \in Writers : wpc'[v] = "written" => arg'[v] \in Op
      /\ \A v \in Writers : wpc'[v] = "drawn" <=> wpc[v] = "drawn"
  BY <1>1, <1>2
<1>4. overlapped' \subseteq Keys
  <2>1. overlapped' \subseteq overlapped \cup {op.key}
    BY DEF Write
  <2> QED
    BY <1>2, <2>1 DEF ReplInv, TypeOK
<1>5. TypeOK'
  BY <1>1, <1>3, <1>4 DEF ReplInv, TypeOK
<1>6. ReplicaIsHistory' /\ Draining'
  BY <1>1 DEF ReplInv, ReplicaIsHistory, Reflects, Draining
<1>7. LostOnlyByOverflow'
  BY <1>1, <1>3 DEF ReplInv, LostOnlyByOverflow, Queued, InHand
<1> QED
  BY <1>5, <1>6, <1>7 DEF ReplInv

\* A further operation does not take the replica off the history.
LEMMA LongerHistory ==
  ASSUME ReplInv, NEW x \in Op, ops' = Append(ops, x), UNCHANGED <<replica, last, own>>
  PROVE  ReplicaIsHistory'
<1>1. UNCHANGED <<replica, last, own>>
  OBVIOUS
<1>2. ops \in Seq(Op) /\ Len(ops) \in Nat /\ last \in 0..Len(ops)
  BY DEF ReplInv, TypeOK
<1>3. /\ Len(ops') = Len(ops) + 1
      /\ \A i \in 1..Len(ops) : ops'[i] = ops[i]
  BY <1>2
<1>4. ASSUME NEW k \in Keys, NEW n \in 0..Len(ops), Reflects(k, n)
      PROVE  Reflects(k, n)'
  <2>1. \A j \in 1..n : j \in 1..Len(ops)
    BY <1>2
  <2>2. \A m \in 1..n : \A j \in (m + 1)..n : j \in 1..Len(ops)
    BY <1>2
  <2> QED
    BY <1>1, <1>3, <1>4, <2>1, <2>2 DEF Reflects
<1>5. PICK l \in 0..Len(ops) : l = last
  BY <1>2
<1>6. l < Len(ops) => l + 1 \in 0..Len(ops) /\ l < Len(ops')
  BY <1>1, <1>2, <1>3, <1>5
<1>7. ASSUME NEW k \in Keys \ own
      PROVE  Reflects(k, l)' \/ (l < Len(ops') /\ Reflects(k, l + 1)')
  <2>1. Reflects(k, l) \/ (l < Len(ops) /\ Reflects(k, l + 1))
    BY <1>5 DEF ReplInv, ReplicaIsHistory
  <2>2. CASE Reflects(k, l)
    BY <1>4, <2>2
  <2>3. CASE l < Len(ops) /\ Reflects(k, l + 1)
    BY <1>1, <1>4, <1>5, <1>6, <2>3
  <2> QED
    BY <2>1, <2>2, <2>3
<1>8. last' = l
  BY <1>1, <1>5
<1>9. ASSUME NEW k \in Keys, k \notin own'
      PROVE  Reflects(k, last)' \/ (last' < Len(ops') /\ Reflects(k, last + 1)')
  <2>1. Reflects(k, l)' \/ (l < Len(ops') /\ Reflects(k, l + 1)')
    BY <1>1, <1>7, <1>9
  <2>2. CASE Reflects(k, l)'
    BY <1>8, <2>2 DEF Reflects
  <2>3. CASE l < Len(ops') /\ Reflects(k, l + 1)'
    BY <1>8, <2>3 DEF Reflects
  <2> QED
    BY <2>1, <2>2, <2>3
<1> QED
  BY <1>9, Zenon DEF ReplicaIsHistory

\* The sequence source fails with or without a number used up.
LEMMA FailedDrawInv ==
  ASSUME ReplInv, NEW w \in Writers, SequenceFails(w)
  PROVE  ReplInv'
<1>1. /\ UNCHANGED <<primary, num, overlapped, queue, dpc, cur, shed, replica, last, late,
                     promoted, own>>
      /\ wpc[w] = "written" /\ wpc' = [wpc EXCEPT ![w] = "idle"]
      /\ arg' = [arg EXCEPT ![w] = Absent]
      /\ ops' \in {ops, Append(ops, arg[w])}
      /\ missed' = TRUE /\ faults' = faults + 1
  BY DEF SequenceFails, Fault, drainVars, ingestVars
<1>2. /\ ops \in Seq(Op) /\ arg[w] \in Op /\ Len(ops) \in Nat
      /\ wpc \in [Writers -> {"idle", "written", "drawn"}]
      /\ arg \in [Writers -> Op \cup {Absent}]
  BY <1>1 DEF ReplInv, TypeOK
<1>3. /\ ops' \in Seq(Op)
      /\ 1..Len(ops) \subseteq 1..Len(ops') /\ 0..Len(ops) \subseteq 0..Len(ops')
  BY <1>1, <1>2
<1>4. TypeOK'
  <2>1. /\ wpc' \in [Writers -> {"idle", "written", "drawn"}]
        /\ arg' \in [Writers -> Op \cup {Absent}]
        /\ \A v \in Writers : wpc'[v] = "written" => arg'[v] \in Op
        /\ \A v \in Writers : wpc'[v] = "drawn" => num'[v] # 0
    BY <1>1, <1>2 DEF ReplInv, TypeOK
  <2>2. /\ num' \in [Writers -> 0..Len(ops')]
        /\ \A i \in DOMAIN queue : queue[i] \in 1..Len(ops')
        /\ shed \subseteq 1..Len(ops') /\ late \subseteq 1..Len(ops')
        /\ last \in 0..Len(ops') /\ cur \in 0..Len(ops')
    BY <1>1, <1>3 DEF ReplInv, TypeOK
  <2>3. missed' \in BOOLEAN /\ faults' \in Nat
    BY <1>1 DEF ReplInv, TypeOK
  <2> QED
    BY <1>1, <1>3, <2>1, <2>2, <2>3 DEF ReplInv, TypeOK
<1>5. ReplicaIsHistory'
  <2>1. CASE ops' = ops
    BY <1>1, <2>1 DEF ReplInv, ReplicaIsHistory, Reflects
  <2> QED
    BY <1>1, <1>2, <2>1, LongerHistory
<1>6. Draining' /\ LostOnlyByOverflow'
  BY <1>1 DEF ReplInv, Draining, LostOnlyByOverflow
<1> QED
  BY <1>4, <1>5, <1>6 DEF ReplInv

LEMMA DrawInv ==
  ASSUME ReplInv, NEW w \in Writers, DrawSequence(w)
  PROVE  ReplInv'
<1>1. /\ UNCHANGED <<primary, overlapped, queue, dpc, cur, shed, replica, last, missed, late,
                     promoted, own, faults>>
      /\ wpc[w] = "written" /\ wpc' = [wpc EXCEPT ![w] = "drawn"]
      /\ ops' = Append(ops, arg[w]) /\ num' = [num EXCEPT ![w] = Len(ops) + 1]
      /\ arg' = [arg EXCEPT ![w] = Absent]
  BY DEF DrawSequence, drainVars, ingestVars
<1>2. /\ ops \in Seq(Op) /\ arg[w] \in Op /\ Len(ops) \in Nat /\ last \in 0..Len(ops)
      /\ num \in [Writers -> 0..Len(ops)] /\ wpc \in [Writers -> {"idle", "written", "drawn"}]
  BY <1>1 DEF ReplInv, TypeOK
<1>3. /\ ops' \in Seq(Op) /\ Len(ops') = Len(ops) + 1
      /\ \A i \in 1..Len(ops) : ops'[i] = ops[i]
      /\ 1..Len(ops) \subseteq 1..Len(ops') /\ 0..Len(ops) \subseteq 0..Len(ops')
  BY <1>1, <1>2
<1>4. TypeOK'
  <2>1. /\ num' \in [Writers -> 0..Len(ops')]
        /\ wpc' \in [Writers -> {"idle", "written", "drawn"}]
        /\ \A v \in Writers : wpc'[v] = "drawn" => num'[v] # 0
    BY <1>1, <1>2, <1>3 DEF ReplInv, TypeOK
  <2>2. /\ arg' \in [Writers -> Op \cup {Absent}]
        /\ \A v \in Writers : wpc'[v] = "written" => arg'[v] \in Op
    BY <1>1, <1>2 DEF ReplInv, TypeOK
  <2>3. /\ \A i \in DOMAIN queue : queue[i] \in 1..Len(ops')
        /\ shed \subseteq 1..Len(ops') /\ late \subseteq 1..Len(ops')
        /\ last \in 0..Len(ops') /\ cur \in 0..Len(ops')
    BY <1>3 DEF ReplInv, TypeOK
  <2> QED
    BY <1>1, <1>3, <2>1, <2>2, <2>3 DEF ReplInv, TypeOK
<1>5. ReplicaIsHistory'
  BY <1>1, <1>2, LongerHistory
<1>6. Draining'
  BY <1>1 DEF ReplInv, Draining
<1>7. LostOnlyByOverflow'
  <2> SUFFICES ASSUME ~missed, shed = {}, NEW n \in 1..Len(ops')
               PROVE  (n <= last \/ Queued(n) \/ InHand(n))'
    BY <1>1 DEF LostOnlyByOverflow
  <2>1. CASE n = Len(ops) + 1
    BY <1>1, <1>2, <2>1 DEF InHand
  <2>2. CASE n \in 1..Len(ops)
    <3>1. n <= last \/ Queued(n) \/ InHand(n)
      BY <2>2 DEF ReplInv, LostOnlyByOverflow
    <3> QED
      BY <1>1, <1>2, <3>1 DEF Queued, InHand
  <2> QED
    BY <1>2, <1>3, <2>1, <2>2
<1> QED
  BY <1>4, <1>5, <1>6, <1>7 DEF ReplInv

\* The head of the drain loop, with the queue it finds.
LEMMA LoopStep ==
  ASSUME NEW q \in Seq(Nat), NEW N \in Nat, \A i \in DOMAIN q : q[i] \in 1..N,
         cur \in 0..N, Loop(q)
  PROVE  /\ dpc' \in {"off", "await"} /\ cur' \in 0..N
         /\ dpc' = "await" => q # <<>> /\ cur' = q[1] /\ cur' # 0
<1>1. CASE q = <<>>
  BY <1>1 DEF Loop
<1>2. CASE q # <<>>
  <2>1. 1 \in DOMAIN q /\ Head(q) = q[1]
    BY <1>2
  <2> QED
    BY <1>2, <2>1 DEF Loop
<1> QED
  BY <1>1, <1>2

LEMMA AppendFacts ==
  ASSUME NEW q \in Seq(Nat), NEW x \in Nat
  PROVE  /\ Append(q, x) \in Seq(Nat) /\ Append(q, x) # <<>>
         /\ Len(q) \in Nat /\ Len(Append(q, x)) = Len(q) + 1
         /\ DOMAIN Append(q, x) = 1..(Len(q) + 1)
         /\ \A i \in 1..Len(q) : Append(q, x)[i] = q[i]
         /\ Append(q, x)[Len(q) + 1] = x
OBVIOUS

LEMMA EnqueueInv ==
  ASSUME ReplInv, NEW w \in Writers, Enqueue(w)
  PROVE  ReplInv'
<1>1. /\ UNCHANGED <<primary, arg, overlapped, ops, replica, last, missed, late, promoted, own, faults>>
      /\ wpc[w] = "drawn" /\ wpc' = [wpc EXCEPT ![w] = "idle"] /\ num' = [num EXCEPT ![w] = 0]
  BY DEF Enqueue, ingestVars
<1>2. /\ queue \in Seq(Nat) /\ Len(queue) \in Nat /\ Len(ops) \in Nat /\ Len(queue) <= MaxQueue
      /\ DOMAIN queue = 1..Len(queue)
      /\ \A i \in 1..Len(queue) : queue[i] \in 1..Len(ops)
      /\ num \in [Writers -> 0..Len(ops)] /\ wpc \in [Writers -> {"idle", "written", "drawn"}]
      /\ num[w] \in 1..Len(ops) /\ cur \in 0..Len(ops)
      /\ shed \subseteq 1..Len(ops) /\ MaxQueue \in Nat /\ MaxQueue > 0
  BY <1>1, ReplicationAssumption DEF ReplInv, TypeOK
<1>3. /\ queue' \in Seq(Nat) /\ queue' # <<>> /\ Len(queue') <= MaxQueue
      /\ \A i \in DOMAIN queue' : queue'[i] \in 1..Len(ops)
      /\ shed' \subseteq 1..Len(ops) /\ shed \subseteq shed'
  <2>1. CASE Len(queue) < MaxQueue /\ queue' = Append(queue, num[w]) /\ UNCHANGED shed
    <3>1. num[w] \in Nat
      BY <1>2
    <3> QED
      BY <1>2, <2>1, <3>1, AppendFacts
  <2>2. CASE /\ Len(queue) >= MaxQueue /\ queue' = Append(Tail(queue), num[w])
             /\ shed' = shed \cup {Head(queue)}
    <3>1. queue # <<>> /\ Head(queue) = queue[1] /\ 1 \in 1..Len(queue)
      BY <1>2, <2>2
    <3>2. /\ Tail(queue) \in Seq(Nat) /\ Len(Tail(queue)) = Len(queue) - 1
          /\ \A i \in 1..(Len(queue) - 1) : Tail(queue)[i] = queue[i + 1]
      BY <1>2, <3>1
    <3>3. \A i \in 1..(Len(queue) - 1) : Tail(queue)[i] \in 1..Len(ops)
      BY <1>2, <3>2
    <3> DEFINE t == Tail(queue)
    <3> HIDE DEF t
    <3>4. /\ t \in Seq(Nat) /\ Len(t) = Len(queue) - 1 /\ queue' = Append(t, num[w])
          /\ \A i \in 1..Len(t) : t[i] \in 1..Len(ops)
      BY <2>2, <3>2, <3>3 DEF t
    <3>5. num[w] \in Nat
      BY <1>2
    <3>6. /\ queue' \in Seq(Nat) /\ queue' # <<>> /\ Len(t) \in Nat
          /\ Len(queue') = Len(t) + 1 /\ DOMAIN queue' = 1..(Len(t) + 1)
          /\ \A i \in 1..Len(t) : queue'[i] = t[i]
          /\ queue'[Len(t) + 1] = num[w]
      BY <3>4, <3>5, AppendFacts
    <3>7. Len(queue') <= MaxQueue
      <4>1. /\ Len(queue) \in Nat /\ MaxQueue \in Nat /\ Len(queue) <= MaxQueue
            /\ Len(t) = Len(queue) - 1
        BY <1>2, <3>4
      <4>2. Len(queue') = Len(t) + 1
        BY <3>6
      <4> QED
        BY <4>1, <4>2
    <3>8. \A i \in DOMAIN queue' : queue'[i] \in 1..Len(ops)
      <4> SUFFICES ASSUME NEW i \in 1..(Len(t) + 1) PROVE queue'[i] \in 1..Len(ops)
        BY <3>6
      <4>1. CASE i = Len(t) + 1
        BY <1>2, <3>6, <4>1
      <4>2. CASE i \in 1..Len(t)
        <5>1. queue'[i] = t[i] /\ t[i] \in 1..Len(ops)
          BY <3>4, <3>6, <4>2
        <5> QED
          BY <5>1
      <4>3. Len(t) \in Nat
        BY <3>6
      <4> QED
        BY <4>1, <4>2, <4>3
    <3>9. shed' \subseteq 1..Len(ops) /\ shed \subseteq shed'
      BY <1>2, <2>2, <3>1
    <3> QED
      BY <3>6, <3>7, <3>8, <3>9
  <2> QED
    BY <2>1, <2>2 DEF Enqueue
<1>4. shed' = {} => shed = {} /\ queue' = Append(queue, num[w])
  BY <1>3 DEF Enqueue
<1>5. /\ dpc' \in {"off", "await", "sleep"} /\ cur' \in 0..Len(ops)
      /\ dpc' = "await" => cur' # 0 /\ (shed' = {} => cur' = queue'[1])
  <2>1. CASE dpc = "off"
    <3>1. Loop(queue')
      BY <2>1 DEF Enqueue
    <3> QED
      BY <1>2, <1>3, <3>1, LoopStep
  <2>2. CASE dpc # "off"
    <3>1. UNCHANGED <<dpc, cur>>
      BY <2>2 DEF Enqueue
    <3>2. dpc = "await" => queue # <<>> /\ cur # 0 /\ (shed = {} => cur = queue[1])
      BY DEF ReplInv, Draining, TypeOK
    <3>3. queue # <<>> /\ shed' = {} => queue'[1] = queue[1]
      BY <1>2, <1>4
    <3> QED
      BY <1>2, <1>4, <3>1, <3>2, <3>3 DEF ReplInv, TypeOK
  <2> QED
    BY <2>1, <2>2
<1>6. TypeOK'
  <2>1. /\ wpc' \in [Writers -> {"idle", "written", "drawn"}] /\ num' \in [Writers -> 0..Len(ops)]
        /\ \A v \in Writers : wpc'[v] # "idle" => wpc'[v] = wpc[v] /\ num'[v] = num[v]
    BY <1>1, <1>2
  <2> QED
    BY <1>1, <1>3, <1>5, <2>1 DEF ReplInv, TypeOK
<1>7. ReplicaIsHistory'
  BY <1>1 DEF ReplInv, ReplicaIsHistory, Reflects
<1>8. Draining'
  BY <1>3, <1>5 DEF Draining
<1>9. LostOnlyByOverflow'
  <2> SUFFICES ASSUME ~missed, shed' = {}, NEW n \in 1..Len(ops)
               PROVE  (n <= last \/ Queued(n) \/ InHand(n))'
    BY <1>1 DEF LostOnlyByOverflow
  <2>1. /\ Len(queue') = Len(queue) + 1 /\ DOMAIN queue' = 1..(Len(queue) + 1)
        /\ \A i \in 1..Len(queue) : queue'[i] = queue[i]
        /\ queue'[Len(queue) + 1] = num[w]
    <3>1. num[w] \in Nat /\ queue \in Seq(Nat)
      BY <1>2
    <3>2. queue' = Append(queue, num[w])
      BY <1>4
    <3> QED
      BY <3>1, <3>2, AppendFacts
  <2>2. n <= last \/ Queued(n) \/ InHand(n)
    BY <1>4 DEF ReplInv, LostOnlyByOverflow
  <2>3. CASE n <= last
    BY <1>1, <2>3
  <2>4. CASE Queued(n)
    BY <1>2, <2>1, <2>4 DEF Queued
  <2>5. CASE InHand(n)
    <3>1. PICK v \in Writers : wpc[v] = "drawn" /\ num[v] = n
      BY <2>5 DEF InHand
    <3>2. CASE v = w
      BY <1>2, <2>1, <3>1, <3>2 DEF Queued
    <3>3. CASE v # w
      BY <1>1, <1>2, <3>1, <3>3 DEF InHand
    <3> QED
      BY <3>2, <3>3
  <2> QED
    BY <2>2, <2>3, <2>4, <2>5
<1> QED
  BY <1>6, <1>7, <1>8, <1>9 DEF ReplInv

LEMMA PushInv ==
  ASSUME ReplInv, NEW d, Push(d)
  PROVE  ReplInv'
<1>1. /\ UNCHANGED <<primary, wpc, arg, num, overlapped, ops, shed, missed, late, promoted, own>>
      /\ dpc = "await" /\ Ingest(cur, d)
  BY DEF Push, callVars
<1>2. /\ cur \in 1..Len(ops) /\ queue \in Seq(Nat) /\ queue # <<>> /\ Len(ops) \in Nat
      /\ Len(queue) <= MaxQueue /\ \A i \in DOMAIN queue : queue[i] \in 1..Len(ops)
      /\ shed = {} => cur = queue[1]
      /\ last \in Nat /\ MaxQueue \in Nat
  BY <1>1, ReplicationAssumption DEF ReplInv, TypeOK, Draining
<1>3. /\ last' \in 0..Len(ops) /\ last' >= last
      /\ d \in Accepted => last' = cur
      /\ replica' \in [Keys -> Contents]
      /\ ReplicaIsHistory'
  BY <1>1, <1>2, IngestStep DEF ReplInv
<1>4. faults' \in Nat
  <2>1. faults' \in {faults, faults + 1}
    BY DEF Push, Fault
  <2> QED
    BY <2>1 DEF ReplInv, TypeOK
<1>5. /\ Tail(queue) \in Seq(Nat) /\ Len(Tail(queue)) = Len(queue) - 1
      /\ DOMAIN Tail(queue) = 1..(Len(queue) - 1) /\ Len(queue) \in Nat /\ DOMAIN queue = 1..Len(queue)
      /\ \A i \in 1..(Len(queue) - 1) : Tail(queue)[i] = queue[i + 1]
  BY <1>2
<1>6. CASE d \in Accepted /\ queue' = Tail(queue) /\ Loop(queue')
  <2>1. /\ queue' \in Seq(Nat) /\ Len(queue') <= MaxQueue
        /\ DOMAIN queue' = 1..(Len(queue) - 1)
        /\ \A i \in 1..(Len(queue) - 1) : queue'[i] = queue[i + 1]
    BY <1>2, <1>5, <1>6
  <2>2. \A i \in DOMAIN queue' : queue'[i] \in 1..Len(ops)
    <3> SUFFICES ASSUME NEW i \in 1..(Len(queue) - 1) PROVE queue'[i] \in 1..Len(ops)
      BY <2>1
    <3>1. i + 1 \in 1..Len(queue)
      BY <1>5
    <3>2. queue[i + 1] \in 1..Len(ops)
      BY <1>2, <1>5, <3>1
    <3> QED
      BY <2>1, <3>2
  <2>3. /\ dpc' \in {"off", "await"} /\ cur' \in 0..Len(ops)
        /\ dpc' = "await" => queue' # <<>> /\ cur' = queue'[1] /\ cur' # 0
    <3>1. cur \in 0..Len(ops)
      BY <1>2
    <3> QED
      BY <1>2, <1>6, <2>1, <2>2, <3>1, LoopStep
  <2>4. TypeOK'
    BY <1>1, <1>3, <1>4, <2>1, <2>2, <2>3 DEF ReplInv, TypeOK
  <2>5. LostOnlyByOverflow'
    <3> SUFFICES ASSUME ~missed, shed = {}, NEW n \in 1..Len(ops)
                 PROVE  (n <= last \/ Queued(n) \/ InHand(n))'
      BY <1>1 DEF LostOnlyByOverflow
    <3>1. n <= last \/ Queued(n) \/ InHand(n)
      BY DEF ReplInv, LostOnlyByOverflow
    <3>2. CASE n <= last
      BY <1>2, <1>3, <3>2
    <3>3. CASE InHand(n)
      BY <1>1, <3>3 DEF InHand
    <3>4. CASE Queued(n)
      <4>1. PICK i \in 1..Len(queue) : queue[i] = n
        BY <1>5, <3>4 DEF Queued
      <4>2. CASE i = 1
        BY <1>2, <1>3, <1>6, <4>1, <4>2
      <4>3. CASE i # 1
        <5>1. i - 1 \in 1..(Len(queue) - 1) /\ (i - 1) + 1 = i
          BY <1>5, <4>3
        <5>2. queue'[i - 1] = n
          BY <2>1, <4>1, <5>1
        <5> QED
          BY <2>1, <5>1, <5>2 DEF Queued
      <4> QED
        BY <4>2, <4>3
    <3> QED
      BY <3>1, <3>2, <3>3, <3>4
  <2> QED
    BY <1>3, <2>3, <2>4, <2>5 DEF ReplInv, Draining
<1>7. CASE dpc' = "sleep" /\ UNCHANGED <<queue, cur>>
  <2>1. TypeOK'
    BY <1>1, <1>3, <1>4, <1>7 DEF ReplInv, TypeOK
  <2>2. LostOnlyByOverflow'
    BY <1>1, <1>2, <1>3, <1>7 DEF ReplInv, LostOnlyByOverflow, Queued, InHand
  <2> QED
    BY <1>3, <1>7, <2>1, <2>2 DEF ReplInv, Draining
<1> QED
  BY <1>6, <1>7 DEF Push

\* The steps in which the replica ingests at most one request and the queue
\* stays as it is.
LEMMA RequestInv ==
  ASSUME ReplInv, (\E n \in late : \E d \in Answers : PushLate(n, d)) \/ PushFails
  PROVE  ReplInv'
<1>1. /\ UNCHANGED <<primary, wpc, arg, num, overlapped, ops, queue, cur, shed, missed, promoted, own>>
      /\ dpc' = dpc \/ dpc' = "sleep"
  BY DEF PushLate, PushFails, callVars, drainVars
<1>2. late \subseteq 1..Len(ops) /\ (dpc = "await" => cur \in 1..Len(ops))
  BY DEF ReplInv, TypeOK
<1>3. late' \subseteq 1..Len(ops)
  BY <1>2 DEF PushLate, PushFails
<1>4. faults' \in Nat
  <2>1. faults' \in {faults, faults + 1}
    BY DEF PushLate, PushFails, Fault
  <2> QED
    BY <2>1 DEF ReplInv, TypeOK
<1>5. UNCHANGED <<replica, last>> \/ \E n \in 1..Len(ops), d \in Answers : Ingest(n, d)
  BY <1>2 DEF PushLate, PushFails, ingestVars
<1>6. /\ last' \in 0..Len(ops) /\ last' >= last
      /\ replica' \in [Keys -> Contents]
      /\ ReplicaIsHistory'
  <2>1. CASE UNCHANGED <<replica, last>>
    <3>1. last \in 0..Len(ops) /\ last \in Int /\ replica \in [Keys -> Contents]
      BY DEF ReplInv, TypeOK
    <3>2. ReplicaIsHistory'
      BY <1>1, <2>1 DEF ReplInv, ReplicaIsHistory, Reflects
    <3> QED
      BY <2>1, <3>1, <3>2
  <2>2. ASSUME NEW n \in 1..Len(ops), NEW d \in Answers, Ingest(n, d)
        PROVE  /\ last' \in 0..Len(ops) /\ last' >= last
               /\ replica' \in [Keys -> Contents]
               /\ ReplicaIsHistory'
    BY <1>1, <2>2, IngestStep DEF ReplInv
  <2> QED
    BY <1>5, <2>1, <2>2
<1>7. TypeOK'
  BY <1>1, <1>3, <1>4, <1>6 DEF ReplInv, TypeOK
<1>8. Draining'
  BY <1>1 DEF ReplInv, Draining
<1>9. LostOnlyByOverflow'
  <2>1. last \in Int /\ last' \in Int /\ Len(ops) \in Nat
    BY <1>6 DEF ReplInv, TypeOK
  <2> QED
    BY <1>1, <1>6, <2>1 DEF ReplInv, LostOnlyByOverflow, Queued, InHand
<1> QED
  BY <1>6, <1>7, <1>8, <1>9 DEF ReplInv

LEMMA WakeInv ==
  ASSUME ReplInv, Wake
  PROVE  ReplInv'
<1>1. /\ UNCHANGED <<primary, wpc, arg, num, overlapped, ops, queue, shed, replica, last, missed, late,
                     promoted, own, faults>>
      /\ Loop(queue)
  BY DEF Wake, callVars, ingestVars
<1>2. /\ queue \in Seq(Nat) /\ Len(ops) \in Nat /\ cur \in 0..Len(ops)
      /\ \A i \in DOMAIN queue : queue[i] \in 1..Len(ops)
  BY DEF ReplInv, TypeOK
<1>3. /\ dpc' \in {"off", "await"} /\ cur' \in 0..Len(ops)
      /\ dpc' = "await" => queue # <<>> /\ cur' = queue[1] /\ cur' # 0
  BY <1>1, <1>2, LoopStep
<1>4. TypeOK'
  BY <1>1, <1>3 DEF ReplInv, TypeOK
<1>5. ReplicaIsHistory' /\ LostOnlyByOverflow'
  BY <1>1 DEF ReplInv, ReplicaIsHistory, Reflects, LostOnlyByOverflow, Queued, InHand
<1> QED
  BY <1>1, <1>3, <1>4, <1>5 DEF ReplInv, Draining

LEMMA CrashInv ==
  ASSUME ReplInv, Crash
  PROVE  ReplInv'
<1>1. /\ UNCHANGED <<primary, overlapped, ops, cur, shed, replica, last, promoted, own>>
      /\ wpc' = [w \in Writers |-> "idle"] /\ arg' = [w \in Writers |-> Absent]
      /\ num' = [w \in Writers |-> 0]
      /\ queue' = <<>> /\ dpc' = "off" /\ missed' = TRUE /\ faults' = faults + 1
  BY DEF Crash, Fault, ingestVars
<1>2. late' \subseteq 1..Len(ops)
  BY DEF Crash, ReplInv, TypeOK
<1>3. queue' \in Seq(Nat) /\ Len(queue') <= MaxQueue /\ DOMAIN queue' = {}
  BY <1>1, ReplicationAssumption
<1>4. /\ wpc' \in [Writers -> {"idle", "written", "drawn"}]
      /\ arg' \in [Writers -> Op \cup {Absent}]
      /\ \A w \in Writers : wpc'[w] = "idle"
  BY <1>1
<1>5. num' \in [Writers -> 0..Len(ops)] /\ faults' \in Nat
  BY <1>1 DEF ReplInv, TypeOK
<1>6. TypeOK'
  BY <1>1, <1>2, <1>3, <1>4, <1>5 DEF ReplInv, TypeOK
<1>7. ReplicaIsHistory' /\ Draining' /\ LostOnlyByOverflow'
  BY <1>1 DEF ReplInv, ReplicaIsHistory, Reflects, Draining, LostOnlyByOverflow
<1> QED
  BY <1>6, <1>7 DEF ReplInv

LEMMA PromotionInv ==
  ASSUME ReplInv, Promote \/ Demote \/ (\E op \in Op : ClientWrite(op))
  PROVE  ReplInv'
<1>1. /\ UNCHANGED <<primary, wpc, arg, num, overlapped, ops, queue, dpc, cur, shed, last, missed, late,
                     faults>>
      /\ promoted' \in BOOLEAN
  BY DEF Promote, Demote, ClientWrite, callVars, drainVars, ingestVars, ReplInv, TypeOK
<1>2. /\ replica' \in [Keys -> Contents] /\ own' \subseteq Keys /\ own \subseteq own'
      /\ \A k \in Keys \ own' : replica'[k] = replica[k]
  BY DEF Promote, Demote, ClientWrite, ingestVars, Op, ReplInv, TypeOK
<1>3. TypeOK'
  BY <1>1, <1>2 DEF ReplInv, TypeOK
<1>4. ReplicaIsHistory'
  BY <1>1, <1>2 DEF ReplInv, ReplicaIsHistory, Reflects
<1>5. Draining' /\ LostOnlyByOverflow'
  BY <1>1 DEF ReplInv, Draining, LostOnlyByOverflow, Queued, InHand
<1> QED
  BY <1>3, <1>4, <1>5 DEF ReplInv

LEMMA NextInv == ReplInv /\ [Next]_vars => ReplInv'
<1> SUFFICES ASSUME ReplInv, [Next]_vars PROVE ReplInv'
  OBVIOUS
<1>1. CASE UNCHANGED vars
  <2>1. UNCHANGED <<primary, wpc, arg, num, overlapped, ops, queue, dpc, cur, shed, replica, last, missed,
                    late, promoted, own, faults>>
    BY <1>1 DEF vars, callVars, drainVars, ingestVars
  <2>2. TypeOK' /\ Draining'
    BY <2>1 DEF ReplInv, TypeOK, Draining
  <2>3. ReplicaIsHistory'
    BY <2>1 DEF ReplInv, ReplicaIsHistory, Reflects
  <2>4. LostOnlyByOverflow'
    BY <2>1 DEF ReplInv, LostOnlyByOverflow, Queued, InHand
  <2> QED
    BY <2>2, <2>3, <2>4 DEF ReplInv
<1> QED
  BY <1>1, WriteInv, FailedDrawInv, DrawInv, EnqueueInv, PushInv, RequestInv, WakeInv, CrashInv,
     PromotionInv DEF Next

\* The inductive invariant of the mirror.
THEOREM ReplicationCorrect == Spec => []ReplInv
BY InitInv, NextInv, PTL DEF Spec

\* Except where a promoted replica wrote itself, the replica is the result of
\* the numbered mutations up to the last accepted one, in order: the apply guard
\* keeps retries, late requests and the remains of a shed queue from bringing an
\* old value back.
THEOREM ReplicaOnHistory == Spec => []ReplicaIsHistory
BY ReplicationCorrect, PTL DEF ReplInv

\* While the queue has not overflowed and the primary has not crashed, no
\* numbered mutation is lost, however pushes fail (drain leaves the head in the
\* queue until the replica accepted it).
THEOREM NoLossWithoutOverflow == Spec => []LostOnlyByOverflow
BY ReplicationCorrect, PTL DEF ReplInv

\* Every variable of the mirror stays in its type: the queue holds numbered mutations and
\* never more than its limit.
THEOREM ReplicationTyped == Spec => []TypeOK
BY ReplicationCorrect, PTL DEF ReplInv

-----------------------------------------------------------------------------
(* The replica mirrors the primary.                                        *)

\* The primary holds for key k what the operations up to n left there.
Left(k, n) ==
  \/ \E m \in 1..n : /\ ops[m].key = k /\ primary[k] = ops[m].val
                     /\ \A j \in (m + 1)..n : ops[j].key # k
  \/ primary[k] = Absent /\ \A j \in 1..n : ops[j].key # k

\* Writer w has written key k and not drawn its number.
Unnumbered(w, k) == wpc[w] = "written" /\ arg[w].key = k

\* For a key whose calls did not overlap the primary is the result of the
\* numbered operations, or of the one that was made and not numbered.
PrimaryIsHistory ==
  ~missed => \A k \in Keys \ overlapped :
    \/ \E w \in Writers : /\ Unnumbered(w, k) /\ primary[k] = arg[w].val
                          /\ \A v \in Writers : Unnumbered(v, k) => v = w
    \/ (\A w \in Writers : ~Unnumbered(w, k)) /\ Left(k, Len(ops))

MirrorInv == ReplInv /\ PrimaryIsHistory

LEMMA WriteMirror ==
  ASSUME MirrorInv, NEW w \in Writers, NEW op \in Op, Write(w, op)
  PROVE  PrimaryIsHistory'
<1>1. /\ UNCHANGED <<ops, missed>> /\ wpc[w] = "idle"
      /\ primary' = [primary EXCEPT ![op.key] = op.val]
      /\ wpc' = [wpc EXCEPT ![w] = "written"] /\ arg' = [arg EXCEPT ![w] = op]
      /\ overlapped' = overlapped \cup ({op.key} \cap {arg[v].key : v \in Mutating})
  BY DEF Write
<1>2. /\ wpc \in [Writers -> {"idle", "written", "drawn"}]
      /\ arg \in [Writers -> Op \cup {Absent}] /\ primary \in [Keys -> Contents]
      /\ op.key \in Keys
  BY DEF MirrorInv, ReplInv, TypeOK, Op
<1> SUFFICES ASSUME ~missed, NEW k \in Keys, k \notin overlapped'
             PROVE  \/ \E u \in Writers : /\ Unnumbered(u, k)' /\ primary'[k] = arg'[u].val
                                          /\ \A v \in Writers : Unnumbered(v, k)' => v = u
                    \/ (\A u \in Writers : ~Unnumbered(u, k)') /\ Left(k, Len(ops))'
  BY <1>1 DEF PrimaryIsHistory
<1>3. \A v \in Writers : v # w => (Unnumbered(v, k)' <=> Unnumbered(v, k)) /\ arg'[v] = arg[v]
  BY <1>1, <1>2 DEF Unnumbered
<1>4. wpc'[w] = "written" /\ arg'[w] = op /\ ~Unnumbered(w, k)
  BY <1>1, <1>2 DEF Unnumbered
<1>5. CASE k = op.key
  <2>1. \A v \in Writers : ~Unnumbered(v, k)
    BY <1>1, <1>5 DEF Unnumbered, Mutating
  <2>2. Unnumbered(w, k)' /\ primary'[k] = arg'[w].val
    BY <1>1, <1>2, <1>4, <1>5 DEF Unnumbered
  <2>. QED BY <1>3, <2>1, <2>2
<1>6. CASE k # op.key
  <2>1. ~Unnumbered(w, k)'
    BY <1>4, <1>6 DEF Unnumbered
  <2>2. primary'[k] = primary[k] /\ k \in Keys \ overlapped
    BY <1>1, <1>2, <1>6
  <2>3. CASE \E u \in Writers : /\ Unnumbered(u, k) /\ primary[k] = arg[u].val
                                /\ \A v \in Writers : Unnumbered(v, k) => v = u
    BY <1>3, <1>4, <2>1, <2>2, <2>3
  <2>4. CASE (\A u \in Writers : ~Unnumbered(u, k)) /\ Left(k, Len(ops))
    <3>1. Left(k, Len(ops))'
      BY <1>1, <2>2, <2>4 DEF Left
    <3>. QED BY <1>3, <2>1, <2>4, <3>1
  <2>. QED BY <2>2, <2>3, <2>4 DEF MirrorInv, PrimaryIsHistory
<1>. QED BY <1>5, <1>6

\* A number drawn for another key changes nothing for key k.
LEMMA LeftLonger ==
  ASSUME NEW N \in Nat, NEW k, NEW x, Left(k, N), x.key # k, UNCHANGED primary,
         \A i \in 1..N : ops'[i] = ops[i], ops'[N + 1] = x
  PROVE  Left(k, N + 1)'
<1>1. CASE primary[k] = Absent /\ \A j \in 1..N : ops[j].key # k
  <2>1. \A j \in 1..(N + 1) : ops'[j].key # k
    BY <1>1
  <2>. QED BY <1>1, <2>1 DEF Left
<1>2. CASE \E m \in 1..N : /\ ops[m].key = k /\ primary[k] = ops[m].val
                           /\ \A j \in (m + 1)..N : ops[j].key # k
  <2>1. PICK m \in 1..N : /\ ops[m].key = k /\ primary[k] = ops[m].val
                          /\ \A j \in (m + 1)..N : ops[j].key # k
    BY <1>2
  <2>2. m \in 1..(N + 1) /\ ops'[m].key = k /\ primary'[k] = ops'[m].val
    BY <2>1
  <2>3. \A j \in (m + 1)..(N + 1) : ops'[j].key # k
    BY <2>1
  <2>. QED BY <2>2, <2>3 DEF Left
<1>. QED BY <1>1, <1>2 DEF Left

LEMMA DrawMirror ==
  ASSUME MirrorInv, NEW w \in Writers, DrawSequence(w)
  PROVE  PrimaryIsHistory'
<1>1. /\ UNCHANGED <<primary, overlapped, missed>> /\ wpc[w] = "written"
      /\ wpc' = [wpc EXCEPT ![w] = "drawn"] /\ ops' = Append(ops, arg[w])
      /\ arg' = [arg EXCEPT ![w] = Absent]
  BY DEF DrawSequence
<1>2. /\ wpc \in [Writers -> {"idle", "written", "drawn"}] /\ arg[w] \in Op
      /\ arg \in [Writers -> Op \cup {Absent}]
      /\ ops \in Seq(Op) /\ Len(ops) \in Nat
  BY <1>1 DEF MirrorInv, ReplInv, TypeOK
<1>3. PICK N \in Nat : N = Len(ops)
  BY <1>2
<1>4. /\ Len(ops') = N + 1 /\ ops'[N + 1] = arg[w]
      /\ \A i \in 1..N : ops'[i] = ops[i]
  BY <1>1, <1>2, <1>3
<1> SUFFICES ASSUME ~missed, NEW k \in Keys, k \notin overlapped
             PROVE  \/ \E u \in Writers : /\ Unnumbered(u, k)' /\ primary'[k] = arg'[u].val
                                          /\ \A v \in Writers : Unnumbered(v, k)' => v = u
                    \/ (\A u \in Writers : ~Unnumbered(u, k)') /\ Left(k, N + 1)'
  BY <1>1, <1>4 DEF PrimaryIsHistory, Left
<1>5. \A v \in Writers : v # w => (Unnumbered(v, k)' <=> Unnumbered(v, k)) /\ arg'[v] = arg[v]
  BY <1>1, <1>2 DEF Unnumbered
<1>6. ~Unnumbered(w, k)'
  BY <1>1, <1>2 DEF Unnumbered
<1>7. \/ \E u \in Writers : /\ Unnumbered(u, k) /\ primary[k] = arg[u].val
                            /\ \A v \in Writers : Unnumbered(v, k) => v = u
      \/ (\A u \in Writers : ~Unnumbered(u, k)) /\ Left(k, N)
  BY <1>3 DEF MirrorInv, PrimaryIsHistory
<1>8. CASE arg[w].key = k
  <2>1. Unnumbered(w, k)
    BY <1>1, <1>8 DEF Unnumbered
  <2>2. primary[k] = arg[w].val /\ \A v \in Writers : Unnumbered(v, k) => v = w
    BY <1>7, <2>1
  <2>3. N + 1 \in 1..(N + 1) /\ ((N + 1) + 1)..(N + 1) = {}
    BY <1>3
  <2>4. Left(k, N + 1)'
    BY <1>1, <1>4, <1>8, <2>2, <2>3 DEF Left
  <2>. QED BY <1>5, <1>6, <2>2, <2>4
<1>9. CASE arg[w].key # k
  <2>1. CASE \E u \in Writers : /\ Unnumbered(u, k) /\ primary[k] = arg[u].val
                                /\ \A v \in Writers : Unnumbered(v, k) => v = u
    <3>1. ~Unnumbered(w, k)
      BY <1>9 DEF Unnumbered
    <3>. QED BY <1>1, <1>5, <1>6, <2>1, <3>1
  <2>2. CASE (\A u \in Writers : ~Unnumbered(u, k)) /\ Left(k, N)
    <3>1. PICK x \in Op : x = arg[w]
      BY <1>2
    <3>2. Left(k, N + 1)'
      BY <1>1, <1>4, <1>9, <2>2, <3>1, LeftLonger
    <3>. QED BY <1>5, <1>6, <2>2, <3>2
  <2>. QED BY <1>7, <2>1, <2>2
<1>. QED BY <1>8, <1>9

\* Every other step leaves the primary and what is made and not numbered alone,
\* or is a loss that the invariant excepts.
LEMMA OtherMirror ==
  ASSUME MirrorInv, [Next]_vars,
         ~ \E w \in Writers : DrawSequence(w) \/ \E op \in Op : Write(w, op)
  PROVE  PrimaryIsHistory'
<1>1. CASE \E w \in Writers : Enqueue(w)
  <2>1. PICK w \in Writers : Enqueue(w)
    BY <1>1
  <2>2. /\ UNCHANGED <<primary, arg, overlapped, ops, missed>>
        /\ wpc[w] = "drawn" /\ wpc' = [wpc EXCEPT ![w] = "idle"]
    BY <2>1 DEF Enqueue
  <2>3. wpc \in [Writers -> {"idle", "written", "drawn"}]
    BY DEF MirrorInv, ReplInv, TypeOK
  <2>4. \A v \in Writers : wpc'[v] = "written" <=> wpc[v] = "written"
    BY <2>2, <2>3
  <2>. QED BY <2>2, <2>4 DEF MirrorInv, PrimaryIsHistory, Unnumbered, Left
<1>2. CASE Crash \/ \E w \in Writers : SequenceFails(w)
  BY <1>2 DEF Crash, SequenceFails, PrimaryIsHistory
<1>3. CASE UNCHANGED <<primary, wpc, arg, overlapped, ops, missed>>
  BY <1>3 DEF MirrorInv, PrimaryIsHistory, Unnumbered, Left
<1>4. CASE (\E d \in Answers : Push(d) \/ \E n \in late : PushLate(n, d)) \/ PushFails \/ Wake
  BY <1>3, <1>4 DEF Push, PushLate, PushFails, Wake, callVars
<1>5. CASE Promote \/ Demote \/ (\E op \in Op : ClientWrite(op)) \/ UNCHANGED vars
  BY <1>3, <1>5 DEF Promote, Demote, ClientWrite, vars, callVars
<1>. QED BY <1>1, <1>2, <1>4, <1>5 DEF Next

LEMMA MirrorInit == Init => MirrorInv
<1> SUFFICES ASSUME Init PROVE MirrorInv
  OBVIOUS
<1>1. /\ \A w \in Writers : wpc[w] = "idle"
      /\ \A k \in Keys : primary[k] = Absent
      /\ Len(ops) = 0
  BY DEF Init
<1>2. 1..Len(ops) = {}
  BY <1>1
<1>3. PrimaryIsHistory
  BY <1>1, <1>2 DEF PrimaryIsHistory, Unnumbered, Left
<1>. QED BY <1>3, InitInv DEF MirrorInv

\* What the operations up to n left for a key is one value.
LEMMA LeftIsReflected ==
  ASSUME NEW n \in Nat, NEW k, Left(k, n), Reflects(k, n)
  PROVE  replica[k] = primary[k]
<1>1. CASE \E m \in 1..n : ops[m].key = k
  <2>1. PICK a \in 1..n : /\ ops[a].key = k /\ primary[k] = ops[a].val
                          /\ \A j \in (a + 1)..n : ops[j].key # k
    BY <1>1 DEF Left
  <2>2. PICK b \in 1..n : /\ ops[b].key = k /\ replica[k] = ops[b].val
                          /\ \A j \in (b + 1)..n : ops[j].key # k
    BY <1>1 DEF Reflects
  <2>3. b \notin (a + 1)..n /\ a \notin (b + 1)..n
    BY <2>1, <2>2
  <2>4. a = b
    BY <2>3
  <2>. QED BY <2>1, <2>2, <2>4
<1>2. CASE \A m \in 1..n : ops[m].key # k
  BY <1>2 DEF Left, Reflects
<1>. QED BY <1>1, <1>2

LEMMA MirrorWhenQuiet == MirrorInv => MirrorsWhenQuiet
<1> SUFFICES ASSUME MirrorInv, ~missed, shed = {}, Quiet, NEW k \in Keys \ (own \cup overlapped)
             PROVE  replica[k] = primary[k]
  BY DEF MirrorsWhenQuiet
<1>1. last \in 0..Len(ops) /\ Len(ops) \in Nat
  BY DEF MirrorInv, ReplInv, TypeOK
<1>2. \A n \in 1..Len(ops) : ~Queued(n) /\ ~InHand(n)
  BY DEF Quiet, Queued, InHand
<1>3. \A n \in 1..Len(ops) : n <= last
  BY <1>2 DEF MirrorInv, ReplInv, LostOnlyByOverflow
<1>4. last = Len(ops)
  <2>1. CASE Len(ops) = 0
    BY <1>1, <2>1
  <2>2. CASE Len(ops) # 0
    <3>1. Len(ops) \in 1..Len(ops)
      BY <1>1, <2>2
    <3>2. Len(ops) <= last
      BY <1>3, <3>1
    <3>. QED BY <1>1, <3>2
  <2>. QED BY <2>1, <2>2
<1>5. Reflects(k, Len(ops))
  BY <1>1, <1>4 DEF MirrorInv, ReplInv, ReplicaIsHistory
<1>6. Left(k, Len(ops))
  BY DEF MirrorInv, PrimaryIsHistory, Quiet, Unnumbered
<1>. QED BY <1>1, <1>5, <1>6, LeftIsReflected

\* For any number of concurrent callers: while the queue has not overflowed and no call
\* failed or died with the primary, a replica to which everything was pushed holds what
\* the primary holds for every key that its own clients did not write and of which no two
\* calls overlapped between write and number (set, delete, enqueue, drain).
THEOREM MirrorEqualsPrimary == Spec => []MirrorsWhenQuiet
<1>1. MirrorInv /\ [Next]_vars => MirrorInv'
  <2> SUFFICES ASSUME MirrorInv, [Next]_vars PROVE MirrorInv'
    OBVIOUS
  <2>1. ReplInv'
    BY NextInv DEF MirrorInv
  <2>2. PrimaryIsHistory'
    BY WriteMirror, DrawMirror, OtherMirror
  <2>. QED BY <2>1, <2>2 DEF MirrorInv
<1>. QED BY <1>1, MirrorInit, MirrorWhenQuiet, PTL DEF Spec

-----------------------------------------------------------------------------
(* Admission: the requests and the head of the log.                        *)

\* The request a process serves is the last one it started, and the entry it
\* writes is about that request.
Serving ==
  \A p \in Procs :
    /\ call[p] # Idle => serial[p] \in 1..MaxCalls
    /\ call[p].at \in {"read", "insert"} => call[p].content.of = <<p, serial[p]>>

\* A request that is over.
Done(o) ==
  \/ o[2] < serial[o[1]]
  \/ o[2] = serial[o[1]] /\ call[o[1]] = Idle

\* A row carries the hash of its fields and belongs to a request that is over;
\* no two rows share a place or a request.
RowsSound ==
  /\ \A e \in table : e.hash = Hash(e.seq, e.prev, e.content) /\ Done(e.content.of)
  /\ \A d, e \in table : d.seq = e.seq \/ d.content.of = e.content.of => d = e

\* The table is finite; all that is needed of it is that it has a last row.
HasHead == table # {} => \E e \in table : \A d \in table : d.seq <= e.seq

\* What comes first in the log, or behind a row that is there.
Behind(c) ==
  \/ c.seq = 1 /\ c.prev = Genesis
  \/ \E d \in table : d.seq = c.seq - 1 /\ d.hash = c.prev

\* As long as nothing was deleted, every row and every insert on its way is
\* behind another, and the rows up to any row are all there.
ChainSound ==
  ~cut => /\ \A e \in table : Behind(e) /\ \A k \in 1..e.seq : \E d \in table : d.seq = k
          /\ \A p \in Procs : call[p].at = "insert" => Behind(call[p])

Shape == AdmissionTypeOK /\ Serving /\ RowsSound /\ HasHead /\ ChainSound

\* What a step of one process does to the others.
LEMMA GotoFacts ==
  ASSUME AdmissionTypeOK, NEW p \in Procs, NEW c, Goto(p, c)
  PROVE  /\ DOMAIN call' = Procs /\ call'[p] = c
         /\ \A q \in Procs \ {p} : call'[q] = call[q]
BY DEF AdmissionTypeOK, Goto

\* HeadSeq and HeadHash are those of the last row.
LEMMA HeadFacts ==
  ASSUME Shape
  PROVE  /\ HeadSeq \in Nat
         /\ table = {} => HeadSeq = 0 /\ HeadHash = Genesis
         /\ table # {} => \E e \in table : /\ e.seq = HeadSeq /\ e.hash = HeadHash
                                           /\ \A d \in table : d.seq <= e.seq
<1> DEFINE seqs == {e.seq : e \in table} \cup {0}
<1>1. \A e \in table : e.seq \in Nat \ {0}
  BY DEF Shape, AdmissionTypeOK
<1>2. ASSUME NEW m \in seqs, \A y \in seqs : y <= m, m \in Nat PROVE HeadSeq = m
  <2>1. \A y \in seqs : y \in Nat
    BY <1>1
  <2>2. \A x \in seqs : (\A y \in seqs : x >= y) => x = m
    BY <1>2, <2>1
  <2>3. \A y \in seqs : m >= y
    BY <1>2, <2>1
  <2>4. (CHOOSE x \in seqs : \A y \in seqs : x >= y) = m
    <3> HIDE DEF seqs
    <3> QED
      BY <1>2, <2>2, <2>3
  <2> QED
    BY <2>4 DEF HeadSeq, Max
<1>3. CASE table = {}
  BY <1>2, <1>3 DEF HeadHash
<1>4. CASE table # {}
  <2>1. PICK e \in table : \A d \in table : d.seq <= e.seq
    BY <1>4 DEF Shape, HasHead
  <2>2. HeadSeq = e.seq
    BY <1>1, <1>2, <2>1
  <2>3. HeadHash = e.hash
    <3>1. \A d \in table : d.seq = HeadSeq => d = e
      BY <2>2 DEF Shape, RowsSound
    <3>2. (CHOOSE d \in table : d.seq = HeadSeq) = e
      BY <2>2, <3>1
    <3> QED
      BY <1>4, <3>2 DEF HeadHash
  <2> QED
    BY <1>1, <1>4, <2>1, <2>2, <2>3
<1> QED
  BY <1>3, <1>4

\* A request that is over stays so: its process only starts a later one.
LEMMA DoneStays ==
  ASSUME Shape, [AdmissionNext]_admissionVars, NEW o \in Procs \X (1..MaxCalls), Done(o)
  PROVE  Done(o)'
<1>1. CASE UNCHANGED <<serial, call>>
  BY <1>1 DEF Done
<1>2. ASSUME NEW p \in Procs, Start(p) PROVE Done(o)'
  <2>1. /\ \A q \in Procs \ {p} : call'[q] = call[q] /\ serial'[q] = serial[q]
        /\ serial'[p] = serial[p] + 1 /\ serial[p] \in Nat /\ call[p] = Idle
    BY <1>2, GotoFacts DEF Start, Shape, AdmissionTypeOK
  <2>2. o[1] \in Procs /\ o[2] \in Nat
    OBVIOUS
  <2> QED
    BY <2>1, <2>2 DEF Done
<1>3. ASSUME NEW p \in Procs, NEW c, Goto(p, c), call[p] # Idle, UNCHANGED serial
      PROVE  Done(o)'
  <2>1. \A q \in Procs \ {p} : call'[q] = call[q]
    BY <1>3, GotoFacts DEF Shape
  <2>2. o[1] \in Procs
    OBVIOUS
  <2> QED
    BY <1>3, <2>1, <2>2 DEF Done
<1>4. ASSUME NEW p \in Procs, Serve(p), ~Start(p) PROVE Done(o)'
  <2>1. call[p] # Idle /\ UNCHANGED serial
    BY <1>4 DEF Serve, Trim, Count, Add, LimiterFails,
       Verify, DenyShadow, ReadHead, Insert, Contend, ConnectionLost, Idle
  <2>2. \E c : Goto(p, c)
    BY <1>4 DEF Serve, Trim, Count, Add, LimiterFails,
       Verify, DenyShadow, ReadHead, Insert, Contend, ConnectionLost
  <2> QED
    BY <1>3, <2>1, <2>2
<1> QED
  BY <1>1, <1>2, <1>4 DEF AdmissionNext, Tick, Anchor, Truncate, Serve, admissionVars

\* A step that only moves the call of one process.
LEMMA CallMoves ==
  ASSUME Shape, NEW p \in Procs, NEW c, Goto(p, c), UNCHANGED serial, CallTypeOK(c),
         c # Idle => serial[p] \in 1..MaxCalls,
         c.at \in {"read", "insert"} => c.content.of = <<p, serial[p]>>
  PROVE  /\ DOMAIN call' = Procs /\ \A q \in Procs : CallTypeOK(call'[q])
         /\ Serving'
<1>1. /\ DOMAIN call' = Procs /\ call'[p] = c
      /\ \A q \in Procs \ {p} : call'[q] = call[q]
  BY GotoFacts DEF Shape
<1>2. \A q \in Procs : CallTypeOK(call[q])
  BY DEF Shape, AdmissionTypeOK
<1>3. \A q \in Procs : CallTypeOK(call'[q])
  BY <1>1, <1>2
<1>4. Serving'
  BY <1>1 DEF Serving, Shape
<1> QED
  BY <1>1, <1>3, <1>4

\* The entry of a request that is being served is about it.
LEMMA AuditFacts ==
  ASSUME Shape, NEW p \in Procs, call[p] # Idle
  PROVE  /\ CallTypeOK(Audit(p)) /\ Audit(p) # Idle
         /\ Audit(p).content.of = <<p, serial[p]>>
<1>1. serial[p] \in 1..MaxCalls /\ now \in Times
  BY DEF Shape, Serving, AdmissionTypeOK
<1>2. [id |-> <<now, serial[p]>>, of |-> <<p, serial[p]>>] \in Content
  BY <1>1 DEF Content
<1>3. 0 \in 0..(MaxRetries - 1)
  BY AdmissionAssumption
<1> QED
  BY <1>2, <1>3 DEF Audit, CallTypeOK, Idle

LEMMA ShapeTypes ==
  ASSUME Shape, [AdmissionNext]_admissionVars
  PROVE  AdmissionTypeOK' /\ Serving'
<1> USE DEF Shape
<1>0. /\ now \in Times /\ zset \subseteq Members /\ serial \in [Procs -> 0..MaxCalls]
      /\ DOMAIN call = Procs /\ \A p \in Procs : CallTypeOK(call[p])
      /\ \A e \in table : e.seq \in Nat \ {0} /\ e.content \in Content
      /\ \A a \in anchors : /\ DOMAIN a = {"seq", "hash", "lost"}
                             /\ a.seq \in Nat /\ a.lost \in BOOLEAN
      /\ cut \in BOOLEAN /\ allowed \subseteq Members
      /\ answered \subseteq Procs \X (1..MaxCalls) /\ shadowed \subseteq answered
  BY DEF AdmissionTypeOK
<1>1. CASE UNCHANGED admissionVars
  BY <1>0, <1>1 DEF admissionVars, AdmissionTypeOK, Serving
<1>2. CASE Tick
  <2>1. now' \in Times
    BY <1>0, <1>2, AdmissionAssumption DEF Tick, Times
  <2> QED
    BY <1>0, <1>2, <2>1 DEF Tick, AdmissionTypeOK, Serving
<1>3. CASE Anchor
  <2>1. HeadSeq \in Nat
    BY HeadFacts
  <2>2. PICK h : h = [seq |-> HeadSeq, hash |-> HeadHash, lost |-> FALSE]
    OBVIOUS
  <2>3. DOMAIN h = {"seq", "hash", "lost"} /\ h.seq \in Nat /\ h.lost \in BOOLEAN
    BY <2>1, <2>2
  <2>4. \A a \in anchors' : /\ DOMAIN a = {"seq", "hash", "lost"}
                            /\ a.seq \in Nat /\ a.lost \in BOOLEAN
    BY <1>0, <1>3, <2>2, <2>3 DEF Anchor
  <2> QED
    BY <1>0, <1>3, <2>4 DEF Anchor, AdmissionTypeOK, Serving
<1>4. CASE Truncate
  <2>1. PICK n \in 0..(HeadSeq - 1) :
           /\ table' = {e \in table : e.seq <= n}
           /\ anchors' = {[a EXCEPT !.lost = @ \/ a.seq > n] : a \in anchors}
    BY <1>4 DEF Truncate
  <2>2. ASSUME NEW a \in anchors
        PROVE  LET b == [a EXCEPT !.lost = @ \/ a.seq > n]
               IN  /\ DOMAIN b = {"seq", "hash", "lost"}
                   /\ b.seq \in Nat /\ b.lost \in BOOLEAN
    BY <1>0
  <2>3. \A a \in anchors' : /\ DOMAIN a = {"seq", "hash", "lost"}
                            /\ a.seq \in Nat /\ a.lost \in BOOLEAN
    BY <2>1, <2>2
  <2> QED
    BY <1>0, <1>4, <2>1, <2>3 DEF Truncate, AdmissionTypeOK, Serving
<1>5. ASSUME NEW p \in Procs, Start(p) PROVE AdmissionTypeOK' /\ Serving'
  <2>1. /\ serial'[p] = serial[p] + 1 /\ serial'[p] \in 1..MaxCalls
        /\ \A q \in Procs \ {p} : serial'[q] = serial[q]
        /\ serial' \in [Procs -> 0..MaxCalls]
    BY <1>0, <1>5, AdmissionAssumption DEF Start
  <2>2. /\ DOMAIN call' = Procs /\ call'[p] = [at |-> "trim", now |-> now]
        /\ \A q \in Procs \ {p} : call'[q] = call[q]
    BY <1>5, GotoFacts DEF Start
  <2>3. CallTypeOK([at |-> "trim", now |-> now])
    BY <1>0 DEF CallTypeOK
  <2>4. \A q \in Procs : CallTypeOK(call'[q])
    BY <1>0, <2>2, <2>3
  <2>5. Serving'
    BY <2>1, <2>2 DEF Serving
  <2> QED
    BY <1>0, <1>5, <2>1, <2>2, <2>4, <2>5 DEF Start, AdmissionTypeOK
<1>6. ASSUME NEW p \in Procs, Serve(p), ~Start(p) PROVE AdmissionTypeOK' /\ Serving'
  <2>0. call[p] # Idle /\ UNCHANGED serial
    BY <1>6 DEF Serve, Trim, Count, Add, LimiterFails,
       Verify, DenyShadow, ReadHead, Insert, Contend, ConnectionLost, Idle
  <2>1. CallTypeOK(Idle) /\ Idle.at = "idle"
    BY DEF CallTypeOK, Idle
  <2>2. serial[p] \in 1..MaxCalls
    BY <2>0 DEF Serving
  <2>3. /\ zset' \subseteq Members /\ allowed' \subseteq Members
        /\ \A e \in table' : e.seq \in Nat \ {0} /\ e.content \in Content
        /\ answered' \subseteq Procs \X (1..MaxCalls) /\ shadowed' \subseteq answered'
        /\ UNCHANGED <<now, anchors, cut>>
    <3>1. call[p].at = "add" => Member(p) \in Members
      BY <1>0, <2>2 DEF CallTypeOK, Idle, Member, Members
    <3>2. call[p].at = "insert" =>
            /\ Entry(call[p]).seq \in Nat \ {0} /\ Entry(call[p]).content \in Content
            /\ call[p].content.of \in Procs \X (1..MaxCalls)
      BY <1>0 DEF CallTypeOK, Idle, Entry, Content
    <3> QED
      BY <1>0, <1>6, <2>2, <3>1, <3>2 DEF Trimmed, Serve, Trim, Count, Add, LimiterFails,
       Verify, DenyShadow, ReadHead, Insert, Contend, ConnectionLost
  <2>4. /\ DOMAIN call' = Procs /\ \A q \in Procs : CallTypeOK(call'[q])
        /\ Serving'
    <3>1. CASE Goto(p, Idle)
      BY <2>0, <2>1, <3>1, CallMoves
    <3>2. CASE Goto(p, Audit(p))
      BY <2>0, <2>2, <3>2, AuditFacts, CallMoves
    <3>3. ASSUME NEW at \in {"count", "add", "verify"}, call[p].at \in {"trim", "count", "add"},
                 Goto(p, [call[p] EXCEPT !.at = at])
          PROVE  DOMAIN call' = Procs /\ (\A q \in Procs : CallTypeOK(call'[q])) /\ Serving'
      <4>1. call[p] \in [at : {"trim", "count", "add", "verify"}, now : Times]
        BY <1>0, <3>3 DEF CallTypeOK, Idle
      <4>2. [call[p] EXCEPT !.at = at] \in [at : {"trim", "count", "add", "verify"}, now : Times]
        BY <3>3, <4>1
      <4>3. [call[p] EXCEPT !.at = at].at = at
        BY <4>1
      <4>4. CallTypeOK([call[p] EXCEPT !.at = at])
        BY <4>2 DEF CallTypeOK
      <4> QED
        BY <2>0, <2>2, <3>3, <4>3, <4>4, CallMoves
    <3>4. ASSUME ReadHead(p)
          PROVE  DOMAIN call' = Procs /\ (\A q \in Procs : CallTypeOK(call'[q])) /\ Serving'
      <4> DEFINE c == [at |-> "insert", attempt |-> call[p].attempt, content |-> call[p].content,
                       seq |-> HeadSeq + 1, prev |-> HeadHash]
      <4>1. HeadSeq \in Nat
        BY HeadFacts
      <4>2. /\ call[p].attempt \in 0..(MaxRetries - 1) /\ call[p].content \in Content
            /\ call[p].content.of = <<p, serial[p]>>
        BY <1>0, <3>4 DEF ReadHead, CallTypeOK, Idle, Serving
      <4>3. CallTypeOK(c) /\ c.at = "insert" /\ c.content.of = <<p, serial[p]>>
        BY <4>1, <4>2 DEF CallTypeOK
      <4>4. Goto(p, c)
        BY <3>4 DEF ReadHead
      <4> HIDE DEF c
      <4> QED
        BY <2>0, <2>2, <4>3, <4>4, CallMoves
    <3>5. ASSUME call[p].at = "insert", call[p].attempt + 1 < MaxRetries,
                 Goto(p, [at |-> "read", attempt |-> call[p].attempt + 1, content |-> call[p].content])
          PROVE  DOMAIN call' = Procs /\ (\A q \in Procs : CallTypeOK(call'[q])) /\ Serving'
      <4> DEFINE c == [at |-> "read", attempt |-> call[p].attempt + 1, content |-> call[p].content]
      <4>1. /\ call[p].attempt \in 0..(MaxRetries - 1) /\ call[p].content \in Content
            /\ call[p].content.of = <<p, serial[p]>>
        BY <1>0, <3>5 DEF CallTypeOK, Idle, Serving
      <4>2. call[p].attempt + 1 \in 0..(MaxRetries - 1)
        BY <3>5, <4>1, AdmissionAssumption
      <4>3. CallTypeOK(c) /\ c.content.of = <<p, serial[p]>>
        BY <4>1, <4>2 DEF CallTypeOK
      <4>4. Goto(p, c)
        BY <3>5
      <4> HIDE DEF c
      <4> QED
        BY <2>0, <2>2, <4>3, <4>4, CallMoves
    <3> QED
      BY <1>6, <3>1, <3>2, <3>3, <3>4, <3>5 DEF Serve, Trim, Count, Add, LimiterFails,
       Verify, DenyShadow, Insert, Contend, ConnectionLost
  <2> QED
    BY <1>0, <2>0, <2>3, <2>4 DEF AdmissionTypeOK
<1> QED
  BY <1>1, <1>2, <1>3, <1>4, <1>5, <1>6 DEF AdmissionNext, Serve

\* The row a process inserts is about a request that had no row: it was being
\* served until now, and every row is about a request that is over.
LEMMA NewRow ==
  ASSUME Shape, NEW p \in Procs, call[p].at = "insert", ~Taken(call[p]), Goto(p, Idle),
         UNCHANGED serial, NEW o, o = call[p].content.of
  PROVE  /\ o \in Procs \X (1..MaxCalls) /\ ~Done(o) /\ Done(o)'
         /\ \A e \in table : e.seq # call[p].seq /\ e.content.of # o
<1>1. o = <<p, serial[p]>> /\ call[p] # Idle /\ serial[p] \in 1..MaxCalls
  BY DEF Shape, Serving, Idle
<1>2. ~Done(o)
  BY <1>1 DEF Done
<1>3. call'[p] = Idle
  BY GotoFacts DEF Shape
<1>4. Done(o)'
  BY <1>1, <1>3 DEF Done
<1> QED
  BY <1>1, <1>2, <1>4 DEF Taken, Shape, RowsSound

\* A step either leaves the table alone, adds the row of a process that stops
\* serving, or cuts its tail.
LEMMA TableMoves ==
  ASSUME AdmissionTypeOK, [AdmissionNext]_admissionVars, table' # table
  PROVE  \/ Truncate
         \/ \E p \in Procs : /\ call[p].at = "insert" /\ ~Taken(call[p]) /\ Goto(p, Idle)
                             /\ table' = table \cup {Entry(call[p])}
                             /\ UNCHANGED <<serial, anchors, cut>>
BY DEF AdmissionNext, admissionVars, Tick, Anchor, Serve, Start, Trim, Count, Add, LimiterFails,
       Verify, DenyShadow, ReadHead,
       Insert, Contend, ConnectionLost

LEMMA ShapeRows ==
  ASSUME Shape, [AdmissionNext]_admissionVars
  PROVE  RowsSound' /\ HasHead'
<1>0. \A e \in table : e.seq \in Nat \ {0} /\ e.content.of \in Procs \X (1..MaxCalls)
  BY DEF Shape, AdmissionTypeOK, Content
<1>1. \A o \in Procs \X (1..MaxCalls) : Done(o) => Done(o)'
  BY DoneStays
<1>2. CASE table' = table
  <2>1. RowsSound'
    BY <1>0, <1>1, <1>2 DEF RowsSound, Shape
  <2> QED
    BY <1>2, <2>1 DEF HasHead, Shape
<1>3. CASE Truncate
  <2>1. PICK n \in 0..(HeadSeq - 1) : table' = {e \in table : e.seq <= n}
    BY <1>3 DEF Truncate
  <2>2. RowsSound'
    BY <1>0, <1>1, <2>1 DEF RowsSound, Shape
  <2>3. HasHead'
    <3>1. ASSUME NEW d \in table' PROVE n \in 1..HeadSeq
      <4>1. d.seq \in Nat \ {0} /\ d.seq <= n
        BY <1>0, <2>1
      <4> QED
        BY <2>1, <4>1, HeadFacts
    <3>2. ASSUME NEW d \in table' PROVE \E e \in table : e.seq = n
      <4>1. n \in 1..HeadSeq /\ table # {} /\ ~cut
        BY <1>3, <2>1, <3>1 DEF Truncate
      <4>2. PICK h \in table : h.seq = HeadSeq
        BY <4>1, HeadFacts
      <4> QED
        BY <4>1, <4>2 DEF Shape, ChainSound
    <3> QED
      BY <2>1, <3>2 DEF HasHead
  <2> QED
    BY <2>2, <2>3
<1>4. ASSUME NEW p \in Procs, call[p].at = "insert", ~Taken(call[p]), Goto(p, Idle),
             table' = table \cup {Entry(call[p])}, UNCHANGED serial
      PROVE  RowsSound' /\ HasHead'
  <2>1. PICK n : n = Entry(call[p])
    OBVIOUS
  <2>2. /\ n.seq = call[p].seq /\ n.content = call[p].content
        /\ n.hash = Hash(n.seq, n.prev, n.content)
    BY <2>1 DEF Entry
  <2>3. /\ n.content.of \in Procs \X (1..MaxCalls) /\ Done(n.content.of)'
        /\ \A e \in table : e.seq # n.seq /\ e.content.of # n.content.of
    BY <1>4, <2>2, NewRow
  <2>4. RowsSound'
    BY <1>0, <1>1, <1>4, <2>1, <2>2, <2>3 DEF RowsSound, Shape
  <2>5. n.seq \in Nat
    BY <1>4, <2>2 DEF Shape, AdmissionTypeOK, CallTypeOK, Idle
  <2>6. HasHead'
    <3>1. CASE table = {}
      BY <1>4, <2>1, <2>5, <3>1 DEF HasHead
    <3>2. CASE table # {}
      <4>1. PICK e \in table : \A d \in table : d.seq <= e.seq
        BY <3>2 DEF HasHead, Shape
      <4> QED
        BY <1>0, <1>4, <2>1, <2>5, <4>1 DEF HasHead
    <3> QED
      BY <3>1, <3>2
  <2> QED
    BY <2>4, <2>6
<1> QED
  BY <1>2, <1>3, <1>4, TableMoves DEF Shape

LEMMA ShapeChain ==
  ASSUME Shape, [AdmissionNext]_admissionVars
  PROVE  ChainSound'
<1> SUFFICES ASSUME ~cut'
             PROVE  /\ \A e \in table' : Behind(e)' /\ \A k \in 1..e.seq : \E d \in table' : d.seq = k
                    /\ \A p \in Procs : call'[p].at = "insert" => Behind(call[p])'
  BY DEF ChainSound
<1>0. /\ ~cut /\ ~Truncate
      /\ \A e \in table : e.seq \in Nat \ {0}
      /\ \A e \in table : Behind(e) /\ \A k \in 1..e.seq : \E d \in table : d.seq = k
      /\ \A p \in Procs : call[p].at = "insert" => Behind(call[p])
  <2>1. ~Truncate
    BY Zenon DEF Truncate
  <2>2. UNCHANGED cut
    BY <2>1 DEF AdmissionNext, admissionVars, Tick, Anchor, Serve, Start, Trim, Count, Add, LimiterFails,
       Verify, DenyShadow, ReadHead, Insert, Contend, ConnectionLost
  <2>3. ~cut
    BY <2>2, Zenon
  <2> QED
    BY <2>1, <2>3 DEF Shape, ChainSound, AdmissionTypeOK
<1>1. table \subseteq table'
  BY <1>0, TableMoves DEF Shape
<1>2. \A c : Behind(c) => Behind(c)'
  BY <1>1 DEF Behind
<1>3. ASSUME NEW e \in table' PROVE Behind(e)' /\ \A k \in 1..e.seq : \E d \in table' : d.seq = k
  <2>1. CASE e \in table
    BY <1>0, <1>1, <1>2, <2>1
  <2>2. CASE e \notin table
    <3>1. PICK p \in Procs : call[p].at = "insert" /\ table' = table \cup {Entry(call[p])}
      BY <1>0, <2>2, TableMoves DEF Shape
    <3>2. e.seq = call[p].seq /\ e.prev = call[p].prev /\ e.seq \in Nat \ {0}
      BY <2>2, <3>1 DEF Entry, Shape, AdmissionTypeOK, CallTypeOK, Idle
    <3>3. Behind(call[p])
      BY <1>0, <3>1
    <3>4. Behind(e)
      BY <3>2, <3>3 DEF Behind
    <3>5. ASSUME NEW k \in 1..e.seq PROVE \E d \in table' : d.seq = k
      <4>1. CASE k = e.seq
        BY <4>1
      <4>2. CASE k # e.seq
        <5>1. PICK d \in table : d.seq = e.seq - 1
          BY <3>2, <3>4, <4>2 DEF Behind
        <5>2. k \in 1..d.seq
          BY <3>2, <4>2, <5>1
        <5> QED
          BY <1>0, <1>1, <5>2
      <4> QED
        BY <4>1, <4>2
    <3> QED
      BY <1>2, <3>4, <3>5
  <2> QED
    BY <2>1, <2>2
<1>4. ASSUME NEW p \in Procs, call'[p].at = "insert" PROVE Behind(call[p])'
  <2>1. CASE call'[p] = call[p]
    BY <1>0, <1>2, <1>4, <2>1 DEF Behind
  <2>2. CASE call'[p] # call[p]
    <3>1. ReadHead(p)
      <4>1. PICK q \in Procs : Serve(q)
        BY <2>2 DEF AdmissionNext, admissionVars, Tick, Anchor, Truncate
      <4>2. \E c : Goto(q, c)
        BY <4>1 DEF Serve, Start, Trim, Count, Add, LimiterFails,
       Verify, DenyShadow, ReadHead, Insert, Contend, ConnectionLost
      <4>3. q = p
        BY <2>2, <4>2, GotoFacts DEF Shape
      <4>4. ASSUME NEW c, Goto(p, c) PROVE c.at = "insert"
        BY <1>4, <4>4, GotoFacts DEF Shape
      <4>5. call[p].at \in {"trim", "count", "add"} =>
              \A at \in {"count", "add", "verify"} : [call[p] EXCEPT !.at = at].at = at
        BY DEF Shape, AdmissionTypeOK, CallTypeOK, Idle
      <4>6. /\ ~Goto(p, Idle) /\ ~Goto(p, Audit(p))
            /\ \A t : ~Goto(p, [at |-> "trim", now |-> t])
            /\ \A n, x : ~Goto(p, [at |-> "read", attempt |-> n, content |-> x])
        BY <4>4 DEF Idle, Audit
      <4>7. call[p].at \in {"trim", "count", "add"} =>
              \A at \in {"count", "add", "verify"} : ~Goto(p, [call[p] EXCEPT !.at = at])
        BY <4>4, <4>5
      <4> QED
        BY <4>1, <4>3, <4>6, <4>7 DEF Serve, Start, Trim, Count, Add, LimiterFails,
       Verify, DenyShadow, Insert, Contend, ConnectionLost
    <3>2. /\ call'[p].seq = HeadSeq + 1 /\ call'[p].prev = HeadHash /\ table' = table
      BY <3>1, GotoFacts DEF ReadHead, Shape
    <3>3. CASE table = {}
      BY <3>2, <3>3, HeadFacts DEF Behind
    <3>4. CASE table # {}
      <4>1. PICK e \in table : e.seq = HeadSeq /\ e.hash = HeadHash
        BY <3>4, HeadFacts
      <4>2. call'[p].seq - 1 = HeadSeq
        BY <3>2, HeadFacts
      <4> QED
        BY <3>2, <4>1, <4>2 DEF Behind
    <3> QED
      BY <3>3, <3>4
  <2> QED
    BY <2>1, <2>2
<1> QED
  BY <1>3, <1>4

-----------------------------------------------------------------------------
(* Admission: the anchors and the answers.                                 *)

\* An anchor of a log with rows is the hash of a row whose request is over, so that
\* row cannot be written again: an anchor that was lost matches nothing.  Before
\* anything is deleted every such anchor matches, and every answered request has its
\* row, but for the denials into the shadow state.
AnchorsSound ==
  /\ \A a \in anchors : a.seq # 0 =>
       /\ a.hash = Hash(a.seq, a.hash[2], a.hash[3])
       /\ a.hash[3].of \in Procs \X (1..MaxCalls) /\ Done(a.hash[3].of)
       /\ a.lost => \A e \in table : e.hash # a.hash
  /\ ~cut => /\ \A a \in anchors : a.seq # 0 => AnchorMatches(a)
             /\ \A r \in answered \ shadowed : \E e \in table : e.content.of = r

\* A request that was denied into the shadow state is over and has no row.
ShadowSound == \A r \in shadowed : Done(r) /\ \A e \in table : e.content.of # r

AuditInv == Shape /\ AnchorsSound /\ ShadowSound

LEMMA HashFacts ==
  \A s, v, c, t, w, d : Hash(s, v, c) = Hash(t, w, d) <=> s = t /\ v = w /\ c = d
BY DEF Hash

LEMMA ShapeStep == Shape /\ [AdmissionNext]_admissionVars => Shape'
BY ShapeTypes, ShapeRows, ShapeChain DEF Shape

LEMMA AnchorsStep ==
  ASSUME AuditInv, [AdmissionNext]_admissionVars
  PROVE  AnchorsSound'
<1>0. /\ \A e \in table : /\ e.seq \in Nat \ {0} /\ e.content.of \in Procs \X (1..MaxCalls)
                          /\ e.hash = Hash(e.seq, e.prev, e.content) /\ Done(e.content.of)
      /\ \A a \in anchors : /\ DOMAIN a = {"seq", "hash", "lost"}
                            /\ a.seq \in Nat /\ a.lost \in BOOLEAN
  BY DEF AuditInv, Shape, RowsSound, AdmissionTypeOK, Content
<1>1. \A o \in Procs \X (1..MaxCalls) : Done(o) => Done(o)'
  BY DoneStays DEF AuditInv
<1>2. \A a \in anchors : a.seq # 0 =>
        /\ a.hash = Hash(a.seq, a.hash[2], a.hash[3])
        /\ a.hash[3].of \in Procs \X (1..MaxCalls)
        /\ Done(a.hash[3].of) /\ Done(a.hash[3].of)'
        /\ a.lost => \A e \in table : e.hash # a.hash
  BY <1>1 DEF AuditInv, AnchorsSound
<1>3. CASE Truncate
  <2>1. PICK n \in 0..(HeadSeq - 1) :
           /\ table' = {e \in table : e.seq <= n}
           /\ anchors' = {[a EXCEPT !.lost = @ \/ a.seq > n] : a \in anchors}
    BY <1>3 DEF Truncate
  <2>2. cut' = TRUE
    BY <1>3 DEF Truncate
  <2>3. ASSUME NEW b \in anchors', b.seq # 0
        PROVE  /\ b.hash = Hash(b.seq, b.hash[2], b.hash[3])
               /\ b.hash[3].of \in Procs \X (1..MaxCalls) /\ Done(b.hash[3].of)'
               /\ b.lost => \A e \in table' : e.hash # b.hash
    <3>1. PICK a \in anchors : b = [a EXCEPT !.lost = @ \/ a.seq > n]
      BY <2>1
    <3>2. /\ b.seq = a.seq /\ b.hash = a.hash
          /\ b.lost = (a.lost \/ a.seq > n)
      BY <1>0, <3>1
    <3>3. ASSUME a.seq > n, NEW e \in table' PROVE e.hash # a.hash
      <4>1. e \in table /\ e.seq # a.seq
        BY <1>0, <2>1, <3>3
      <4> QED
        BY <1>0, <1>2, <2>3, <3>2, <4>1, HashFacts
    <3> QED
      BY <1>2, <2>1, <2>3, <3>2, <3>3
  <2> QED
    BY <2>2, <2>3 DEF AnchorsSound
<1>4. CASE Anchor
  <2>1. PICK h : h = [seq |-> HeadSeq, hash |-> HeadHash, lost |-> FALSE]
    OBVIOUS
  <2>2. /\ h.seq = HeadSeq /\ h.hash = HeadHash /\ h.lost = FALSE
        /\ anchors' = anchors \cup {h} /\ UNCHANGED <<table, cut, answered, shadowed>>
    BY <1>4, <2>1 DEF Anchor
  <2>3. ASSUME h.seq # 0
        PROVE  /\ h.hash = Hash(h.seq, h.hash[2], h.hash[3])
               /\ h.hash[3].of \in Procs \X (1..MaxCalls) /\ Done(h.hash[3].of)'
               /\ ~h.lost /\ \E d \in table : d.seq = h.seq /\ d.hash = h.hash
    <3>1. PICK e \in table : e.seq = HeadSeq /\ e.hash = HeadHash
      BY <2>2, <2>3, HeadFacts DEF AuditInv
    <3>2. h.hash[2] = e.prev /\ h.hash[3] = e.content
      BY <1>0, <2>2, <3>1 DEF Hash
    <3> QED
      BY <1>0, <1>1, <2>2, <3>1, <3>2
  <2> QED
    BY <1>2, <2>2, <2>3 DEF AnchorsSound, AnchorMatches, AuditInv
<1>5. CASE ~Truncate /\ ~Anchor
  <2>1. UNCHANGED <<anchors, cut>> /\ table \subseteq table'
    <3>1. UNCHANGED <<anchors, cut>>
      BY <1>5 DEF AdmissionNext, admissionVars, Tick, Serve, Start, Trim, Count, Add, LimiterFails,
       Verify, DenyShadow, ReadHead, Insert, Contend, ConnectionLost
    <3> QED
      BY <1>5, <3>1, TableMoves DEF AuditInv, Shape
  <2>2. ASSUME NEW a \in anchors, a.seq # 0, a.lost, NEW e \in table' PROVE e.hash # a.hash
    <3>1. CASE e \in table
      BY <1>2, <2>2, <3>1
    <3>2. CASE e \notin table
      <4>1. PICK p \in Procs : /\ call[p].at = "insert" /\ ~Taken(call[p]) /\ Goto(p, Idle)
                               /\ table' = table \cup {Entry(call[p])}
                               /\ UNCHANGED serial
        BY <1>5, <3>2, TableMoves DEF AuditInv, Shape
      <4>2. e.hash = Hash(call[p].seq, call[p].prev, call[p].content)
        BY <3>2, <4>1 DEF Entry
      <4>3. ~Done(call[p].content.of)
        BY <4>1, NewRow DEF AuditInv
      <4> QED
        BY <1>2, <2>2, <4>2, <4>3, HashFacts
    <3> QED
      BY <3>1, <3>2
  <2>3. ASSUME ~cut, NEW r \in answered' \ shadowed' PROVE \E e \in table' : e.content.of = r
    <3>0. shadowed \subseteq shadowed'
      BY <1>5 DEF AdmissionNext, admissionVars, Tick, Serve, Start, Trim, Count, Add, LimiterFails,
              Verify, DenyShadow, ReadHead, Insert, Contend, ConnectionLost
    <3>1. CASE r \in answered
      BY <2>1, <2>3, <3>0, <3>1 DEF AuditInv, AnchorsSound
    <3>2. CASE r \notin answered
      <4>1. PICK p \in Procs : Insert(p)
        BY <1>5, <2>3, <3>2 DEF AdmissionNext, admissionVars, Tick, Serve, Start, Trim, Count, Add,
              LimiterFails, Verify, DenyShadow, ReadHead, Contend, ConnectionLost
      <4>2. r = call[p].content.of /\ Entry(call[p]) \in table'
        BY <2>3, <3>2, <4>1 DEF Insert
      <4> QED
        BY <4>2 DEF Entry
    <3> QED
      BY <3>1, <3>2
  <2>4. ~cut' => \A a \in anchors' : a.seq # 0 => AnchorMatches(a)'
    BY <2>1 DEF AuditInv, AnchorsSound, AnchorMatches
  <2>5. ~cut' => \A r \in answered' \ shadowed' : \E e \in table' : e.content.of = r
    BY <2>1, <2>3
  <2>6. \A a \in anchors' : a.seq # 0 =>
          /\ a.hash = Hash(a.seq, a.hash[2], a.hash[3])
          /\ a.hash[3].of \in Procs \X (1..MaxCalls) /\ Done(a.hash[3].of)'
          /\ a.lost => \A e \in table' : e.hash # a.hash
    BY <1>2, <2>1, <2>2
  <2> QED
    BY <2>4, <2>5, <2>6 DEF AnchorsSound
<1> QED
  BY <1>3, <1>4, <1>5

\* The request that is denied had no row, and the request that gets a row was not
\* over, so it was not denied.
LEMMA ShadowStep ==
  ASSUME AuditInv, [AdmissionNext]_admissionVars
  PROVE  ShadowSound'
<1>0. shadowed \subseteq Procs \X (1..MaxCalls)
  BY DEF AuditInv, Shape, AdmissionTypeOK
<1>1. ASSUME NEW r \in shadowed PROVE Done(r) /\ Done(r)' /\ \A e \in table : e.content.of # r
  BY <1>0, <1>1, DoneStays DEF AuditInv, ShadowSound
<1>2. ASSUME NEW r \in shadowed, NEW e \in table' PROVE e.content.of # r
  <2>1. CASE e \in table
    BY <1>1, <1>2, <2>1
  <2>2. CASE e \notin table
    <3>1. ~Truncate
      BY <2>2 DEF Truncate
    <3>2. PICK p \in Procs : /\ call[p].at = "insert" /\ ~Taken(call[p]) /\ Goto(p, Idle)
                             /\ table' = table \cup {Entry(call[p])}
                             /\ UNCHANGED serial
      BY <2>2, <3>1, TableMoves DEF AuditInv, Shape
    <3>3. e.content = call[p].content
      BY <2>2, <3>2 DEF Entry
    <3>4. ~Done(call[p].content.of)
      BY <3>2, NewRow DEF AuditInv
    <3> QED
      BY <1>1, <1>2, <3>3, <3>4
  <2> QED
    BY <2>1, <2>2
<1>3. ASSUME NEW p \in Procs, DenyShadow(p) PROVE ShadowSound'
  <2>1. PICK o : o = <<p, serial[p]>>
    OBVIOUS
  <2>2. /\ shadowed' = shadowed \cup {o} /\ UNCHANGED <<serial, table>>
        /\ call[p].at = "verify" /\ Goto(p, Idle)
    BY <1>3, <2>1 DEF DenyShadow
  <2>3. call[p] # Idle /\ serial[p] \in 1..MaxCalls
    BY <2>2 DEF AuditInv, Shape, Serving, Idle
  <2>4. ~Done(o)
    BY <2>1, <2>3 DEF Done
  <2>5. call'[p] = Idle
    BY <2>2, GotoFacts DEF AuditInv, Shape
  <2>6. Done(o)'
    BY <2>1, <2>2, <2>5 DEF Done
  <2>7. \A e \in table : e.content.of # o
    BY <2>4 DEF AuditInv, Shape, RowsSound
  <2> QED
    BY <1>1, <2>2, <2>6, <2>7 DEF ShadowSound
<1>4. CASE shadowed' = shadowed
  BY <1>1, <1>2, <1>4 DEF ShadowSound
<1> QED
  BY <1>3, <1>4 DEF AdmissionNext, admissionVars, Tick, Anchor, Truncate, Serve, Start, Trim, Count,
     Add, LimiterFails, Verify, ReadHead, Insert, Contend, ConnectionLost

LEMMA AuditFollows == AuditInv => AuditTrailSound
<1> SUFFICES ASSUME AuditInv PROVE AuditTrailSound
  OBVIOUS
<1>1. ASSUME ~cut PROVE Linked
  <2> SUFFICES ASSUME NEW e \in table
               PROVE  /\ e.hash = Hash(e.seq, e.prev, e.content)
                      /\ \A d \in table : d.seq <= e.seq => d = e \/ d.seq < e.seq
                      /\ e.seq > Min({d.seq : d \in table}) =>
                           \E d \in table : d.seq = e.seq - 1 /\ e.prev = d.hash
    BY DEF Linked
  <2>0. \A d \in table : d.seq \in Nat \ {0}
    BY DEF AuditInv, Shape, AdmissionTypeOK
  <2>1. e.hash = Hash(e.seq, e.prev, e.content)
    BY DEF AuditInv, Shape, RowsSound
  <2>2. \A d \in table : d.seq <= e.seq => d = e \/ d.seq < e.seq
    BY <2>0 DEF AuditInv, Shape, RowsSound
  <2>3. Behind(e)
    BY <1>1 DEF AuditInv, Shape, ChainSound
  <2>4. CASE e.seq = 1
    <3> DEFINE seqs == {d.seq : d \in table}
    <3>1. 1 \in seqs /\ \A y \in seqs : y \in Nat /\ 1 =< y
      BY <2>0, <2>4
    <3>2. Min(seqs) \in seqs /\ \A y \in seqs : Min(seqs) =< y
      <4> HIDE DEF seqs
      <4> QED
        BY <3>1 DEF Min
    <3>3. ~(e.seq > Min(seqs))
      <4> HIDE DEF seqs
      <4> QED
        BY <2>4, <3>1, <3>2
    <3> QED
      BY <2>1, <2>2, <3>3
  <2>5. CASE e.seq # 1
    BY <2>1, <2>2, <2>3, <2>5 DEF Behind
  <2> QED
    BY <2>4, <2>5
<1>2. ~cut => \A e \in table : e.seq = 1 => e.prev = Genesis
  <2>1. \A e \in table : e.seq \in Nat \ {0}
    BY DEF AuditInv, Shape, AdmissionTypeOK
  <2> QED
    BY <2>1 DEF AuditInv, Shape, ChainSound, Behind
<1>3. ~cut => /\ \A a \in anchors : a.seq > 0 => Valid(a)
              /\ \A r \in answered \ shadowed : \E e \in table : e.content.of = r
  BY <1>1 DEF AuditInv, AnchorsSound, Valid, Shape, AdmissionTypeOK
<1>4. \A a \in anchors : a.lost \/ a.seq = 0 => ~Valid(a)
  <2>1. \A e \in table : e.seq # 0
    BY DEF AuditInv, Shape, AdmissionTypeOK
  <2> QED
    BY <2>1 DEF AuditInv, AnchorsSound, Valid, AnchorMatches
<1>5. /\ \A e \in table : e.content.of \notin shadowed
      /\ \A d, e \in table : d.content.of = e.content.of => d = e
  BY DEF AuditInv, ShadowSound, Shape, RowsSound
<1> QED
  BY <1>1, <1>2, <1>3, <1>4, <1>5 DEF AuditTrailSound

LEMMA AuditStarts == AdmissionInit => AuditInv
<1> SUFFICES ASSUME AdmissionInit PROVE AuditInv
  OBVIOUS
<1>1. \A p \in Procs : call[p] = Idle /\ CallTypeOK(call[p])
  BY DEF AdmissionInit, CallTypeOK
<1>2. AdmissionTypeOK
  <2>1. 0 \in Times /\ 0 \in 0..MaxCalls
    BY AdmissionAssumption DEF Times
  <2> QED
    BY <1>1, <2>1 DEF AdmissionInit, AdmissionTypeOK
<1>4. Serving
  BY <1>1 DEF Serving, Idle
<1>3. RowsSound /\ HasHead /\ ChainSound /\ AnchorsSound /\ ShadowSound
  BY <1>1 DEF AdmissionInit, RowsSound, HasHead, ChainSound, AnchorsSound, ShadowSound, Idle
<1> QED
  BY <1>2, <1>3, <1>4 DEF AuditInv, Shape

\* The audit log can be relied on with any number of processes writing to it
\* without a lock: the chain does not fork, every anchor of a log with rows verifies
\* until rows are deleted, a truncation below an anchor is noticed for good, and an
\* answered request left exactly one row, or none if it was denied into the shadow
\* state unaudited (PgAuditLog.write retries behind the new head; verifyEntries).
THEOREM AuditTrailIsSound == AdmissionSpec => []AuditTrailSound
<1>1. AuditInv /\ [AdmissionNext]_admissionVars => AuditInv'
  BY ShapeStep, AnchorsStep, ShadowStep DEF AuditInv
<1> QED
  BY <1>1, AuditStarts, AuditFollows, PTL DEF AdmissionSpec

-----------------------------------------------------------------------------
(* Admission: the limiter.                                                 *)

\* The processes that counted and did not add yet.
Adding == {p \in Procs : call[p].at = "add"}

\* Each of them will add one member; the last of them found room.
RoomTaken ==
  /\ IsFiniteSet(zset)
  /\ Cardinality(zset) + Cardinality(Adding) <= Limit + Cardinality(Procs) - 1

\* A call works with the present or an earlier time.
ClockRead == \A p \in Procs : call[p].at \in {"trim", "count", "add"} => call[p].now <= now

\* What passed is still in the set while it is in the window that ends now.
StillHeld == \A m \in allowed : m.score <= now /\ (m.score > now - Window => m \in zset)

WindowsBounded ==
  \A t \in Times : /\ IsFiniteSet(AllowedIn(t))
                   /\ Cardinality(AllowedIn(t)) <= Limit + Cardinality(Procs) - 1

LimiterInv == Shape /\ RoomTaken /\ ClockRead /\ StillHeld /\ WindowsBounded

\* Steps of the log and of the clock.
LEMMA LimiterIdles ==
  ASSUME LimiterInv, Shape', UNCHANGED <<zset, allowed>>, now' \in {now, now + 1},
         \A p \in Procs : \/ call'[p] = call[p]
                          \/ call'[p].at \notin {"trim", "count", "add"}
                          \/ call'[p].at = "trim" /\ call'[p].now = now
  PROVE  LimiterInv'
<1>0. /\ now \in Nat /\ Window \in Nat /\ Limit \in Nat /\ IsFiniteSet(Procs)
      /\ \A m \in allowed : m.score \in Nat
      /\ \A p \in Procs : call[p].at \in {"trim", "count", "add"} => call[p].now \in Nat
  BY AdmissionAssumption DEF LimiterInv, Shape, AdmissionTypeOK, CallTypeOK, Idle, Times, Members
<1>1. Adding' \subseteq Adding /\ IsFiniteSet(Adding)
  BY <1>0, FS_Subset DEF Adding
<1>2. /\ Cardinality(Adding') \in Nat /\ Cardinality(Adding) \in Nat
      /\ Cardinality(Adding') <= Cardinality(Adding)
  BY <1>1, FS_Subset, FS_CardinalityType
<1>3. Cardinality(zset) \in Nat /\ Cardinality(Procs) \in Nat
  BY <1>0, FS_CardinalityType DEF LimiterInv, RoomTaken
<1>4. RoomTaken'
  BY <1>0, <1>2, <1>3 DEF LimiterInv, RoomTaken
<1>5. ClockRead'
  <2> SUFFICES ASSUME NEW p \in Procs, call'[p].at \in {"trim", "count", "add"}
               PROVE  call'[p].now <= now'
    BY DEF ClockRead
  <2>1. CASE call'[p] = call[p]
    <3>1. call[p].now <= now /\ call[p].now \in Nat
      BY <1>0, <2>1 DEF LimiterInv, ClockRead
    <3>2. now' \in Nat /\ now <= now'
      BY <1>0
    <3> QED
      BY <1>0, <2>1, <3>1, <3>2
  <2>2. CASE call'[p] # call[p]
    BY <1>0, <2>2
  <2> QED
    BY <2>1, <2>2
<1>6. StillHeld'
  BY <1>0 DEF LimiterInv, StillHeld
<1>7. WindowsBounded'
  BY DEF LimiterInv, WindowsBounded, AllowedIn
<1> QED
  BY <1>4, <1>5, <1>6, <1>7 DEF LimiterInv

\* A trim, answered or failed.
LEMMA TrimHolds ==
  ASSUME LimiterInv, Shape', NEW p \in Procs, call[p].at = "trim", UNCHANGED <<allowed, now>>,
         zset' = Trimmed(p), NEW c, Goto(p, c),
         c = Idle \/ c = [call[p] EXCEPT !.at = "count"]
  PROVE  LimiterInv'
<1>0. /\ now \in Nat /\ Window \in Nat /\ Limit \in Nat
      /\ \A m \in zset \cup allowed : m.score \in Nat
  BY AdmissionAssumption DEF LimiterInv, Shape, AdmissionTypeOK, Times, Members
<1>1. call[p] \in [at : {"trim"}, now : Times] /\ call[p].now <= now /\ call[p].now \in Nat
  BY DEF LimiterInv, Shape, AdmissionTypeOK, CallTypeOK, Idle, ClockRead, Times
<1>2. /\ call'[p] = c
      /\ \A q \in Procs \ {p} : call'[q] = call[q]
  BY GotoFacts DEF LimiterInv, Shape
<1>3. call'[p].at = "idle" \/ (call'[p].at = "count" /\ call'[p].now = call[p].now)
  BY <1>1, <1>2 DEF Idle
<1>4. Adding' = Adding
  BY <1>1, <1>2, <1>3 DEF Adding
<1>5. zset' \subseteq zset /\ UNCHANGED <<allowed, now>>
  BY DEF Trimmed
<1>6. RoomTaken'
  <2>1. IsFiniteSet(zset') /\ Cardinality(zset') <= Cardinality(zset)
    BY <1>5, FS_Subset DEF LimiterInv, RoomTaken
  <2>2. /\ Cardinality(zset') \in Nat /\ Cardinality(zset) \in Nat /\ Cardinality(Adding) \in Nat
        /\ Cardinality(Procs) \in Nat
    BY <2>1, FS_CardinalityType, FS_Subset, AdmissionAssumption DEF LimiterInv, RoomTaken, Adding
  <2> QED
    BY <1>0, <1>4, <2>1, <2>2 DEF LimiterInv, RoomTaken
<1>7. ClockRead'
  BY <1>1, <1>2, <1>3, <1>5 DEF LimiterInv, ClockRead
<1>8. StillHeld'
  <2>1. ASSUME NEW m \in allowed, m.score > now - Window PROVE m \in zset'
    <3>1. m \in zset /\ m.score > call[p].now - Window
      BY <1>0, <1>1, <2>1 DEF LimiterInv, StillHeld
    <3> QED
      BY <3>1 DEF Trimmed
  <2> QED
    BY <1>5, <2>1 DEF LimiterInv, StillHeld
<1>9. WindowsBounded'
  BY <1>5 DEF LimiterInv, WindowsBounded, AllowedIn
<1> QED
  BY <1>6, <1>7, <1>8, <1>9 DEF LimiterInv

\* The process that finds room is counted among those that add.
LEMMA CountHolds ==
  ASSUME LimiterInv, Shape', NEW p \in Procs, Count(p), Cardinality(zset) < Limit
  PROVE  LimiterInv'
<1>0. /\ Limit \in Nat /\ IsFiniteSet(Procs) /\ Cardinality(Procs) \in Nat
      /\ IsFiniteSet(zset) /\ Cardinality(zset) \in Nat
  BY AdmissionAssumption, FS_CardinalityType DEF LimiterInv, RoomTaken
<1>1. call[p] \in [at : {"count"}, now : Times]
  BY DEF Count, LimiterInv, Shape, AdmissionTypeOK, CallTypeOK, Idle
<1>2. /\ call'[p] = [call[p] EXCEPT !.at = "add"]
      /\ \A q \in Procs \ {p} : call'[q] = call[q]
  <2>1. Goto(p, [call[p] EXCEPT !.at = "add"])
    BY <1>0 DEF Count
  <2> QED
    BY <2>1, GotoFacts DEF LimiterInv, Shape
<1>3. call'[p].at = "add" /\ call'[p].now = call[p].now
  BY <1>1, <1>2
<1>4. UNCHANGED <<zset, allowed, now>>
  BY DEF Count
<1>5. RoomTaken'
  <2>1. Adding' \subseteq Procs
    BY DEF Adding
  <2>2. Cardinality(Adding') <= Cardinality(Procs) /\ Cardinality(Adding') \in Nat
    BY <1>0, <2>1, FS_Subset, FS_CardinalityType
  <2> QED
    BY <1>0, <1>4, <2>2 DEF RoomTaken
<1>6. ClockRead'
  BY <1>1, <1>2, <1>3, <1>4 DEF LimiterInv, ClockRead
<1>7. StillHeld' /\ WindowsBounded'
  BY <1>4 DEF LimiterInv, StillHeld, WindowsBounded, AllowedIn
<1> QED
  BY <1>5, <1>6, <1>7 DEF LimiterInv

\* An add, answered or failed; only one that is answered lets the request pass.
LEMMA AddHolds ==
  ASSUME LimiterInv, Shape', NEW p \in Procs, call[p].at = "add", UNCHANGED now,
         zset' = zset \cup {Member(p)},
         allowed' \in {allowed, IF call[p].now = now THEN allowed \cup {Member(p)} ELSE allowed},
         NEW c, Goto(p, c), c.at \in {"idle", "verify"}
  PROVE  LimiterInv'
<1>0. /\ now \in Nat /\ Window \in Nat \ {0} /\ Limit \in Nat
      /\ IsFiniteSet(Procs) /\ Cardinality(Procs) \in Nat
      /\ IsFiniteSet(zset) /\ Cardinality(zset) \in Nat
      /\ \A m \in allowed : m.score \in Nat
      /\ call[p].at = "add" /\ call[p].now <= now /\ call[p].now \in Nat
  BY AdmissionAssumption, FS_CardinalityType
     DEF LimiterInv, RoomTaken, Shape, AdmissionTypeOK, Times, Members, ClockRead, CallTypeOK, Idle
<1>1. PICK m : m = Member(p)
  OBVIOUS
<1>2. /\ m.score = call[p].now /\ zset' = zset \cup {m}
      /\ allowed' = allowed \/ (call[p].now = now /\ allowed' = allowed \cup {m})
      /\ now' = now
  BY <1>1 DEF Member
<1>3. /\ call'[p] = c /\ call'[p].at \in {"idle", "verify"}
      /\ \A q \in Procs \ {p} : call'[q] = call[q]
  BY GotoFacts DEF LimiterInv, Shape
<1>4. RoomTaken'
  <2>0. IsFiniteSet(Adding)
    BY <1>0, FS_Subset DEF Adding
  <2>1. Adding' = Adding \ {p} /\ p \in Adding
    <3>1. \A q \in Procs : call'[q].at = "add" <=> call[q].at = "add" /\ q # p
      BY <1>3
    <3> QED
      BY <1>0, <3>1 DEF Adding
  <2>2. Cardinality(Adding') = Cardinality(Adding) - 1 /\ Cardinality(Adding) \in Nat
    BY <2>0, <2>1, FS_RemoveElement, FS_CardinalityType
  <2>3. /\ IsFiniteSet(zset') /\ Cardinality(zset') \in Nat
        /\ Cardinality(zset') <= Cardinality(zset) + 1
    <3>1. IsFiniteSet(zset') /\ Cardinality(zset') \in {Cardinality(zset), Cardinality(zset) + 1}
      BY <1>0, <1>2, FS_AddElement
    <3> QED
      BY <1>0, <3>1
  <2> QED
    BY <1>0, <2>2, <2>3 DEF LimiterInv, RoomTaken
<1>5. ClockRead'
  BY <1>2, <1>3 DEF LimiterInv, ClockRead
<1>6. StillHeld'
  BY <1>0, <1>2 DEF LimiterInv, StillHeld
<1>7. WindowsBounded'
  <2> SUFFICES ASSUME NEW t \in Times
               PROVE  /\ IsFiniteSet(AllowedIn(t)')
                      /\ Cardinality(AllowedIn(t)') <= Limit + Cardinality(Procs) - 1
    BY DEF WindowsBounded
  <2>0. t \in Nat
    BY DEF Times
  <2>1. CASE t < now
    <3>1. AllowedIn(t)' = AllowedIn(t)
      BY <1>0, <1>2, <2>0, <2>1 DEF AllowedIn
    <3> QED
      BY <3>1 DEF LimiterInv, WindowsBounded
  <2>2. CASE t >= now
    <3>1. AllowedIn(t)' \subseteq zset'
      BY <1>0, <1>2, <1>6, <2>0, <2>2 DEF AllowedIn, StillHeld
    <3>2. /\ IsFiniteSet(zset') /\ Cardinality(zset') \in Nat
          /\ Cardinality(zset') <= Limit + Cardinality(Procs) - 1
      <4>1. IsFiniteSet(Adding') /\ IsFiniteSet(zset')
        BY <1>0, <1>4, FS_Subset DEF Adding, RoomTaken
      <4>2. Cardinality(Adding') \in Nat /\ Cardinality(zset') \in Nat
        BY <4>1, FS_CardinalityType
      <4> QED
        BY <1>0, <1>4, <4>1, <4>2 DEF RoomTaken
    <3>3. IsFiniteSet(AllowedIn(t)') /\ Cardinality(AllowedIn(t)') <= Cardinality(zset')
      BY <3>1, <3>2, FS_Subset
    <3>4. Cardinality(AllowedIn(t)') \in Nat
      BY <3>3, FS_CardinalityType
    <3> QED
      BY <1>0, <3>2, <3>3, <3>4
  <2> QED
    BY <1>0, <2>0, <2>1, <2>2
<1> QED
  BY <1>4, <1>5, <1>6, <1>7 DEF LimiterInv

\* The limiter is not atomic, yet its set never holds more than Limit members
\* plus one for every other process, and no window lets more requests through in
\* the instant they came, however late a slow process trims, counts and adds
\* (RedisRateLimiter.check).
THEOREM RateIsBounded == AdmissionSpec => []RateBounded
<1>1. AdmissionInit => LimiterInv
  <2> SUFFICES ASSUME AdmissionInit PROVE LimiterInv
    OBVIOUS
  <2>1. Shape
    BY AuditStarts DEF AuditInv
  <2>2. Adding = {} /\ \A t \in Times : AllowedIn(t) = {}
    BY DEF AdmissionInit, Adding, AllowedIn, Idle
  <2>3. Cardinality(Procs) \in Nat /\ Limit \in Nat \ {0}
    BY AdmissionAssumption, FS_CardinalityType
  <2>4. RoomTaken
    BY <2>2, <2>3, FS_EmptySet DEF AdmissionInit, RoomTaken
  <2>5. WindowsBounded
    BY <2>2, <2>3, FS_EmptySet DEF WindowsBounded
  <2> QED
    BY <2>1, <2>4, <2>5 DEF AdmissionInit, LimiterInv, ClockRead, StillHeld, Idle
<1>2. LimiterInv /\ [AdmissionNext]_admissionVars => LimiterInv'
  <2> SUFFICES ASSUME LimiterInv, [AdmissionNext]_admissionVars PROVE LimiterInv'
    OBVIOUS
  <2>1. Shape'
    BY ShapeStep DEF LimiterInv
  <2>2. CASE Tick \/ Anchor \/ Truncate \/ UNCHANGED admissionVars
    BY <2>1, <2>2, LimiterIdles DEF Tick, Anchor, Truncate, admissionVars
  <2>3. ASSUME NEW p \in Procs, UNCHANGED <<zset, allowed, now>>,
               \A q \in Procs \ {p} : call'[q] = call[q],
               \/ call'[p].at \notin {"trim", "count", "add"}
               \/ call'[p].at = "trim" /\ call'[p].now = now
        PROVE  LimiterInv'
    BY <2>1, <2>3, LimiterIdles
  <2>g. ASSUME NEW p \in Procs, NEW c, Goto(p, c)
        PROVE  call'[p] = c /\ \A q \in Procs \ {p} : call'[q] = call[q]
    BY <2>g, GotoFacts DEF LimiterInv, Shape
  <2>4. ASSUME NEW p \in Procs, Start(p) PROVE LimiterInv'
    <3>1. call'[p] = [at |-> "trim", now |-> now] /\ \A q \in Procs \ {p} : call'[q] = call[q]
      BY <2>4, <2>g DEF Start
    <3> QED
      BY <2>3, <2>4, <3>1 DEF Start
  <2>5. ASSUME NEW p \in Procs,
               \/ Verify(p) \/ DenyShadow(p)
               \/ ReadHead(p) \/ Insert(p) \/ Contend(p) \/ ConnectionLost(p)
        PROVE  LimiterInv'
    <3>1. call'[p].at \in {"idle", "read", "insert"} /\ \A q \in Procs \ {p} : call'[q] = call[q]
      BY <2>5, <2>g DEF Verify, Audit, DenyShadow, ReadHead, Insert, Contend, ConnectionLost, Idle
    <3> QED
      BY <2>3, <2>5, <3>1 DEF Verify, DenyShadow, ReadHead, Insert, Contend, ConnectionLost
  <2>7. ASSUME NEW p \in Procs, Trim(p) PROVE LimiterInv'
    BY <2>1, <2>7, TrimHolds DEF Trim
  <2>8. ASSUME NEW p \in Procs, Add(p) PROVE LimiterInv'
    <3>1. call[p] \in [at : {"add"}, now : Times]
      BY <2>8 DEF Add, LimiterInv, Shape, AdmissionTypeOK, CallTypeOK, Idle
    <3>2. PICK c : c = [call[p] EXCEPT !.at = "verify"]
      OBVIOUS
    <3>3. c.at = "verify" /\ Goto(p, c)
      BY <2>8, <3>1, <3>2 DEF Add
    <3> QED
      BY <2>1, <2>8, <3>3, AddHolds DEF Add
  <2>9. ASSUME NEW p \in Procs, LimiterFails(p) PROVE LimiterInv'
    <3>1. Goto(p, Idle) /\ Idle.at = "idle" /\ UNCHANGED <<allowed, now>>
      BY <2>9 DEF LimiterFails, Idle
    <3>2. CASE zset' = zset
      BY <2>3, <2>g, <3>1, <3>2
    <3>3. CASE call[p].at = "trim" /\ zset' = Trimmed(p)
      BY <2>1, <3>1, <3>3, TrimHolds
    <3>4. CASE call[p].at = "add" /\ zset' = zset \cup {Member(p)}
      BY <2>1, <3>1, <3>4, AddHolds
    <3> QED
      BY <2>9, <3>2, <3>3, <3>4 DEF LimiterFails
  <2>6. ASSUME NEW p \in Procs, Count(p) PROVE LimiterInv'
    <3>1. CASE Cardinality(zset) >= Limit
      <4>1. call'[p].at = "read" /\ \A q \in Procs \ {p} : call'[q] = call[q]
        BY <2>6, <2>g, <3>1 DEF Count, Audit
      <4> QED
        BY <2>3, <2>6, <4>1 DEF Count
    <3>2. CASE Cardinality(zset) < Limit
      BY <2>1, <2>6, <3>2, CountHolds
    <3>3. Cardinality(zset) \in Nat /\ Limit \in Nat
      BY AdmissionAssumption, FS_CardinalityType DEF LimiterInv, RoomTaken
    <3> QED
      BY <3>1, <3>2, <3>3
  <2> QED
    BY <2>2, <2>4, <2>5, <2>6, <2>7, <2>8, <2>9 DEF AdmissionNext, Serve
<1>3. LimiterInv => RateBounded
  <2> SUFFICES ASSUME LimiterInv PROVE RateBounded
    OBVIOUS
  <2>1. IsFiniteSet(Adding) /\ IsFiniteSet(zset) /\ IsFiniteSet(Procs)
    BY AdmissionAssumption, FS_Subset DEF Adding, LimiterInv, RoomTaken
  <2>2. /\ Cardinality(Adding) \in Nat /\ Cardinality(zset) \in Nat /\ Cardinality(Procs) \in Nat
        /\ Limit \in Nat
    BY <2>1, AdmissionAssumption, FS_CardinalityType
  <2> QED
    BY <2>2 DEF LimiterInv, RoomTaken, WindowsBounded, RateBounded
<1> QED
  BY <1>1, <1>2, <1>3, PTL DEF AdmissionSpec

=============================================================================
