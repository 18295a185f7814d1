------------------------------ MODULE Replication ------------------------------
(***************************************************************************)
(* The mirror of a pair store on a replica: ReplicatingPairStore on the    *)
(* primary, the ingest endpoint with its apply guard on the replica, and   *)
(* the promotion gate of the replica.                                      *)
(*                                                                         *)
(* A mutation (set, delete, setPending, deletePending) writes a key of the *)
(* store, a pair id or an enrolment token; deleting writes Absent.  It is  *)
(* three steps with an await between them: the write to the primary, the   *)
(* draw of a sequence number, and the enqueue, which also starts the       *)
(* drainer.  The sequence source is durable and gives each number once, so *)
(* a number stands for one operation and the replica never sees two        *)
(* operations under one number (the disposition "conflict").  Envelopes    *)
(* that fail validation or authentication, or that are no longer fresh,    *)
(* are answered with an error and have no effect: to the primary they are  *)
(* failed pushes.  Backoff is only a delay and is not modelled.            *)
(***************************************************************************)
EXTENDS Integers, Sequences, FiniteSets

CONSTANTS
  Writers,   \* concurrent callers of the store
  Keys,      \* pair ids and enrolment tokens
  Vals,      \* their contents
  Absent,    \* no entry
  MaxQueue,  \* maxQueue
  MaxOps,    \* bound on the mutations
  MaxFaults  \* bound on crashes, failed calls and failed writes of the replica

ASSUME ReplicationAssumption ==
  /\ Absent \notin Vals
  /\ MaxQueue \in Nat \ {0} /\ MaxOps \in Nat /\ MaxFaults \in Nat

VARIABLES
  primary,  \* the store of the primary
  wpc,      \* where the call of a writer is
  arg,      \* its mutation
  num,      \* the sequence number it drew
  overlapped, \* keys that two calls had written and not numbered at one time
  ops,      \* the mutation each sequence number was drawn for
  queue,    \* sequence numbers of the operations to push
  dpc,      \* the drainer: off, awaiting a push, or backing off
  cur,      \* the operation being pushed
  shed,     \* operations given to onDrop
  missed,   \* the primary crashed, or the sequence source failed a mutation
  late,     \* requests that reach the replica after their push failed
  replica,  \* the store of the replica
  last,     \* the last sequence number the apply guard accepted
  promoted, \* PromotionController.promoted
  own,      \* keys that clients of the promoted replica wrote
  faults    \* faults so far

callVars   == <<primary, wpc, arg, num, overlapped, ops>>
drainVars  == <<queue, dpc, cur, shed>>
ingestVars == <<replica, last>>
vars == <<callVars, drainVars, ingestVars, missed, late, promoted, own, faults>>

Contents == Vals \cup {Absent}
Op == [key: Keys, val: Contents]

TypeOK ==
  /\ primary \in [Keys -> Contents] /\ replica \in [Keys -> Contents]
  /\ wpc \in [Writers -> {"idle", "written", "drawn"}]
  /\ arg \in [Writers -> Op \cup {Absent}]
  /\ \A w \in Writers : wpc[w] = "written" => arg[w] \in Op
  /\ ops \in Seq(Op)
  /\ num \in [Writers -> 0..Len(ops)]
  /\ \A w \in Writers : wpc[w] = "drawn" => num[w] # 0
  /\ queue \in Seq(Nat) /\ Len(queue) <= MaxQueue
  /\ \A i \in DOMAIN queue : queue[i] \in 1..Len(ops)
  /\ dpc \in {"off", "await", "sleep"}
  /\ cur \in 0..Len(ops) /\ (dpc = "await" => cur # 0)
  /\ shed \subseteq 1..Len(ops) /\ late \subseteq 1..Len(ops)
  /\ last \in 0..Len(ops)
  /\ missed \in BOOLEAN /\ promoted \in BOOLEAN
  /\ own \subseteq Keys /\ overlapped \subseteq Keys
  /\ faults \in Nat

\* Both stores empty, nothing under way, the replica read-only.
Init ==
  /\ primary = [k \in Keys |-> Absent] /\ replica = [k \in Keys |-> Absent]
  /\ wpc = [w \in Writers |-> "idle"]
  /\ arg = [w \in Writers |-> Absent] /\ num = [w \in Writers |-> 0]
  /\ ops = <<>> /\ queue = <<>>
  /\ dpc = "off" /\ cur = 0
  /\ shed = {} /\ late = {} /\ last = 0
  /\ missed = FALSE /\ promoted = FALSE
  /\ own = {} /\ overlapped = {} /\ faults = 0

Fault == faults < MaxFaults /\ faults' = faults + 1

-----------------------------------------------------------------------------
(* The primary: a mutation.                                                *)

Mutating == {w \in Writers : wpc[w] = "written"}

\* Mutant: a deletion is mirrored and not made on the primary.
WriteKeepsDeleted(w, op) ==
  /\ wpc[w] = "idle"
  /\ Len(ops) + Cardinality(Mutating) < MaxOps
  /\ primary' = IF op.val = Absent THEN primary ELSE [primary EXCEPT ![op.key] = op.val]
  /\ wpc' = [wpc EXCEPT ![w] = "written"]
  /\ arg' = [arg EXCEPT ![w] = op]
  /\ overlapped' = overlapped \cup ({op.key} \cap {arg[v].key : v \in Mutating})
  /\ UNCHANGED <<num, ops, drainVars, ingestVars, missed, late, promoted, own, faults>>

\* set, delete, setPending, deletePending: the authoritative write comes first.
Write(w, op) ==
  /\ wpc[w] = "idle"
  /\ Len(ops) + Cardinality(Mutating) < MaxOps
  /\ primary' = [primary EXCEPT ![op.key] = op.val]
  /\ wpc' = [wpc EXCEPT ![w] = "written"]
  /\ arg' = [arg EXCEPT ![w] = op]
  /\ overlapped' = overlapped \cup ({op.key} \cap {arg[v].key : v \in Mutating})
  /\ UNCHANGED <<num, ops, drainVars, ingestVars, missed, late, promoted, own, faults>>

\* enqueue asks the sequence source.
DrawSequence(w) ==
  /\ wpc[w] = "written"
  /\ ops' = Append(ops, arg[w])
  /\ num' = [num EXCEPT ![w] = Len(ops) + 1]
  /\ wpc' = [wpc EXCEPT ![w] = "drawn"]
  /\ arg' = [arg EXCEPT ![w] = Absent]
  /\ UNCHANGED <<primary, overlapped, drainVars, ingestVars, missed, late, promoted, own, faults>>

\* The sequence source fails, and may have used up a number: the caller gets the
\* error, the primary keeps the write, and the mutation is not mirrored.
SequenceFails(w) ==
  /\ wpc[w] = "written"
  /\ Fault
  /\ wpc' = [wpc EXCEPT ![w] = "idle"]
  /\ arg' = [arg EXCEPT ![w] = Absent]
  /\ ops' \in {ops, Append(ops, arg[w])}
  /\ missed' = TRUE
  /\ UNCHANGED <<primary, num, overlapped, drainVars, ingestVars, late, promoted, own>>

\* The head of drain's loop: push the head of the queue, or stop.
Loop(q) ==
  \/ q = <<>> /\ dpc' = "off" /\ UNCHANGED cur
  \/ q # <<>> /\ dpc' = "await" /\ cur' = Head(q)

\* The rest of enqueue, with the drain it starts when none is running.  A full
\* queue sheds its head, pushed or not.
Enqueue(w) ==
  /\ wpc[w] = "drawn"
  /\ \/ /\ Len(queue) < MaxQueue
        /\ queue' = Append(queue, num[w])
        /\ UNCHANGED shed
     \/ /\ Len(queue) >= MaxQueue
        /\ queue' = Append(Tail(queue), num[w])
        /\ shed' = shed \cup {Head(queue)}
  /\ IF dpc = "off" THEN Loop(queue') ELSE UNCHANGED <<dpc, cur>>
  /\ wpc' = [wpc EXCEPT ![w] = "idle"]
  /\ num' = [num EXCEPT ![w] = 0]
  /\ UNCHANGED <<primary, arg, overlapped, ops, ingestVars, missed, late, promoted, own, faults>>

-----------------------------------------------------------------------------
(* The replica: ingest.                                                    *)

Answers == {"applied", "duplicate", "stale", "gap", "apply_failed"}

\* applyIfNext: what the guard can answer to operation n.
Dispositions(n) ==
  CASE n = last -> {"duplicate"}
    [] n < last -> {"stale"}
    [] n > last + 1 -> {"gap"}
    [] n = last + 1 -> {"applied", "apply_failed"}

\* Mutant: deletions are ignored.
PutKeepsDeleted(n) ==
  IF ops[n].val = Absent THEN replica ELSE [replica EXCEPT ![ops[n].key] = ops[n].val]

Put(n) == [replica EXCEPT ![ops[n].key] = ops[n].val]

\* handleReplicaIngest of operation n with disposition d.  A store that throws
\* may have written; the sequence number is not accepted then.
Ingest(n, d) ==
  /\ d \in Dispositions(n)
  /\ last' = IF d = "applied" THEN n ELSE last
  /\ \/ d = "applied" /\ replica' = Put(n)
     \/ d = "apply_failed" /\ replica' \in {replica, Put(n)}
     \/ d \notin {"applied", "apply_failed"} /\ UNCHANGED replica

-----------------------------------------------------------------------------
(* The primary: the drainer.                                               *)

\* Mutants: a failed write of the replica counts as pushed; a duplicate does not.
AcceptedOnError == {"applied", "duplicate", "apply_failed"}
AcceptedOnce    == {"applied"}

\* The dispositions answered with status 200.
Accepted == {"applied", "duplicate"}

\* A push is answered.  Success removes the head of the queue as it is now.
Push(d) ==
  /\ dpc = "await"
  /\ Ingest(cur, d)
  /\ \/ /\ d \in Accepted
        /\ queue' = Tail(queue)
        /\ Loop(queue')
     \/ /\ d \notin Accepted
        /\ dpc' = "sleep"
        /\ UNCHANGED <<queue, cur>>
  /\ IF d = "apply_failed" THEN Fault ELSE UNCHANGED faults
  /\ UNCHANGED <<callVars, shed, missed, late, promoted, own>>

\* A push fails, or times out: the operation was ingested and the answer is
\* lost, the request is lost or refused, or it is still under way.
PushFails ==
  /\ dpc = "await"
  /\ Fault
  /\ \/ (\E d \in Answers : Ingest(cur, d)) /\ UNCHANGED late
     \/ UNCHANGED <<ingestVars, late>>
     \/ late' = late \cup {cur} /\ UNCHANGED ingestVars
  /\ dpc' = "sleep"
  /\ UNCHANGED <<callVars, queue, cur, shed, missed, promoted, own>>

\* The backoff is over: the loop takes the head of the queue as it is now.
Wake ==
  /\ dpc = "sleep"
  /\ Loop(queue)
  /\ UNCHANGED <<callVars, queue, shed, ingestVars, missed, late, promoted, own, faults>>

\* A request arrives after its push was given up.
PushLate(n, d) ==
  /\ n \in late
  /\ late' = late \ {n}
  /\ Ingest(n, d)
  /\ UNCHANGED <<callVars, drainVars, missed, promoted, own, faults>>

\* The process of the primary dies: its store and the sequence source are
\* durable, calls and queue are lost, a request may be under way.
Crash ==
  /\ Fault
  /\ wpc' = [w \in Writers |-> "idle"]
  /\ arg' = [w \in Writers |-> Absent] /\ num' = [w \in Writers |-> 0]
  /\ queue' = <<>> /\ dpc' = "off"
  /\ missed' = TRUE
  /\ late' = IF dpc = "await" THEN late \cup {cur} ELSE late
  /\ UNCHANGED <<primary, overlapped, ops, cur, shed, ingestVars, promoted, own>>

-----------------------------------------------------------------------------
(* The replica: promotion.                                                 *)

\* The guard promotes the replica; nothing is asked of its currency.
Promote ==
  /\ promoted' = TRUE
  /\ UNCHANGED <<callVars, drainVars, ingestVars, missed, late, own, faults>>

\* Only an explicit command demotes it.
Demote ==
  /\ promoted' = FALSE
  /\ UNCHANGED <<callVars, drainVars, ingestVars, missed, late, own, faults>>

\* A client's mutation on the replica passes assertWritable.
ClientWrite(op) ==
  /\ promoted
  /\ replica' = [replica EXCEPT ![op.key] = op.val]
  /\ own' = own \cup {op.key}
  /\ UNCHANGED <<callVars, drainVars, last, missed, late, promoted, faults>>

Next ==
  \/ \E w \in Writers : \/ \E op \in Op : Write(w, op)
                        \/ DrawSequence(w) \/ SequenceFails(w) \/ Enqueue(w)
  \/ \E d \in Answers : Push(d) \/ \E n \in late : PushLate(n, d)
  \/ PushFails \/ Wake \/ Crash
  \/ Promote \/ Demote \/ \E op \in Op : ClientWrite(op)

Spec == Init /\ [][Next]_vars

\* Calls that are not failed are answered and timers fire.
Fairness ==
  /\ \A w \in Writers : WF_vars(DrawSequence(w)) /\ WF_vars(Enqueue(w))
  /\ WF_vars(\E d \in Answers \ {"apply_failed"} : Push(d))
  /\ WF_vars(Wake)

FairSpec == Spec /\ Fairness

-----------------------------------------------------------------------------
(* Properties.                                                             *)

\* The replica holds for key k what the operations up to n left there.
Reflects(k, n) ==
  \/ \E m \in 1..n : /\ ops[m].key = k /\ replica[k] = ops[m].val
                     /\ \A j \in (m + 1)..n : ops[j].key # k
  \/ replica[k] = Absent /\ \A j \in 1..n : ops[j].key # k

\* "Stale or gapped mutations are rejected before touching the store": the
\* replica is the result of the operations 1 to last in their order, each
\* counted once, or one further if the guard's own write failed half-way;
\* retries, timeouts, late requests, crashes and shedding do not bring an old
\* value back.  Keys a promoted replica wrote itself are another matter.
ReplicaIsHistory ==
  \A k \in Keys \ own : Reflects(k, last) \/ (last < Len(ops) /\ Reflects(k, last + 1))

InHand(n) == \E w \in Writers : wpc[w] = "drawn" /\ num[w] = n

Queued(n) == \E i \in DOMAIN queue : queue[i] = n

\* Operations are lost only by an overflow of the queue or a crash: otherwise
\* each one is at the replica, in the queue or about to be, however its push
\* failed.
LostOnlyByOverflow ==
  ~missed /\ shed = {} =>
    \A n \in 1..Len(ops) : n <= last \/ Queued(n) \/ InHand(n)

Quiet == queue = <<>> /\ \A w \in Writers : wpc[w] = "idle"

\* "mirrors every mutation to a remote replica": when everything was pushed the
\* replica holds what the primary holds, with any number of callers, for every key
\* of which no two mutations were between their write and their number at one
\* time; those may be numbered in the other order than they were written.
MirrorsWhenQuiet ==
  ~missed /\ shed = {} /\ Quiet =>
    \A k \in Keys \ (own \cup overlapped) : replica[k] = primary[k]

\* A later operation came into the queue before operation n.
Overtaken(n) ==
  \/ \E i, j \in DOMAIN queue : i < j /\ queue[j] = n /\ queue[i] > n
  \/ InHand(n) /\ \E i \in DOMAIN queue : queue[i] > n

\* A mutation that got its number reaches the replica in the end, however pushes
\* fail, unless the primary crashes or a call fails, or it or one before it is shed
\* or overtaken on the way to the queue.
CatchesUp ==
  \A n \in 1..MaxOps :
    n <= Len(ops) ~> \/ n <= last \/ missed
                     \/ \E m \in 1..n : m \in shed \/ Overtaken(m)

=============================================================================
