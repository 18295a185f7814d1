------------------------------ MODULE Admission ------------------------------
(***************************************************************************)
(* The shared resources on the way of a request through the middleware of  *)
(* several processes (middleware.ts): the sliding window of the Redis rate *)
(* limiter (rate-limiter.ts) before the verification, and the hash chain   *)
(* of the PostgreSQL audit log (audit.ts) before the answer.  Neither      *)
(* holds a lock across its steps.                                          *)
(*                                                                         *)
(* The verification between the two is PairVerifier.tla; here only its     *)
(* answers that are audited and those that are not are told apart.  A hash *)
(* is injective: the hash of an entry is the triple of its sequence, the   *)
(* hash of its predecessor, and its id with content.                       *)
(***************************************************************************)
EXTENDS Integers, FiniteSets, FiniteSetsExt

CONSTANTS
  Procs,       \* the processes; each serves one request at a time
  Limit,       \* requests per window
  Window,      \* windowMs
  MaxRetries,  \* maxRetries of PgAuditLog
  MaxTime,     \* bound: last instant of the clock
  MaxCalls,    \* bound: requests per process
  MaxAnchors   \* bound: heads kept

ASSUME AdmissionAssumption ==
  /\ {Limit, Window, MaxRetries, MaxTime, MaxCalls, MaxAnchors} \subseteq Nat \ {0}
  /\ IsFiniteSet(Procs)

VARIABLES
  now,       \* Date.now
  zset,      \* the sorted set of the limiter: members with their scores
  call,      \* per process: the request it serves
  serial,    \* per process: requests started so far, which is _auditIdCounter
  table,     \* bpc_audit
  anchors,   \* heads that were stored outside the database
  cut,       \* the tail of the table was removed behind the log's back
  allowed,   \* history: requests that passed the limiter in the instant they came
  answered,  \* history: requests that were answered
  shadowed   \* history: those that were denied into the shadow state unaudited

admissionVars == <<now, zset, call, serial, table, anchors, cut, allowed, answered, shadowed>>

Times == 0..MaxTime

\* A member is the time and a random UUID: unique, so it is named by its request.
Members == [score : Times, of : Procs \X (1..MaxCalls)]

Genesis == <<>>

Hash(seq, prev, content) == <<seq, prev, content>>

\* The id of an entry is a timestamp and the process's counter; its content stands for
\* the request that the entry reports.
Content == [id : Times \X (1..MaxCalls), of : Procs \X (1..MaxCalls)]

Idle == [at |-> "idle"]

CallTypeOK(c) ==
  \/ c = Idle
  \/ c \in [at : {"trim", "count", "add", "verify"}, now : Times]
  \/ c \in [at : {"read"}, attempt : 0..(MaxRetries - 1), content : Content]
  \/ /\ c.at = "insert" /\ c.seq \in Nat \ {0}
     /\ c.attempt \in 0..(MaxRetries - 1) /\ c.content \in Content

AdmissionTypeOK ==
  /\ now \in Times
  /\ zset \subseteq Members
  /\ serial \in [Procs -> 0..MaxCalls]
  /\ DOMAIN call = Procs /\ \A p \in Procs : CallTypeOK(call[p])
  /\ \A e \in table : e.seq \in Nat \ {0} /\ e.content \in Content
  /\ \A a \in anchors : /\ DOMAIN a = {"seq", "hash", "lost"}
                         /\ a.seq \in Nat /\ a.lost \in BOOLEAN
  /\ cut \in BOOLEAN
  /\ allowed \subseteq Members
  /\ answered \subseteq Procs \X (1..MaxCalls) /\ shadowed \subseteq answered

AdmissionInit ==
  /\ now = 0
  /\ zset = {}
  /\ call = [p \in Procs |-> Idle]
  /\ serial = [p \in Procs |-> 0]
  /\ table = {}
  /\ anchors = {}
  /\ cut = FALSE
  /\ allowed = {}
  /\ answered = {} /\ shadowed = {}

Tick ==
  /\ now < MaxTime
  /\ now' = now + 1
  /\ UNCHANGED <<zset, call, serial, table, anchors, cut, allowed, answered, shadowed>>

Goto(p, c) == call' = [call EXCEPT ![p] = c]

------------------------------------------------------------------------------
(* RedisRateLimiter.check: four commands, nothing atomic across them.      *)

\* verifyBPCRequest starts with the limiter; the clock is read once.
Start(p) ==
  /\ call[p] = Idle
  /\ serial[p] < MaxCalls
  /\ serial' = [serial EXCEPT ![p] = @ + 1]
  /\ Goto(p, [at |-> "trim", now |-> now])
  /\ UNCHANGED <<now, zset, table, anchors, cut, allowed, answered, shadowed>>

\* What ZREMRANGEBYSCORE -inf cutoff leaves.
Trimmed(p) == {m \in zset : m.score > call[p].now - Window}

Trim(p) ==
  /\ call[p].at = "trim"
  /\ zset' = Trimmed(p)
  /\ Goto(p, [call[p] EXCEPT !.at = "count"])
  /\ UNCHANGED <<now, serial, table, anchors, cut, allowed, answered, shadowed>>

\* The audit entry of the request is given its id.
Audit(p) ==
  [at |-> "read", attempt |-> 0,
   content |-> [id |-> <<now, serial[p]>>, of |-> <<p, serial[p]>>]]

\* Mutant: the boundary of the window is off by one.
CountOneMore(p) ==
  /\ call[p].at = "count"
  /\ IF Cardinality(zset) > Limit
     THEN Goto(p, Audit(p))
     ELSE Goto(p, [call[p] EXCEPT !.at = "add"])
  /\ UNCHANGED <<now, zset, serial, table, anchors, cut, allowed, answered, shadowed>>

\* ZCARD: at the limit the request is denied, and the denial is audited.
Count(p) ==
  /\ call[p].at = "count"
  /\ IF Cardinality(zset) >= Limit
     THEN Goto(p, Audit(p))
     ELSE Goto(p, [call[p] EXCEPT !.at = "add"])
  /\ UNCHANGED <<now, zset, serial, table, anchors, cut, allowed, answered, shadowed>>

\* The member a request adds.
Member(p) == [score |-> call[p].now, of |-> <<p, serial[p]>>]

\* ZADD and EXPIRE: the request passes the limiter.
Add(p) ==
  /\ call[p].at = "add"
  /\ zset' = zset \cup {Member(p)}
  /\ allowed' = IF call[p].now = now THEN allowed \cup {Member(p)} ELSE allowed
  /\ Goto(p, [call[p] EXCEPT !.at = "verify"])
  /\ UNCHANGED <<now, serial, table, anchors, cut, answered, shadowed>>

\* A command fails, done or not: the error is thrown and the request fails.
LimiterFails(p) ==
  /\ \/ call[p].at = "trim" /\ zset' \in {zset, Trimmed(p)}
     \/ call[p].at = "count" /\ UNCHANGED zset
     \/ call[p].at = "add" /\ zset' \in {zset, zset \cup {Member(p)}}
  /\ Goto(p, Idle)
  /\ UNCHANGED <<now, serial, table, anchors, cut, allowed, answered, shadowed>>

------------------------------------------------------------------------------
(* The verification: its result is audited before it is returned, but for  *)
(* two denials.                                                            *)

Verify(p) ==
  /\ call[p].at = "verify"
  /\ Goto(p, Audit(p))
  /\ UNCHANGED <<now, zset, serial, table, anchors, cut, allowed, answered, shadowed>>

\* A pair at its failure threshold, or the verdict "shadow": the address enters the
\* shadow state and the request is denied without an entry.
DenyShadow(p) ==
  /\ call[p].at = "verify"
  /\ answered' = answered \cup {<<p, serial[p]>>}
  /\ shadowed' = shadowed \cup {<<p, serial[p]>>}
  /\ Goto(p, Idle)
  /\ UNCHANGED <<now, zset, serial, table, anchors, cut, allowed>>

------------------------------------------------------------------------------
(* PgAuditLog.write: read the head, insert behind it, retry when the place *)
(* was taken.                                                              *)

HeadSeq == Max({e.seq : e \in table} \cup {0})

HeadHash == IF table = {} THEN Genesis
            ELSE (CHOOSE e \in table : e.seq = HeadSeq).hash

ReadHead(p) ==
  /\ call[p].at = "read"
  /\ Goto(p, [at |-> "insert", attempt |-> call[p].attempt, content |-> call[p].content,
              seq |-> HeadSeq + 1, prev |-> HeadHash])
  /\ UNCHANGED <<now, zset, serial, table, anchors, cut, allowed, answered, shadowed>>

Entry(c) ==
  [seq |-> c.seq, prev |-> c.prev, content |-> c.content,
   hash |-> Hash(c.seq, c.prev, c.content)]

\* Mutant: only the id is unique.
TakenId(c) == \E e \in table : e.content.id = c.content.id

\* UNIQUE(seq) and the primary key on id.
Taken(c) == \E e \in table : e.seq = c.seq \/ e.content.id = c.content.id

\* The row is in place and the request is answered.
Insert(p) ==
  /\ call[p].at = "insert"
  /\ ~Taken(call[p])
  /\ table' = table \cup {Entry(call[p])}
  /\ answered' = answered \cup {call[p].content.of}
  /\ Goto(p, Idle)
  /\ UNCHANGED <<now, zset, serial, anchors, cut, allowed, shadowed>>

\* A unique violation: try behind the new head, or give up, which fails the request.
Contend(p) ==
  /\ call[p].at = "insert"
  /\ Taken(call[p])
  /\ IF call[p].attempt + 1 < MaxRetries
     THEN Goto(p, [at |-> "read", attempt |-> call[p].attempt + 1,
                   content |-> call[p].content])
     ELSE Goto(p, Idle)
  /\ UNCHANGED <<now, zset, serial, table, anchors, cut, allowed, answered, shadowed>>

\* Another error is thrown, by the insert whether or not the row was committed: the
\* request fails.
ConnectionLost(p) ==
  /\ call[p].at \in {"read", "insert"}
  /\ \/ UNCHANGED table
     \/ /\ call[p].at = "insert" /\ ~Taken(call[p])
        /\ table' = table \cup {Entry(call[p])}
  /\ Goto(p, Idle)
  /\ UNCHANGED <<now, zset, serial, anchors, cut, allowed, answered, shadowed>>

------------------------------------------------------------------------------
(* Anchors and the verifier.                                               *)

\* head(), kept outside the database.  The head of an empty log is number 0.
Anchor ==
  /\ Cardinality(anchors) < MaxAnchors
  /\ anchors' = anchors \cup {[seq |-> HeadSeq, hash |-> HeadHash, lost |-> FALSE]}
  /\ UNCHANGED <<now, zset, call, serial, table, cut, allowed, answered, shadowed>>

\* Someone with the rights to do so deletes the tail of the table, once.
Truncate ==
  /\ ~cut
  /\ \E n \in 0..(HeadSeq - 1) :
        /\ table' = {e \in table : e.seq <= n}
        /\ anchors' = {[a EXCEPT !.lost = @ \/ a.seq > n] : a \in anchors}
  /\ cut' = TRUE
  /\ UNCHANGED <<now, zset, call, serial, allowed, answered, shadowed>>

\* The rows of verifyEntries without an anchor: contiguous from the first that is
\* there, every row linked to its predecessor and its hash the hash of its fields.
Linked ==
  \A e \in table :
     /\ e.hash = Hash(e.seq, e.prev, e.content)
     /\ \A d \in table : d.seq <= e.seq => d = e \/ d.seq < e.seq
     /\ e.seq > Min({d.seq : d \in table}) =>
          \E d \in table : d.seq = e.seq - 1 /\ e.prev = d.hash

\* verifyEntries on the anchor: there is a row with its number and its hash.
AnchorMatches(a) == \E e \in table : e.seq = a.seq /\ e.hash = a.hash

Valid(a) == Linked /\ AnchorMatches(a)

------------------------------------------------------------------------------

Serve(p) ==
  \/ Start(p) \/ Trim(p) \/ Count(p) \/ Add(p) \/ LimiterFails(p)
  \/ Verify(p) \/ DenyShadow(p)
  \/ ReadHead(p) \/ Insert(p) \/ Contend(p) \/ ConnectionLost(p)

AdmissionNext == Tick \/ Anchor \/ Truncate \/ \E p \in Procs : Serve(p)

AdmissionSpec == AdmissionInit /\ [][AdmissionNext]_admissionVars

------------------------------------------------------------------------------
(* Properties.                                                             *)

\* What passed in the window that ends with instant t.
AllowedIn(t) == {m \in allowed : t - Window < m.score /\ m.score <= t}

\* Without a lock the limiter lets more than Limit requests into one window, but never
\* more than one per other process that was between its count and its add.  That is so
\* for requests that pass in the instant they came, also while slow calls trim, count
\* and add by a clock they read long ago; the set itself never holds more than that
\* either (RedisRateLimiter.check).
RateBounded ==
  LET most == Limit + Cardinality(Procs) - 1
  IN  /\ Cardinality(zset) <= most
      /\ \A t \in Times : Cardinality(AllowedIn(t)) <= most

\* The audit trail can be relied on.  Racing writers do not fork the chain: as long as
\* nobody deletes rows, the table verifies from its first row on, and so does every
\* anchor that was taken of a log with rows in it.  A truncation below an anchor is
\* noticed for good: the anchor never verifies again, whatever is appended past it
\* afterwards; nor does an anchor of the empty log, ever.  And an answered request left
\* one row in the log, if it is not one of the two denials into the shadow state, which
\* leave none; no request leaves two, also when the connection was lost with the insert
\* (PgAuditLog.write, head, verifyChain, verifyBPCRequest).
AuditTrailSound ==
  /\ ~cut => /\ Linked
             /\ \A e \in table : e.seq = 1 => e.prev = Genesis
             /\ \A a \in anchors : a.seq > 0 => Valid(a)
             /\ \A r \in answered \ shadowed : \E e \in table : e.content.of = r
  /\ \A a \in anchors : a.lost \/ a.seq = 0 => ~Valid(a)
  /\ \A e \in table : e.content.of \notin shadowed
  /\ \A d, e \in table : d.content.of = e.content.of => d = e

==============================================================================
