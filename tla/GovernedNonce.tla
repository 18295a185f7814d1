----------------------------- MODULE GovernedNonce -----------------------------
(***************************************************************************)
(* The governed replay store: verifier processes that consume nonces in    *)
(* one shared Redis, which may lose everything or be replaced by another   *)
(* instance.  Redis holds a continuity epoch, a quarantine that expires, a *)
(* configuration and the nonce keys; two scripts, each atomic, read and    *)
(* write them.  Every process has a gate with the epoch it trusts, and a   *)
(* loop that reconciles the gate with Redis.                               *)
(*                                                                         *)
(* Times are kept as time LEFT until an expiry, or AGE since an event, so  *)
(* that the clock never ends.  Epochs are random in the code: here they    *)
(* are numbered in the order scripts use them.  A command has a            *)
(* timeout; one that timed out before Redis ran it may still run, late.    *)
(* The configuration string is retention:quarantine; all processes have    *)
(* the same retention, so it is represented by the quarantine.             *)
(***************************************************************************)
EXTENDS Integers, FiniteSets

CONSTANTS
  Procs,      \* verifier processes
  Nonces,     \* nonces of signed requests
  Reqs,       \* requests that may be in flight together
  SigWindow,  \* sigWindowMs
  Buffer,     \* safetyBufferMs
  Allowance,  \* [Procs -> Nat]: continuitySafetyAllowanceMs of each process
  Timeout,    \* commandTimeoutMs
  MaxFaults   \* bound on losses, failovers, crashes, stops, failed commands

\* deriveNonceRetentionMs.
KeyRetention == 2 * SigWindow + Buffer

\* quarantineMs of the factory.
Quarantine(p) == KeyRetention + Allowance[p]

\* The buffer covers the time between the freshness check of a request and
\* the script that consumes its nonce.
ASSUME GovernedAssumption ==
  /\ SigWindow \in Nat \ {0} /\ Buffer \in Nat /\ Timeout \in Nat
  /\ Timeout < Buffer
  /\ Allowance \in [Procs -> Nat]
  /\ MaxFaults \in Nat

VARIABLES
  epoch,      \* Redis: the continuity marker, None when missing
  quar,       \* Redis: the quarantine key: its value and its time left
  config,     \* Redis: the configuration key, None when missing
  key,        \* Redis: time left of each nonce key, 0 when absent
  epochs,     \* epochs drawn so far
  up,         \* state of each process
  gate,       \* SharedContinuityGate of each process
  recon,      \* the reconcile command of each process
  req,        \* the requests being verified
  late,       \* commands that timed out and were not run yet
  checkpoint, \* the newest epoch a process trusted, kept outside Redis
  age,        \* age of each credential: now - its timestamp
  spent,      \* history: nonces a script has answered FRESH
  granted,    \* history: FRESH answers to requests that had not timed out
  faults      \* faults so far

redisVars == <<epoch, quar, config, key, epochs>>
procVars  == <<up, gate, recon, checkpoint>>
nonceVars == <<redisVars, procVars, req, late, age, spent, granted, faults>>

None     == 0
Forever  == -1                         \* quarantinedUntilMs = Infinity
Unsigned == -SigWindow - 1             \* the credential does not exist yet
Dead     == SigWindow + Timeout + 1    \* no request with it can be accepted any more

Statuses == {"none", "OK", "CONFIG_ESTABLISHED", "CONFIG_MISSING", "CONFIG_MISMATCH",
             "MISSING", "EPOCH_CHANGED", "MALFORMED", "QUARANTINED", "FRESH", "REPLAY"}

Answer == [status: Statuses, epoch: Nat, left: Nat]
NoAnswer == [status |-> "none", epoch |-> None, left |-> 0]

Command == [kind: {"reconcile"}, proc: Procs, expect: Nat]
      \cup [kind: {"consume"}, proc: Procs, expect: Nat, nonce: Nonces]

Request == [at: {"idle"}] \cup
           [at: {"sent", "answered"}, proc: Procs, nonce: Nonces, expect: Nat,
            age: 0..Timeout, answer: Answer]

NonceTypeOK ==
  /\ epoch \in Nat /\ config \in Nat /\ epochs \in Nat /\ checkpoint \in Nat
  /\ quar \in [epoch: Nat, left: Nat]
  /\ key \in [Nonces -> Nat]
  /\ up \in [Procs -> {"down", "booting", "up", "failed", "stopped"}]
  /\ gate \in [Procs -> [epoch: Nat, left: Nat \cup {Forever}]]
  /\ recon \in [Procs -> [at: {"waiting", "idle", "sent", "answered"}, expect: Nat,
                          age: 0..Timeout, answer: Answer]]
  /\ req \in [Reqs -> Request]
  /\ late \subseteq Command
  /\ age \in [Nonces -> Unsigned..Dead]
  /\ spent \subseteq Nonces
  /\ granted \in [Nonces -> Nat]
  /\ faults \in Nat

Closed == [epoch |-> None, left |-> Forever]
NoRecon == [at |-> "idle", expect |-> None, age |-> 0, answer |-> NoAnswer]
NoReq == [at |-> "idle"]
Rescheduled == [NoRecon EXCEPT !.at = "waiting"]

InFlight(c) == c.at \in {"sent", "answered"}

\* An empty Redis and no process.
NonceInit ==
  /\ epoch = None /\ config = None /\ epochs = 0
  /\ quar = [epoch |-> None, left |-> 0]
  /\ key = [n \in Nonces |-> 0]
  /\ up = [p \in Procs |-> "down"]
  /\ gate = [p \in Procs |-> Closed]
  /\ recon = [p \in Procs |-> NoRecon]
  /\ req = [r \in Reqs |-> NoReq]
  /\ late = {} /\ checkpoint = None
  /\ age = [n \in Nonces |-> Unsigned]
  /\ spent = {} /\ granted = [n \in Nonces |-> 0]
  /\ faults = 0

Fault == faults < MaxFaults /\ faults' = faults + 1

-----------------------------------------------------------------------------
(* The scripts.                                                            *)

Larger(a, b) == IF a >= b THEN a ELSE b

\* quarantine_at_least: never shortens a quarantine that runs.
QuarantineAtLeast(e, minimum) == [epoch |-> e, left |-> Larger(minimum, quar.left)]

\* The epoch a script finds, or the one it brings: "epoch or ARGV".
Named == IF epoch = None THEN epochs + 1 ELSE epoch

\* RECONCILE_SCRIPT up to its answer, called by p with the epoch it expects.
ReconcileStatus(p, expect) ==
  IF config \notin {None, Quarantine(p)} THEN "CONFIG_MISMATCH"
  ELSE IF expect # None /\ Named # expect THEN "EPOCH_CHANGED"
  ELSE IF epoch = None THEN "MISSING"
  ELSE IF config = None THEN "CONFIG_ESTABLISHED"
  ELSE "OK"

ReconcileQuarantine(p, status) ==
  IF status = "CONFIG_MISMATCH" THEN QuarantineAtLeast(Named, Larger(Quarantine(p), config))
  ELSE IF \/ status # "OK"
          \/ quar.left > 0 /\ quar.epoch # epoch
       THEN QuarantineAtLeast(Named, Quarantine(p))
  ELSE quar

ReconcileScript(p, expect) ==
  LET status == ReconcileStatus(p, expect)
  IN  /\ quar' = ReconcileQuarantine(p, status)
      /\ config' = IF config = None THEN Quarantine(p) ELSE config
      /\ epoch' = IF status = "CONFIG_MISMATCH" THEN epoch ELSE Named
      /\ epochs' = Larger(epochs, Named)
      /\ UNCHANGED key

\* CONSUME_SCRIPT: continuity is checked before the nonce.
ConsumeStatus(p, expect, n) ==
  IF config = None THEN "CONFIG_MISSING"
  ELSE IF config # Quarantine(p) THEN "CONFIG_MISMATCH"
  ELSE IF epoch = None THEN "MISSING"
  ELSE IF epoch # expect THEN "EPOCH_CHANGED"
  ELSE IF quar.left > 0 THEN IF quar.epoch # epoch THEN "MALFORMED" ELSE "QUARANTINED"
  ELSE IF key[n] > 0 THEN "REPLAY"
  ELSE "FRESH"

\* Mutant: a changed epoch is adopted without a quarantine.
ConsumeQuarantineAdopts(p, status) ==
  IF status = "CONFIG_MISMATCH" THEN QuarantineAtLeast(Named, Larger(Quarantine(p), config))
  ELSE IF status \in {"QUARANTINED", "FRESH", "REPLAY", "EPOCH_CHANGED"} THEN quar
  ELSE QuarantineAtLeast(Named, Quarantine(p))

ConsumeQuarantine(p, status) ==
  IF status = "CONFIG_MISMATCH" THEN QuarantineAtLeast(Named, Larger(Quarantine(p), config))
  ELSE IF status \in {"QUARANTINED", "FRESH", "REPLAY"} THEN quar
  ELSE QuarantineAtLeast(Named, Quarantine(p))

ConsumeScript(p, expect, n) ==
  LET status == ConsumeStatus(p, expect, n)
  IN  /\ quar' = ConsumeQuarantine(p, status)
      /\ config' = IF config = None THEN Quarantine(p) ELSE config
      /\ epoch' = IF status = "MISSING" THEN Named ELSE epoch
      /\ epochs' = Larger(epochs, Named)
      /\ key' = IF status = "FRESH" THEN [key EXCEPT ![n] = KeyRetention] ELSE key
      /\ spent' = IF status = "FRESH" THEN spent \cup {n} ELSE spent

\* What a script tells its caller; PTTL is read after the script's writes.
AnswerOf(status) ==
  [status |-> status, epoch |-> Named,
   left |-> IF status \in {"FRESH", "REPLAY"} THEN 0 ELSE quar'.left]

-----------------------------------------------------------------------------
(* A process: bootstrap, the gate and the reconcile loop.                  *)

\* apply: trust the epoch, wait for the quarantine.
Apply(p, a) ==
  /\ gate' = [gate EXCEPT ![p] = [epoch |-> a.epoch, left |-> a.left]]
  /\ checkpoint' = Larger(checkpoint, a.epoch)

FailClosed(p) ==
  /\ gate' = [gate EXCEPT ![p].left = Forever]
  /\ UNCHANGED checkpoint

Acceptable(p) == up[p] = "up" /\ gate[p].epoch # None /\ gate[p].left = 0

SendReconcile(p, expect) ==
  recon' = [recon EXCEPT ![p] = [at |-> "sent", expect |-> expect, age |-> 0,
                                 answer |-> NoAnswer]]

\* createGovernedRedisBackedNonceStore: the first script, with the epoch that
\* was checkpointed outside Redis (option expectedEpoch).
Boot(p) ==
  /\ up[p] = "down"
  /\ up' = [up EXCEPT ![p] = "booting"]
  /\ SendReconcile(p, checkpoint)
  /\ UNCHANGED <<redisVars, gate, checkpoint, req, late, age, spent, granted, faults>>

\* The loop's timer has fired since the last reconcile (Tick), the eviction policy is safe, the script is sent.
StartReconcile(p) ==
  /\ up[p] = "up" /\ recon[p].at = "idle"
  /\ SendReconcile(p, gate[p].epoch)
  /\ UNCHANGED <<redisVars, up, gate, checkpoint, req, late, age, spent, granted, faults>>

\* Redis runs the script.
RunReconcile(p) ==
  /\ recon[p].at = "sent"
  /\ ReconcileScript(p, recon[p].expect)
  /\ recon' = [recon EXCEPT ![p].at = "answered",
                            ![p].answer = AnswerOf(ReconcileStatus(p, recon[p].expect))]
  /\ UNCHANGED <<up, gate, checkpoint, req, late, age, spent, granted, faults>>

\* Mutant: a failed reconcile leaves the gate closed for good, because the loop
\* is not rescheduled.
ApplyReconcileOnce(p) ==
  /\ recon[p].at = "answered"
  /\ recon' = [recon EXCEPT ![p] = Rescheduled]
  /\ up' = [up EXCEPT ![p] = IF @ = "booting" THEN "up" ELSE @]
  /\ IF up[p] # "booting" THEN UNCHANGED <<gate, checkpoint>>
     ELSE Apply(p, recon[p].answer)
  /\ UNCHANGED <<redisVars, req, late, age, spent, granted, faults>>

\* The answer arrives.  A process with another configuration does not start,
\* or is closed; stop() leaves a gate that ignores answers.
ApplyReconcile(p) ==
  /\ recon[p].at = "answered"
  /\ recon' = [recon EXCEPT ![p] = Rescheduled]
  /\ IF recon[p].answer.status = "CONFIG_MISMATCH"
     THEN /\ FailClosed(p)
          /\ up' = [up EXCEPT ![p] = IF @ = "booting" THEN "failed" ELSE @]
     ELSE /\ up' = [up EXCEPT ![p] = IF @ = "booting" THEN "up" ELSE @]
          /\ IF up[p] = "stopped" THEN UNCHANGED <<gate, checkpoint>>
             ELSE Apply(p, recon[p].answer)
  /\ UNCHANGED <<redisVars, req, late, age, spent, granted, faults>>

\* The command fails or times out, or the eviction policy is unsafe or cannot
\* be read: fail closed.  A script that was not run may still run.
ReconcileFails(p) ==
  /\ Fault
  /\ up[p] \in {"booting", "up", "stopped"}
  /\ InFlight(recon[p]) \/ (up[p] = "up" /\ recon[p].at = "idle")
  /\ recon' = [recon EXCEPT ![p] = Rescheduled]
  /\ late' = IF recon[p].at = "sent"
             THEN late \cup {[kind |-> "reconcile", proc |-> p, expect |-> recon[p].expect]}
             ELSE late
  /\ up' = [up EXCEPT ![p] = IF @ = "booting" THEN "failed" ELSE @]
  /\ FailClosed(p)
  /\ UNCHANGED <<redisVars, req, age, spent, granted>>

\* stop(): the gate is closed; requests and the reconcile in flight go on.
Stop(p) ==
  /\ Fault
  /\ up[p] = "up"
  /\ up' = [up EXCEPT ![p] = "stopped"]
  /\ FailClosed(p)
  /\ UNCHANGED <<redisVars, recon, req, late, age, spent, granted>>

-----------------------------------------------------------------------------
(* A request: checkAndConsume of AtomicContinuityNonceStore.               *)

\* A client signs a request; its clock is ahead of the servers' by less than
\* the window (a clock that is behind is a request that waits).
Sign(n, a) ==
  /\ age[n] = Unsigned
  /\ age' = [age EXCEPT ![n] = a]
  /\ UNCHANGED <<redisVars, procVars, req, late, spent, granted, faults>>

\* The verifier finds the credential fresh and the gate open; the script is
\* sent with the epoch the gate trusts now.
SendConsume(r, p, n) ==
  /\ req[r].at = "idle"
  /\ age[n] \in -SigWindow..SigWindow
  /\ Acceptable(p)
  /\ req' = [req EXCEPT ![r] = [at |-> "sent", proc |-> p, nonce |-> n,
                                expect |-> gate[p].epoch, age |-> 0, answer |-> NoAnswer]]
  /\ UNCHANGED <<redisVars, procVars, late, age, spent, granted, faults>>

RunConsume(r) ==
  /\ req[r].at = "sent"
  /\ LET p == req[r].proc
         n == req[r].nonce
         status == ConsumeStatus(p, req[r].expect, n)
     IN  /\ ConsumeScript(p, req[r].expect, n)
         /\ req' = [req EXCEPT ![r].at = "answered", ![r].answer = AnswerOf(status)]
         /\ granted' = IF status = "FRESH" THEN [granted EXCEPT ![n] = @ + 1] ELSE granted
  /\ UNCHANGED <<procVars, late, age, faults>>

\* The answer: fresh or replay, or a quarantine that the gate takes over.
ApplyConsume(r) ==
  /\ req[r].at = "answered"
  /\ req' = [req EXCEPT ![r] = NoReq]
  /\ LET p == req[r].proc
     IN  IF req[r].answer.status \in {"FRESH", "REPLAY"} \/ up[p] # "up"
         THEN UNCHANGED <<gate, checkpoint>>
         ELSE Apply(p, req[r].answer)
  /\ UNCHANGED <<redisVars, up, recon, late, age, spent, granted, faults>>

\* The command fails or times out: the request is refused and the gate closed
\* until the next reconcile.
ConsumeFails(r) ==
  /\ Fault
  /\ InFlight(req[r])
  /\ req' = [req EXCEPT ![r] = NoReq]
  /\ late' = IF req[r].at = "sent"
             THEN late \cup {[kind |-> "consume", proc |-> req[r].proc,
                              expect |-> req[r].expect, nonce |-> req[r].nonce]}
             ELSE late
  /\ FailClosed(req[r].proc)
  /\ UNCHANGED <<redisVars, up, recon, age, spent, granted>>

-----------------------------------------------------------------------------
(* Redis, the processes and the clock.                                     *)

\* A command that timed out reaches Redis after all.
RunLate(c) ==
  /\ late' = late \ {c}
  /\ \/ /\ c.kind = "reconcile"
        /\ ReconcileScript(c.proc, c.expect)
        /\ UNCHANGED spent
     \/ /\ c.kind = "consume"
        /\ ConsumeScript(c.proc, c.expect, c.nonce)
  /\ UNCHANGED <<procVars, req, age, granted, faults>>

\* FLUSHALL, a restart with an empty database, a restore from an empty one.
LoseData ==
  /\ Fault
  /\ epoch' = None /\ config' = None
  /\ quar' = [epoch |-> None, left |-> 0]
  /\ key' = [n \in Nonces |-> 0]
  /\ UNCHANGED <<epochs, procVars, req, late, age, spent, granted>>

\* Failover or restore to an instance with an epoch and without these nonces.
\* It is foreign only to a process that trusts or expects an epoch, so the
\* first boots, which expect none, are over.
Failover ==
  /\ Fault
  /\ epoch # None /\ checkpoint # None
  /\ \A p \in Procs : recon[p].at = "sent" => recon[p].expect # None
  /\ epoch' = epochs + 1 /\ epochs' = epochs + 1
  /\ quar' = [epoch |-> None, left |-> 0]
  /\ key' = [n \in Nonces |-> 0]
  /\ UNCHANGED <<config, procVars, req, late, age, spent, granted>>

\* A process dies with its requests; what it had sent may still run.
Crash(p) ==
  /\ Fault
  /\ up[p] # "down"
  /\ up' = [up EXCEPT ![p] = "down"]
  /\ gate' = [gate EXCEPT ![p] = Closed]
  /\ recon' = [recon EXCEPT ![p] = NoRecon]
  /\ req' = [r \in Reqs |-> IF InFlight(req[r]) /\ req[r].proc = p THEN NoReq ELSE req[r]]
  /\ late' = late
       \cup {[kind |-> "reconcile", proc |-> p, expect |-> recon[p].expect] :
               q \in {q \in {p} : recon[q].at = "sent"}}
       \cup {[kind |-> "consume", proc |-> p, expect |-> req[r].expect, nonce |-> req[r].nonce] :
               r \in {s \in Reqs : req[s].at = "sent" /\ req[s].proc = p}}
  /\ UNCHANGED <<redisVars, checkpoint, age, spent, granted>>

Less(x) == IF x > 0 THEN x - 1 ELSE x

\* The clock: keys expire, credentials age; a command in flight does not
\* outlive its timeout.
Tick ==
  /\ \A r \in Reqs : InFlight(req[r]) => req[r].age < Timeout
  /\ \A p \in Procs : InFlight(recon[p]) => recon[p].age < Timeout
  /\ quar' = [quar EXCEPT !.left = Less(@)]
  /\ key' = [n \in Nonces |-> Less(key[n])]
  /\ gate' = [p \in Procs |-> [gate[p] EXCEPT !.left = Less(@)]]
  /\ recon' = [p \in Procs |-> IF InFlight(recon[p]) THEN [recon[p] EXCEPT !.age = @ + 1]
                               ELSE NoRecon]
  /\ req' = [r \in Reqs |-> IF InFlight(req[r]) THEN [req[r] EXCEPT !.age = @ + 1]
                            ELSE NoReq]
  /\ age' = [n \in Nonces |-> IF age[n] \in {Unsigned, Dead} THEN age[n] ELSE age[n] + 1]
  /\ UNCHANGED <<epoch, config, epochs, up, checkpoint, late, spent, granted, faults>>

NonceNext ==
  \/ \E p \in Procs : \/ Boot(p) \/ StartReconcile(p) \/ RunReconcile(p)
                      \/ ApplyReconcile(p) \/ ReconcileFails(p) \/ Stop(p) \/ Crash(p)
  \/ \E n \in Nonces : \/ \E a \in -SigWindow..0 : Sign(n, a)
                       \/ \E r \in Reqs, p \in Procs : SendConsume(r, p, n)
  \/ \E r \in Reqs : RunConsume(r) \/ ApplyConsume(r) \/ ConsumeFails(r)
  \/ \E c \in late : RunLate(c)
  \/ LoseData \/ Failover
  \/ Tick

NonceSpec == NonceInit /\ [][NonceNext]_nonceVars

\* Redis runs what it is sent, answers arrive, the loop goes on and so does
\* the clock.  Nothing makes a request, a fault or a stop happen.
NonceFairness ==
  /\ \A p \in Procs : WF_nonceVars(Boot(p)) /\ WF_nonceVars(StartReconcile(p))
                      /\ WF_nonceVars(RunReconcile(p)) /\ WF_nonceVars(ApplyReconcile(p))
  /\ \A r \in Reqs : WF_nonceVars(RunConsume(r)) /\ WF_nonceVars(ApplyConsume(r))
  /\ SF_nonceVars(Tick)

NonceFairSpec == NonceSpec /\ NonceFairness

-----------------------------------------------------------------------------
(* Properties.                                                             *)

\* How long a request with nonce n can still reach the script in time.
Life(n) == SigWindow + Timeout - age[n]

\* No process trusts the epoch Redis has or is about to: every script that is
\* sent will find an epoch it does not expect.
Foreign ==
  /\ checkpoint # None /\ epoch > checkpoint
  /\ \A p \in Procs : /\ recon[p].at = "sent" => recon[p].expect # None
                      /\ recon[p].at = "answered" => recon[p].answer.epoch # epoch
  /\ \A r \in Reqs : req[r].at = "answered" => req[r].answer.epoch # epoch

\* Replay protection across losses and failovers of Redis.  Of all the requests that
\* carry a nonce, at most one is told that it is fresh; and a nonce that was consumed
\* and can still be presented is remembered, or nothing is accepted until it cannot:
\* its key outlives it, the quarantine does, or the next script will start a
\* quarantine (CONSUME_SCRIPT and RECONCILE_SCRIPT).
GrantedOnce ==
  /\ \A n \in Nonces : granted[n] <= 1
  /\ \A n \in spent :
       \/ Life(n) < 0
       \/ key[n] > Life(n)
       \/ quar.left > Life(n)
       \/ epoch = None \/ config = None
       \/ Foreign

\* A process that stays up does not stay closed: the loop reopens the gate after
\* any finite number of faults, unless another process's configuration holds
\* the namespace (failClosed, startContinuityReconcileLoop).
GateReopens ==
  \A p \in Procs :
     \/ []<>Acceptable(p)
     \/ []<>(up[p] # "up")
     \/ []<>(config # Quarantine(p))

=============================================================================
