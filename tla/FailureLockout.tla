----------------------------- MODULE FailureLockout -----------------------------
(***************************************************************************)
(* The failure accounting of PairRegistry for one pair: failures counted   *)
(* per source address in a sliding window (ipFailureTracker), the score    *)
(* with a half-life (_applyCumulativeDecay), the lock, the unlock and the  *)
(* reset by a successful use, with several verifier calls in flight.       *)
(*                                                                         *)
(* PairVerifier models the same calls over a horizon shorter than one      *)
(* window; here windows end and calls return without end.  To keep the     *)
(* states finite the model holds AGES (time since an event) where the code *)
(* holds timestamps: age = now - timestamp.  The registry and the          *)
(* middleware are given the same lockoutCount, which is their default.     *)
(***************************************************************************)
EXTENDS Integers, FiniteSets

CONSTANTS
  Ips,          \* source addresses
  NoIp,         \* a call of recordActivity without an address
  Sources,      \* the addresses requests come from: from Ips \cup {NoIp}
  Calls,        \* verifier calls that may be in flight together
  LockoutCount, \* lockoutCount
  Window,       \* IP_FAILURE_WINDOW_MS
  Unit,         \* one failure in the fixed-point score
  MaxWindows,   \* bound on the windows counted since the first failure
  MaxDelay,     \* bound on the time a call spends before its store operation
  MaxScore      \* bound on the failures at which an operator still unlocks

ASSUME LockoutAssumption ==
  /\ NoIp \notin Ips
  /\ Sources \subseteq Ips \cup {NoIp}
  /\ LockoutCount \in Nat \ {0} /\ Window \in Nat \ {0} /\ Unit \in Nat \ {0}
  /\ MaxWindows \in Nat \ {0} /\ MaxDelay \in Nat /\ MaxScore \in Nat

VARIABLES
  status,     \* pair.status
  failedSigs, \* pair.failedSigs
  score,      \* pair.cumulativeFailures, in units of 1/Unit
  firstAge,   \* age of pair.firstFailureAt, or None
  tracker,    \* ipFailureTracker: count 0 where there is no entry
  call,       \* the calls: state, address, captured count and its age
  unlocked,   \* history: unlocked since the last failure written to the pair
  forgiven    \* history: addresses with no failure recorded since the last unlock

vars == <<status, failedSigs, score, firstAge, tracker, call, unlocked, forgiven>>
pairVars == <<status, failedSigs, score, firstAge>>

None == -1

MaxAge == MaxWindows * Window

Entry == [count: Nat, age: 0..Window + 1]
Idle  == [state |-> "idle", ip |-> NoIp, count |-> 0, age |-> 0]

TypeOK ==
  /\ status \in {"active", "locked"}
  /\ failedSigs \in Nat /\ score \in Nat
  /\ firstAge \in 0..MaxAge \cup {None}
  /\ tracker \in [Ips -> Entry]
  /\ call \in [Calls -> [state: {"idle", "verifying", "apply", "clear"},
                         ip: Sources \cup {NoIp}, count: Nat, age: 0..MaxDelay]]
  /\ unlocked \in BOOLEAN /\ forgiven \subseteq Ips

Init ==
  /\ status = "active" /\ failedSigs = 0 /\ score = 0 /\ firstAge = None
  /\ tracker = [i \in Ips |-> [count |-> 0, age |-> 0]]
  /\ call = [c \in Calls |-> Idle]
  /\ unlocked = FALSE /\ forgiven = Ips

NoEntry == [count |-> 0, age |-> 0]

\* The lookup of verifyBPCRequest found the pair active and below the limit
\* (ThresholdsLock: an active pair is, so ensureLocked has no case here).
Begin(c, ip) ==
  /\ call[c].state = "idle"
  /\ status = "active" /\ failedSigs < LockoutCount
  /\ call' = [call EXCEPT ![c] = [Idle EXCEPT !.state = "verifying", !.ip = ip]]
  /\ UNCHANGED <<pairVars, tracker, unlocked, forgiven>>

\* evictStaleIpEntries.
FreshEntries == [i \in Ips |-> IF tracker[i].age > Window THEN NoEntry ELSE tracker[i]]

\* The entry of the address after one more failure in its window.
Counted(entry) ==
  IF entry.count = 0 THEN [count |-> 1, age |-> 0] ELSE [entry EXCEPT !.count = @ + 1]

\* Mutant: the count is captured before the failure is added to it.
CapturedBefore(entry) == entry.count

\* The count recordActivity captures for the write.
Captured(entry) == Counted(entry).count

\* recordActivity(pairId, false, ip) up to its store operation: evict, count
\* the failure of the address and capture the count.
RecordFailure(c) ==
  LET ip == call[c].ip IN
  /\ call[c].state = "verifying"
  /\ IF ip = NoIp
     THEN /\ tracker' = FreshEntries
          /\ call' = [call EXCEPT ![c].state = "apply", ![c].age = 0]
     ELSE /\ tracker' = [FreshEntries EXCEPT ![ip] = Counted(@)]
          /\ call' = [call EXCEPT ![c].state = "apply", ![c].age = 0,
                                  ![c].count = Captured(FreshEntries[ip])]
  /\ forgiven' = forgiven \ {ip}
  /\ UNCHANGED <<pairVars, unlocked>>

\* x / 2^n in the arithmetic of the score, rounded to the nearest unit.
Halved(x, n) == (x + 2^(n - 1)) \div 2^n

\* _applyCumulativeDecay(pair, now), where now lies age in the past.
WindowsElapsed(age) == IF firstAge = None THEN 0 ELSE (firstAge - age) \div Window

Decayed(age) ==
  LET n == WindowsElapsed(age)
  IN  Unit + (IF n > 0 THEN Halved(score, n) ELSE score)

\* The two thresholds of recordActivity.
OverLimit(failures, total) ==
  failures >= LockoutCount \/ total >= 2 * LockoutCount * Unit

\* Mutant: the write waits until no other call is being verified.
ApplyWhenQuiet(c) ==
  LET failures == IF call[c].ip = NoIp THEN failedSigs + 1 ELSE call[c].count
      age == call[c].age
  IN
  /\ call[c].state = "apply"
  /\ \A d \in Calls : call[d].state # "verifying"
  /\ failedSigs' = failures
  /\ score' = Decayed(age)
  /\ firstAge' = IF firstAge = None \/ WindowsElapsed(age) > 0 THEN age ELSE firstAge
  /\ status' = IF OverLimit(failures, score') THEN "locked" ELSE status
  /\ unlocked' = FALSE
  /\ call' = [call EXCEPT ![c] = Idle]
  /\ UNCHANGED <<tracker, forgiven>>

\* The atomicMutate of recordActivity.
ApplyFailure(c) ==
  LET failures == IF call[c].ip = NoIp THEN failedSigs + 1 ELSE call[c].count
      age == call[c].age
  IN
  /\ call[c].state = "apply"
  /\ failedSigs' = failures
  /\ score' = Decayed(age)
  /\ firstAge' = IF firstAge = None \/ WindowsElapsed(age) > 0 THEN age ELSE firstAge
  /\ status' = IF OverLimit(failures, score')
               THEN "locked" ELSE status
  /\ unlocked' = FALSE
  /\ call' = [call EXCEPT ![c] = Idle]
  /\ UNCHANGED <<tracker, forgiven>>

\* claimSuccessfulUse: a locked pair refuses, an active one is reset.
Succeed(c) ==
  /\ call[c].state = "verifying"
  /\ IF status = "active"
     THEN /\ failedSigs' = 0 /\ score' = 0 /\ firstAge' = None
          /\ call' = [call EXCEPT ![c].state = "clear"]
     ELSE /\ call' = [call EXCEPT ![c] = Idle]
          /\ UNCHANGED <<failedSigs, score, firstAge>>
  /\ UNCHANGED <<status, tracker, unlocked, forgiven>>

\* claimSuccessfulUseOutcome drops the entries of the pair after the claim.
ClearTracker(c) ==
  /\ call[c].state = "clear"
  /\ tracker' = [i \in Ips |-> NoEntry]
  /\ call' = [call EXCEPT ![c] = Idle]
  /\ UNCHANGED <<pairVars, unlocked, forgiven>>

\* A call denied without a failure being recorded (scope, replay).
Abandon(c) ==
  /\ call[c].state = "verifying"
  /\ call' = [call EXCEPT ![c] = Idle]
  /\ UNCHANGED <<pairVars, tracker, unlocked, forgiven>>

\* unlock: neither the tracker nor the score is reset.
Unlock ==
  /\ status = "locked"
  /\ score <= MaxScore * Unit /\ \A i \in Ips : tracker[i].count <= MaxScore
  /\ status' = "active" /\ failedSigs' = 0
  /\ unlocked' = TRUE /\ forgiven' = Ips
  /\ UNCHANGED <<score, firstAge, tracker, call>>

Older(age, cap) == IF age < cap THEN age + 1 ELSE age

Tick ==
  /\ \A c \in Calls : call[c].state = "apply" => call[c].age < MaxDelay
  /\ firstAge' = IF firstAge = None THEN None ELSE Older(firstAge, MaxAge)
  /\ tracker' = [i \in Ips |-> IF tracker[i].count = 0 THEN NoEntry
                               ELSE [tracker[i] EXCEPT !.age = Older(@, Window + 1)]]
  /\ call' = [c \in Calls |-> IF call[c].state = "apply"
                              THEN [call[c] EXCEPT !.age = @ + 1] ELSE call[c]]
  /\ UNCHANGED <<status, failedSigs, score, unlocked, forgiven>>

Next ==
  \/ \E c \in Calls, ip \in Sources : Begin(c, ip)
  \/ \E c \in Calls : \/ RecordFailure(c) \/ ApplyFailure(c) \/ Succeed(c)
                      \/ ClearTracker(c) \/ Abandon(c)
  \/ Unlock
  \/ Tick

\* The store's promise chain serves every queued operation, so a call whose
\* failure was counted is written in the end.
Fairness == \A c \in Calls : WF_vars(ApplyFailure(c))

Spec == Init /\ [][Next]_vars /\ Fairness

-----------------------------------------------------------------------------

Settled == \A c \in Calls : call[c].state \in {"idle", "verifying"}

\* No interleaving of counting and writing skips the lock.  Once every counted
\* failure is written, a pair that is still active has no address over the limit,
\* unless an operator unlocked it after that address's last failure; and the record
\* of an active pair is below both thresholds, unless it was unlocked and no failure
\* was written since (recordFailure).
ThresholdsLock ==
  status = "active" =>
    /\ Settled => \A i \in Ips : tracker[i].count >= LockoutCount => i \in forgiven
    /\ ~OverLimit(failedSigs, IF unlocked THEN 0 ELSE score)

\* A failure storm of one address is answered: the pair is locked in the end,
\* unless a successful use clears the tracker or an operator steps in first.
StormLocks ==
  \A i \in Ips :
    (tracker[i].count >= LockoutCount /\ i \notin forgiven)
      ~> (status = "locked" \/ tracker[i].count = 0 \/ i \in forgiven)

=============================================================================
