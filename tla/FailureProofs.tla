---------------------------- MODULE FailureProofs ----------------------------
(***************************************************************************)
(* Proofs about the three places where failures are counted over time: the *)
(* lockout of the registry (FailureLockout), the pair of the Python server *)
(* (PyVerifier) and the endpoints of the client's transport                *)
(* (FailoverClient), for any number of addresses, calls, requests and      *)
(* replicas, and any windows and thresholds.                               *)
(***************************************************************************)
EXTENDS MCFailures, Sequences, WellFoundedInduction, TLAPS

------------------------------------------------------------------------------
(* The lockout of the registry.                                            *)

\* A call whose write locks the pair because of address i, or one that is about to
\* drop every entry of the tracker.
Answers(c, i) ==
  \/ call[c].state = "apply" /\ call[c].ip = i /\ call[c].count >= LockoutCount
  \/ call[c].state = "clear"

\* An address over the limit is on its way to be answered.
StormIsPending ==
  status = "active" =>
    \A i \in Ips : tracker[i].count >= LockoutCount /\ i \notin forgiven
                   => \E c \in Calls : Answers(c, i)

\* The record of an active pair is below the thresholds.
RecordBelow ==
  status = "active" => ~OverLimit(failedSigs, IF unlocked THEN 0 ELSE score)

CallStates == {"idle", "verifying", "apply", "clear"}

CallType == [state : CallStates, ip : Sources \cup {NoIp}, count : Nat, age : Int]

LockoutInv ==
  /\ tracker \in [Ips -> [count : Nat, age : Int]]
  /\ call \in [Calls -> CallType]
  /\ forgiven \subseteq Ips
  /\ StormIsPending
  /\ RecordBelow

\* The updates of a call that the actions make keep its type.
LEMMA CallUpdates ==
  ASSUME NEW r \in CallType, NEW s \in CallStates, NEW ip \in Sources \cup {NoIp},
         NEW n \in Nat, NEW a \in Int
  PROVE  /\ [r EXCEPT !.state = s, !.ip = ip] \in CallType
         /\ [r EXCEPT !.state = s, !.age = a] \in CallType
         /\ [r EXCEPT !.state = s, !.age = a, !.count = n] \in CallType
BY DEF CallType

LEMMA NothingOverLimit == ~OverLimit(0, 0)
<1>1. LockoutCount \in Nat /\ LockoutCount > 0 /\ Unit \in Nat /\ Unit > 0
  BY LockoutAssumption
<1>2. LockoutCount * Unit > 0
  BY <1>1
<1>. QED BY <1>1, <1>2 DEF OverLimit

LEMMA LockoutInit == Init => LockoutInv
<1> SUFFICES ASSUME Init PROVE LockoutInv
  OBVIOUS
<1>1. /\ tracker \in [Ips -> [count : Nat, age : Int]]
      /\ call \in [Calls -> CallType]
      /\ forgiven \subseteq Ips
  BY DEF Init, Idle, CallType, CallStates
<1>2. StormIsPending
  BY LockoutAssumption DEF Init, StormIsPending
<1>3. RecordBelow
  BY NothingOverLimit DEF Init, RecordBelow
<1>. QED BY <1>1, <1>2, <1>3 DEF LockoutInv

\* A step of one call that has nothing to answer keeps what other calls answer.
LEMMA OthersAnswer ==
  ASSUME LockoutInv, NEW c \in Calls, NEW new, call' = [call EXCEPT ![c] = new],
         call[c].state \notin {"apply", "clear"}
  PROVE  \A d \in Calls, i \in Ips : Answers(d, i) => Answers(d, i)'
BY DEF LockoutInv, Answers

LEMMA LockoutNext == LockoutInv /\ [Next]_vars => LockoutInv'
<1> SUFFICES ASSUME LockoutInv, [Next]_vars PROVE LockoutInv'
  OBVIOUS
<1> DEFINE TypeInv == /\ tracker \in [Ips -> [count : Nat, age : Int]]
                      /\ call \in [Calls -> CallType]
                      /\ forgiven \subseteq Ips
<1>0. TypeInv /\ LockoutCount \in Nat /\ LockoutCount > 0 /\ NoIp \notin Ips
  BY LockoutAssumption DEF LockoutInv
<1>1. ASSUME NEW c \in Calls, NEW ip \in Sources, Begin(c, ip) PROVE LockoutInv'
  <2>1. call' = [call EXCEPT ![c] = [Idle EXCEPT !.state = "verifying", !.ip = ip]]
    BY <1>1 DEF Begin
  <2>2. TypeInv'
    <3>1. [Idle EXCEPT !.state = "verifying", !.ip = ip] \in CallType
      <4>1. /\ Idle \in CallType /\ "verifying" \in CallStates /\ ip \in Sources \cup {NoIp}
            /\ 0 \in Nat /\ 0 \in Int
        BY DEF Idle, CallType, CallStates
      <4>. QED BY <4>1, CallUpdates
    <3>. QED BY <1>0, <1>1, <2>1, <3>1 DEF Begin
  <2>3. StormIsPending'
    <3>1. call[c].state \notin {"apply", "clear"}
      BY <1>1 DEF Begin
    <3>2. \A d \in Calls, i \in Ips : Answers(d, i) => Answers(d, i)'
      BY <2>1, <3>1, OthersAnswer
    <3>. QED BY <1>1, <3>2 DEF Begin, pairVars, LockoutInv, StormIsPending
  <2>. QED BY <1>1, <2>2, <2>3 DEF Begin, pairVars, LockoutInv, RecordBelow
<1>2. ASSUME NEW c \in Calls, RecordFailure(c) PROVE LockoutInv'
  <2> DEFINE ip == call[c].ip
  <2>1. call[c].state = "verifying" /\ call[c] \in CallType
    BY <1>0, <1>2 DEF RecordFailure
  <2>2. /\ FreshEntries \in [Ips -> [count : Nat, age : Int]]
        /\ \A i \in Ips : FreshEntries[i].count >= LockoutCount => FreshEntries[i] = tracker[i]
    BY <1>0 DEF FreshEntries, NoEntry
  <2>3. \A e \in [count : Nat, age : Int] : /\ Counted(e) \in [count : Nat, age : Int]
                                            /\ Captured(e) = Counted(e).count
    BY DEF Counted, Captured
  <2>4. CASE ip = NoIp
    <3>1. /\ tracker' = FreshEntries
          /\ call' = [call EXCEPT ![c].state = "apply", ![c].age = 0]
          /\ forgiven' = forgiven
      BY <1>0, <1>2, <2>4 DEF RecordFailure
    <3>2. TypeInv'
      <4>0. "apply" \in CallStates /\ 0 \in Int
        BY DEF CallStates
      <4>1. [call[c] EXCEPT !.state = "apply", !.age = 0] \in CallType
        BY <2>1, <4>0, CallUpdates
      <4>2. call' \in [Calls -> CallType]
        BY <1>0, <3>1, <4>1
      <4>. QED BY <1>0, <2>2, <3>1, <4>2
    <3>3. \A d \in Calls, i \in Ips : Answers(d, i) => Answers(d, i)'
      BY <1>0, <2>1, <3>1 DEF Answers
    <3>4. StormIsPending'
      BY <1>2, <2>2, <3>1, <3>3 DEF RecordFailure, pairVars, LockoutInv, StormIsPending
    <3>. QED BY <1>2, <3>2, <3>4 DEF RecordFailure, pairVars, LockoutInv, RecordBelow
  <2>5. CASE ip # NoIp
    <3>0. ip \in Ips
      BY <2>1, <2>5, LockoutAssumption DEF CallType
    <3>1. /\ tracker' = [FreshEntries EXCEPT ![ip] = Counted(@)]
          /\ call' = [call EXCEPT ![c].state = "apply", ![c].age = 0,
                                  ![c].count = Captured(FreshEntries[ip])]
          /\ forgiven' = forgiven \ {ip}
      BY <1>2, <2>5 DEF RecordFailure
    <3>2. TypeInv'
      <4>0. "apply" \in CallStates /\ 0 \in Int
        BY DEF CallStates
      <4>1. Captured(FreshEntries[ip]) \in Nat
        BY <2>2, <2>3, <3>0
      <4>2. [call[c] EXCEPT !.state = "apply", !.age = 0,
                            !.count = Captured(FreshEntries[ip])] \in CallType
        BY <2>1, <4>0, <4>1, CallUpdates
      <4>3. call' \in [Calls -> CallType]
        BY <1>0, <3>1, <4>2
      <4>4. tracker' \in [Ips -> [count : Nat, age : Int]]
        BY <2>2, <2>3, <3>0, <3>1
      <4>. QED BY <1>0, <3>1, <4>3, <4>4
    <3>3. \A d \in Calls, i \in Ips : Answers(d, i) => Answers(d, i)'
      BY <1>0, <2>1, <3>1 DEF Answers
    <3>4. /\ tracker'[ip] = Counted(FreshEntries[ip])
          /\ \A i \in Ips : i # ip => tracker'[i] = FreshEntries[i]
      BY <2>2, <3>0, <3>1
    <3>5. /\ call'[c].state = "apply" /\ call'[c].ip = ip
          /\ call'[c].count = tracker'[ip].count
      BY <1>0, <2>1, <2>2, <2>3, <3>0, <3>1, <3>4 DEF CallType
    <3>6. StormIsPending'
      <4> SUFFICES ASSUME status' = "active", NEW i \in Ips,
                          tracker'[i].count >= LockoutCount, i \notin forgiven'
                   PROVE  \E d \in Calls : Answers(d, i)'
        BY DEF StormIsPending
      <4>1. CASE i = ip
        BY <3>5, <4>1 DEF Answers
      <4>2. CASE i # ip
        BY <1>2, <2>2, <3>1, <3>3, <3>4, <4>2 DEF RecordFailure, pairVars, LockoutInv, StormIsPending
      <4>. QED BY <4>1, <4>2
    <3>. QED BY <1>2, <3>2, <3>6 DEF RecordFailure, pairVars, LockoutInv, RecordBelow
  <2>. QED BY <2>4, <2>5
<1>3. ASSUME NEW c \in Calls, ApplyFailure(c) PROVE LockoutInv'
  <2> DEFINE failures == IF call[c].ip = NoIp THEN failedSigs + 1 ELSE call[c].count
  <2>1. /\ call' = [call EXCEPT ![c] = Idle] /\ failedSigs' = failures
        /\ status' = IF OverLimit(failures, score') THEN "locked" ELSE status
        /\ unlocked' = FALSE /\ call[c].state = "apply"
        /\ UNCHANGED <<tracker, forgiven>>
    BY <1>3 DEF ApplyFailure
  <2>2. TypeInv'
    BY <1>0, <2>1 DEF Idle, CallType, CallStates
  <2>3. RecordBelow'
    BY <2>1 DEF RecordBelow
  <2>4. StormIsPending'
    <3> SUFFICES ASSUME status' = "active", NEW i \in Ips,
                        tracker'[i].count >= LockoutCount, i \notin forgiven'
                 PROVE  \E d \in Calls : Answers(d, i)'
      BY DEF StormIsPending
    <3>1. status = "active" /\ ~OverLimit(failures, score')
      BY <2>1
    <3>2. PICK d \in Calls : Answers(d, i)
      BY <2>1, <3>1 DEF LockoutInv, StormIsPending
    <3>3. d # c
      BY <1>0, <2>1, <3>1, <3>2 DEF Answers, OverLimit
    <3>. QED BY <1>0, <2>1, <3>2, <3>3 DEF Answers
  <2>. QED BY <2>2, <2>3, <2>4 DEF LockoutInv
<1>4. ASSUME NEW c \in Calls, Succeed(c) PROVE LockoutInv'
  <2>1. /\ call[c].state = "verifying" /\ call[c] \in CallType
        /\ UNCHANGED <<status, tracker, unlocked, forgiven>>
    BY <1>0, <1>4 DEF Succeed
  <2>2. TypeInv'
    BY <1>0, <1>4, <2>1 DEF Succeed, Idle, CallType, CallStates
  <2>3. \A d \in Calls, i \in Ips : Answers(d, i) => Answers(d, i)'
    BY <1>0, <1>4, <2>1 DEF Succeed, Answers
  <2>4. StormIsPending'
    BY <2>1, <2>3 DEF LockoutInv, StormIsPending
  <2>5. RecordBelow'
    BY <1>4, <2>1, NothingOverLimit DEF Succeed, LockoutInv, RecordBelow
  <2>. QED BY <2>2, <2>4, <2>5 DEF LockoutInv
<1>5. ASSUME NEW c \in Calls, ClearTracker(c) PROVE LockoutInv'
  <2>1. \A i \in Ips : tracker'[i].count = 0
    BY <1>5 DEF ClearTracker, NoEntry
  <2>2. TypeInv'
    BY <1>0, <1>5 DEF ClearTracker, NoEntry, Idle, CallType, CallStates
  <2>. QED BY <1>0, <1>5, <2>1, <2>2 DEF ClearTracker, pairVars, LockoutInv, StormIsPending, RecordBelow
<1>6. ASSUME NEW c \in Calls, Abandon(c) PROVE LockoutInv'
  <2>1. call' = [call EXCEPT ![c] = Idle] /\ call[c].state \notin {"apply", "clear"}
    BY <1>6 DEF Abandon
  <2>2. TypeInv'
    BY <1>0, <1>6, <2>1 DEF Abandon, Idle, CallType, CallStates
  <2>3. \A d \in Calls, i \in Ips : Answers(d, i) => Answers(d, i)'
    BY <2>1, OthersAnswer
  <2>. QED BY <1>6, <2>2, <2>3 DEF Abandon, pairVars, LockoutInv, StormIsPending, RecordBelow
<1>7. CASE Unlock
  BY <1>0, <1>7, NothingOverLimit DEF Unlock, LockoutInv, StormIsPending, RecordBelow
<1>8. CASE Tick
  <2>1. /\ tracker' \in [Ips -> [count : Nat, age : Int]]
        /\ \A i \in Ips : tracker'[i].count = tracker[i].count
    BY <1>0, <1>8, LockoutAssumption DEF Tick, NoEntry, Older
  <2>2. /\ call' \in [Calls -> CallType]
        /\ \A c \in Calls : /\ call'[c].state = call[c].state
                            /\ call'[c].ip = call[c].ip /\ call'[c].count = call[c].count
    BY <1>0, <1>8 DEF Tick, CallType
  <2>3. \A d \in Calls, i \in Ips : Answers(d, i) => Answers(d, i)'
    BY <2>2 DEF Answers
  <2>4. StormIsPending'
    BY <1>8, <2>1, <2>3 DEF Tick, LockoutInv, StormIsPending
  <2>. QED BY <1>8, <2>1, <2>2, <2>4 DEF Tick, LockoutInv, RecordBelow
<1>9. CASE UNCHANGED vars
  BY <1>9 DEF vars, LockoutInv, StormIsPending, Answers, RecordBelow
<1>. QED BY <1>1, <1>2, <1>3, <1>4, <1>5, <1>6, <1>7, <1>8, <1>9 DEF Next

\* No interleaving of counting a failure and writing it skips the lock of recordFailure:
\* a pair that is active once every counted failure is written has no address over the
\* limit that was not unlocked since, and its record is below both thresholds.
THEOREM LockIsNotSkipped == Spec => []ThresholdsLock
<1>1. LockoutInv => ThresholdsLock
  BY DEF LockoutInv, StormIsPending, RecordBelow, ThresholdsLock, Settled, Answers
<1>. QED BY <1>1, LockoutInit, LockoutNext, PTL DEF Spec

------------------------------------------------------------------------------
(* The Python server.                                                      *)

\* A request that was accepted is still in the nonce store beyond the last instant at
\* which it is fresh, or that instant has passed.
SpentWhileFresh ==
  \A r \in Requests :
    accepted[r] > 0 =>
      /\ signedAt[r] # None
      /\ \/ nonces[r] # None /\ nonces[r] > signedAt[r] + SigWindow
         \/ pyClock > signedAt[r] + SigWindow

PythonInv ==
  /\ Python!TypeOK
  /\ SpentWhileFresh
  /\ Python!ExecutedOnce

LEMMA PythonConstants ==
  /\ SigWindow \in Nat /\ Buffer \in Nat /\ Buffer > 0 /\ MaxTime \in Nat
  /\ LockoutCount \in Nat /\ None = -1
BY FailuresAssumption, LockoutAssumption DEF None

LEMMA PythonInit == Python!Init => PythonInv
BY PythonConstants
   DEF Python!Init, PythonInv, Python!TypeOK, SpentWhileFresh, Python!ExecutedOnce

\* What the type invariant says of one request.
LEMMA PythonTypes ==
  ASSUME Python!TypeOK
  PROVE  /\ pyClock \in Nat /\ pyClock <= MaxTime /\ pyFailed \in 0..LockoutCount
         /\ \A r \in Requests :
              /\ signedAt[r] \in Int
              /\ signedAt[r] # None => signedAt[r] \in Nat
              /\ nonces[r] \in 0..(MaxTime + 2 * SigWindow + Buffer) \cup {None}
              /\ nonces[r] \in Int /\ accepted[r] \in Nat
BY PythonConstants DEF Python!TypeOK

\* A copy of request r is let through or dropped by the nonce store.
LEMMA PythonConsume ==
  ASSUME PythonInv, NEW r \in Requests, NEW bytes, signedAt[r] # None,
         Python!Consume(r, bytes), UNCHANGED <<pyClock, pyStatus, signedAt>>
  PROVE  PythonInv'
<1>0. Python!TypeOK /\ pyClock \in Nat /\ signedAt[r] \in Nat
  BY PythonTypes DEF PythonInv
<1>1. CASE r \notin Permitted
  BY <1>1 DEF Python!Consume, PythonInv, Python!TypeOK, SpentWhileFresh, Python!ExecutedOnce
<1> DEFINE N == 0..(MaxTime + 2 * SigWindow + Buffer) \cup {None}
           evicted == Python!Evicted
<1>2. evicted \in [Requests -> N]
  BY <1>0, PythonTypes DEF Python!Evicted
<1>3. \A q \in Requests : \/ evicted[q] = nonces[q]
                          \/ evicted[q] = None /\ nonces[q] # None /\ nonces[q] <= pyClock
  BY <1>2 DEF Python!Evicted
<1>4. ASSUME NEW q \in Requests, accepted[q] > 0
      PROVE  /\ signedAt[q] # None
             /\ \/ evicted[q] # None /\ evicted[q] > signedAt[q] + SigWindow
                \/ pyClock > signedAt[q] + SigWindow
  <2>1. /\ signedAt[q] # None /\ signedAt[q] \in Nat /\ nonces[q] \in Int
        /\ \/ nonces[q] # None /\ nonces[q] > signedAt[q] + SigWindow
           \/ pyClock > signedAt[q] + SigWindow
    BY <1>4, PythonTypes DEF PythonInv, SpentWhileFresh
  <2>. QED BY <1>0, <1>3, <2>1, PythonConstants
<1>5. CASE r \in Permitted /\ evicted[r] # None
  <2>1. nonces' = evicted /\ UNCHANGED <<pyClock, pyStatus, signedAt, pyFailed, accepted>>
    BY <1>5 DEF Python!Consume
  <2>2. Python!TypeOK'
    BY <1>0, <1>2, <2>1 DEF Python!TypeOK
  <2>3. SpentWhileFresh'
    BY <1>4, <2>1 DEF SpentWhileFresh
  <2>. QED BY <2>1, <2>2, <2>3 DEF PythonInv, Python!ExecutedOnce
<1>6. CASE r \in Permitted /\ evicted[r] = None
  <2>1. /\ nonces' = [evicted EXCEPT ![r] = pyClock + Python!Ttl]
        /\ pyFailed' = 0
        /\ accepted' = [accepted EXCEPT ![r] = @ + 1]
        /\ Python!Fresh(r)
    BY <1>6 DEF Python!Consume
  <2>2. /\ pyClock - signedAt[r] <= SigWindow /\ signedAt[r] - pyClock <= SigWindow
        /\ Python!Ttl = 2 * SigWindow + Buffer
    BY <1>0, <2>1, PythonConstants DEF Python!Fresh, Python!Ttl
  <2>3. accepted[r] = 0
    <3>1. accepted[r] \in Nat
      BY <1>0, PythonTypes
    <3>. QED BY <1>0, <1>4, <1>6, <2>2, <3>1, PythonConstants
  <2>4. pyClock + Python!Ttl \in N /\ pyClock + Python!Ttl # None
        /\ pyClock + Python!Ttl > signedAt[r] + SigWindow
    BY <1>0, <2>2, PythonTypes, PythonConstants
  <2>5. /\ nonces' \in [Requests -> N] /\ nonces'[r] = pyClock + Python!Ttl
        /\ \A q \in Requests : q # r => nonces'[q] = evicted[q]
    BY <1>2, <2>1, <2>4
  <2>6. /\ accepted' \in [Requests -> Nat] /\ accepted'[r] = 1
        /\ \A q \in Requests : q # r => accepted'[q] = accepted[q]
    BY <1>0, <2>1, <2>3 DEF Python!TypeOK
  <2>7. Python!TypeOK'
    BY <1>0, <2>1, <2>5, <2>6, PythonConstants DEF Python!TypeOK
  <2>8. SpentWhileFresh'
    <3> SUFFICES ASSUME NEW q \in Requests, accepted'[q] > 0
                 PROVE  /\ signedAt[q] # None
                        /\ \/ nonces'[q] # None /\ nonces'[q] > signedAt[q] + SigWindow
                           \/ pyClock > signedAt[q] + SigWindow
      BY DEF SpentWhileFresh
    <3>1. CASE q = r
      BY <2>4, <2>5, <3>1
    <3>2. CASE q # r
      BY <1>4, <2>5, <2>6, <3>2
    <3>. QED BY <3>1, <3>2
  <2>9. Python!ExecutedOnce'
    BY <2>6 DEF PythonInv, Python!ExecutedOnce
  <2>. QED BY <2>7, <2>8, <2>9 DEF PythonInv
<1>. QED BY <1>1, <1>5, <1>6

LEMMA PythonNext == PythonInv /\ [Python!Next]_(Python!vars) => PythonInv'
<1> SUFFICES ASSUME PythonInv, [Python!Next]_(Python!vars) PROVE PythonInv'
  OBVIOUS
<1>0. Python!TypeOK /\ pyClock \in Nat /\ pyFailed \in 0..LockoutCount
  BY PythonTypes DEF PythonInv
<1>1. ASSUME NEW s \in {"pending", "active"}, Python!Register(s) PROVE PythonInv'
  BY <1>1, PythonConstants
     DEF Python!Register, PythonInv, Python!TypeOK, SpentWhileFresh, Python!ExecutedOnce
<1>2. CASE Python!Revoke
  BY <1>2 DEF Python!Revoke, PythonInv, Python!TypeOK, SpentWhileFresh, Python!ExecutedOnce
<1>3. CASE Python!Tick
  <2>1. pyClock' = pyClock + 1 /\ UNCHANGED <<pyStatus, pyFailed, signedAt, nonces, accepted>>
        /\ pyClock < MaxTime
    BY <1>3 DEF Python!Tick
  <2>2. Python!TypeOK'
    BY <1>0, <2>1, PythonConstants DEF Python!TypeOK
  <2>3. SpentWhileFresh'
    BY <1>0, <2>1, PythonTypes, PythonConstants DEF PythonInv, SpentWhileFresh
  <2>. QED BY <2>1, <2>2, <2>3 DEF PythonInv, Python!ExecutedOnce
<1>4. ASSUME NEW r \in Requests, NEW ts \in 0..(MaxTime + SigWindow), Python!SignRequest(r, ts)
      PROVE  PythonInv'
  <2>1. /\ signedAt[r] = None /\ signedAt' = [signedAt EXCEPT ![r] = ts]
        /\ UNCHANGED <<pyClock, pyStatus, pyFailed, nonces, accepted>>
    BY <1>4 DEF Python!SignRequest
  <2>2. Python!TypeOK'
    BY <1>0, <2>1 DEF Python!TypeOK
  <2>3. \A q \in Requests : accepted[q] > 0 => q # r /\ signedAt'[q] = signedAt[q]
    BY <1>0, <2>1 DEF PythonInv, SpentWhileFresh, Python!TypeOK
  <2>4. SpentWhileFresh'
    BY <2>1, <2>3 DEF PythonInv, SpentWhileFresh
  <2>. QED BY <2>1, <2>2, <2>4 DEF PythonInv, Python!ExecutedOnce
<1>5. ASSUME NEW r \in Requests, NEW bytes \in {"intact", "altered", "malformed"},
             Python!Arrive(r, bytes)
      PROVE  PythonInv'
  <2>1. signedAt[r] # None /\ UNCHANGED <<pyClock, pyStatus, signedAt>>
    BY <1>5 DEF Python!Arrive
  <2>2. CASE Python!Refuse(r, bytes)
    BY <2>1, <2>2 DEF Python!Refuse, PythonInv, Python!TypeOK, SpentWhileFresh, Python!ExecutedOnce
  <2>3. CASE Python!CountFailure(r, bytes)
    <3>1. pyFailed' \in 0..LockoutCount /\ UNCHANGED <<nonces, accepted>>
      BY <1>0, <2>3, PythonConstants DEF Python!CountFailure, Python!Served
    <3>. QED BY <2>1, <3>1 DEF PythonInv, Python!TypeOK, SpentWhileFresh, Python!ExecutedOnce
  <2>4. CASE Python!Consume(r, bytes)
    BY <2>1, <2>4, PythonConsume
  <2>. QED BY <1>5, <2>2, <2>3, <2>4 DEF Python!Arrive
<1>6. CASE UNCHANGED Python!vars
  BY <1>6 DEF Python!vars, PythonInv, Python!TypeOK, SpentWhileFresh, Python!ExecutedOnce
<1>. QED BY <1>1, <1>2, <1>3, <1>4, <1>5, <1>6 DEF Python!Next

\* BPCVerifier.verify lets each signed request through at most once: its nonce is kept
\* until the request can no longer be fresh, also one signed a whole window ahead of
\* the server's clock.
THEOREM PythonExecutesOnce == Python!Spec => []ExecutedOnce
<1>1. PythonInv => ExecutedOnce
  BY DEF PythonInv, ExecutedOnce
<1>. QED BY <1>1, PythonInit, PythonNext, PTL DEF Python!Spec

------------------------------------------------------------------------------
(* The transport of the client.                                            *)

Less == {ss \in Nat \X Nat : ss[1] < ss[2]}

\* A set of natural numbers that is not empty has a least element.
LEMMA LeastElement ==
  ASSUME NEW T, T \subseteq Nat, T # {}
  PROVE  \E x \in T : \A y \in T : x <= y
<1>1. IsWellFoundedOn(OpToRel(<,Nat), Nat)
  BY NatLessThanWellFounded
<1>2. IsWellFoundedOn(Less, Nat)
  BY <1>1, Zenon DEF OpToRel, Less
<1>3. PICK x \in T : \A y \in T : ~(<<y, x>> \in Less)
  BY <1>2, WFMin
<1>4. ASSUME NEW y \in T, y < x PROVE FALSE
  <2> DEFINE p == <<y, x>>
  <2>1. p \in Nat \X Nat /\ p[1] = y /\ p[2] = x
    OBVIOUS
  <2> HIDE DEF p
  <2>2. p \in Less
    BY <1>4, <2>1 DEF Less
  <2>. QED BY <1>3, <2>2 DEF p
<1>. QED BY <1>4

\* A read throws only from the end of the last-resort pass, which starts at the primary
\* and leaves out no endpoint; a write is never sent on.
PassesInOrder ==
  /\ \A c \in Reads :
       /\ fetching[c].pc # "write"
       /\ fetching[c].pc = "last" => 0..(fetching[c].at - 1) \subseteq tried[c]
  /\ \A c \in Writes :
       /\ fetching[c].pc \notin {"chain", "last"}
       /\ fetching[c].pc = "write" => fetching[c].at = Client!Primary

Resting == [pc : {"idle", "done", "failed"}]
Fetching == [pc : {"chain", "last", "write"}, at : Client!Chain]

ClientInv ==
  /\ Client!TypeOK
  /\ PassesInOrder
  /\ Client!ThrowsAfterAll

LEMMA ClientConstants ==
  /\ Replicas \in Nat /\ MissThreshold \in Nat /\ MissThreshold > 0 /\ MissWindow \in Nat
  /\ MaxClock \in Nat /\ None = -1 /\ Client!Primary = 0 /\ Client!Chain = 0..Replicas
  /\ \A c \in Reads : c \notin Writes
BY FailuresAssumption DEF None, Client!Primary, Client!Chain

\* What is left of the chain is either nothing, or the first endpoint in it that is
\* believed healthy.
LEMMA NextHealthyType ==
  ASSUME NEW eps, NEW e \in Nat
  PROVE  \/ Client!NextHealthy(eps, e) = [pc |-> "last", at |-> 0]
         \/ \E f \in Client!Chain : Client!NextHealthy(eps, e) = [pc |-> "chain", at |-> f]
<1> DEFINE healthy == {f \in e..Replicas : eps[f].healthy}
           least == CHOOSE f \in healthy : \A g \in healthy : f <= g
<1>1. healthy \subseteq Nat /\ healthy \subseteq Client!Chain
  BY ClientConstants
<1>2. CASE healthy = {}
  BY <1>2, ClientConstants DEF Client!NextHealthy, Client!At
<1>3. CASE healthy # {}
  <2>1. \E f \in healthy : \A g \in healthy : f <= g
    <3> HIDE DEF healthy
    <3>. QED BY <1>1, <1>3, LeastElement
  <2>2. least \in healthy
    <3> HIDE DEF healthy
    <3>. QED BY <2>1
  <2>3. Client!NextHealthy(eps, e) = [pc |-> "chain", at |-> least]
    BY <1>3 DEF Client!NextHealthy, Client!At
  <2> HIDE DEF least
  <2>. QED BY <1>1, <2>2, <2>3
<1>. QED BY <1>2, <1>3

\* recordMiss and recordSuccess keep the type of an endpoint.
LEMMA EndpointUpdates ==
  ASSUME Client!TypeOK, NEW e \in Client!Chain, NEW new \in {Client!Success(ep[e]), Client!Miss(ep[e])},
         ep' = [ep EXCEPT ![e] = new]
  PROVE  /\ ep' \in [Client!Chain -> Client!Endpoint]
         /\ \A f \in Client!Chain : ep'[f].streak = 0 => ep'[f].healthy /\ ep'[f].started = None
<1>1. /\ ep \in [Client!Chain -> Client!Endpoint]
      /\ \A f \in Client!Chain : ep[f].streak = 0 => ep[f].healthy /\ ep[f].started = None
      /\ clock \in 0..MaxClock
  BY DEF Client!TypeOK
<1>2. new \in Client!Endpoint /\ (new.streak = 0 => new.healthy /\ new.started = None)
  <2>1. CASE new = Client!Success(ep[e])
    BY <2>1, ClientConstants DEF Client!Success, Client!Endpoint
  <2>2. CASE new = Client!Miss(ep[e])
    <3> DEFINE s == ep[e]
               fresh == s.started = None \/ clock - s.started > MissWindow
               streak == IF fresh THEN 1 ELSE s.streak + 1
               capped == IF streak > MissThreshold THEN MissThreshold ELSE streak
               started == IF fresh THEN clock ELSE s.started
    <3>1. /\ s.healthy \in BOOLEAN /\ s.streak \in 0..MissThreshold
          /\ s.started \in 0..MaxClock \cup {None}
      BY <1>1 DEF Client!Endpoint
    <3>2. streak \in Nat /\ streak > 0
      BY <3>1, ClientConstants
    <3>3. capped \in 0..MissThreshold /\ capped # 0 /\ started \in 0..MaxClock \cup {None}
      BY <1>1, <3>1, <3>2, ClientConstants
    <3>4. new = [healthy |-> s.healthy /\ streak < MissThreshold, streak |-> capped,
                 started |-> started]
      BY <2>2 DEF Client!Miss
    <3>5. new.streak = capped
      BY <3>4
    <3>6. (s.healthy /\ streak < MissThreshold) \in BOOLEAN
      BY Zenon
    <3> HIDE DEF capped, started, streak
    <3>. QED BY <3>3, <3>4, <3>5, <3>6 DEF Client!Endpoint
  <2>. QED BY <2>1, <2>2
<1>. QED BY <1>1, <1>2

\* A step that concerns one endpoint keeps the type of the record of misses.
LEMMA MissesTyped ==
  ASSUME Client!TypeOK, NEW e \in Client!Chain, Client!Answers(e) \/ Client!Misses(e)
  PROVE  misses' \in [Client!Chain -> Seq(0..MaxClock)]
<1>1. misses \in [Client!Chain -> Seq(0..MaxClock)] /\ clock \in 0..MaxClock
  BY DEF Client!TypeOK
<1>2. misses[e] \in Seq(0..MaxClock)
  BY <1>1
<1>3. <<>> \in Seq(0..MaxClock) /\ Append(misses[e], clock) \in Seq(0..MaxClock)
  BY <1>1, <1>2
<1>4. \E new \in Seq(0..MaxClock) : misses' = [misses EXCEPT ![e] = new]
  BY <1>2, <1>3 DEF Client!Answers, Client!Misses
<1>. QED BY <1>1, <1>4

LEMMA ClientInit == Client!Init => ClientInv
<1> SUFFICES ASSUME Client!Init PROVE ClientInv
  OBVIOUS
<1>1. \A c \in Client!Callers : fetching[c] = [pc |-> "idle"] /\ tried[c] = {}
  BY DEF Client!Init
<1>2. Reads \subseteq Client!Callers /\ Writes \subseteq Client!Callers
  BY DEF Client!Callers
<1>3. Client!TypeOK
  <2>1. [healthy |-> TRUE, streak |-> 0, started |-> None] \in Client!Endpoint
    BY ClientConstants DEF Client!Endpoint
  <2>2. fetching \in [Client!Callers -> Resting \cup Fetching]
    BY DEF Client!Init, Resting
  <2>3. misses \in [Client!Chain -> Seq(0..MaxClock)]
    BY DEF Client!Init
  <2>. QED BY <2>1, <2>2, <2>3, ClientConstants DEF Client!Init, Client!TypeOK, Resting, Fetching
<1>. QED BY <1>1, <1>2, <1>3 DEF ClientInv, PassesInOrder, Client!ThrowsAfterAll

\* What the type invariant says of a call, and what a change of one call leaves alone.
LEMMA CallersTyped ==
  ASSUME Client!TypeOK, NEW c \in Client!Callers
  PROVE  /\ fetching[c] \in Resting \cup Fetching /\ tried[c] \subseteq Client!Chain
         /\ Client!InFlight(c) => fetching[c] \in Fetching /\ fetching[c].at \in Client!Chain
         /\ ~Client!InFlight(c) => fetching[c] \in Resting
BY DEF Client!TypeOK, Client!InFlight, Resting, Fetching

\* The invariant after one call has gone on to new, having tried the endpoints of seen.
LEMMA CallerMoves ==
  ASSUME ClientInv, NEW c \in Client!Callers,
         NEW new \in Resting \cup Fetching, NEW seen \in SUBSET Client!Chain,
         fetching' = [fetching EXCEPT ![c] = new],
         tried' = [tried EXCEPT ![c] = seen],
         UNCHANGED <<clock, up>>,
         ep' \in [Client!Chain -> Client!Endpoint],
         \A f \in Client!Chain : ep'[f].streak = 0 => ep'[f].healthy /\ ep'[f].started = None,
         misses' \in [Client!Chain -> Seq(0..MaxClock)],
         c \in Reads => /\ new.pc # "write"
                        /\ new.pc = "last" => 0..(new.at - 1) \subseteq seen
                        /\ new.pc = "failed" => seen = Client!Chain,
         c \in Writes => /\ new.pc \notin {"chain", "last"}
                         /\ new.pc = "write" => new.at = Client!Primary
                         /\ seen \subseteq {Client!Primary}
  PROVE  ClientInv'
<1>1. Reads \subseteq Client!Callers /\ Writes \subseteq Client!Callers
  BY DEF Client!Callers
<1>2. /\ fetching \in [Client!Callers -> Resting \cup Fetching]
      /\ tried \in [Client!Callers -> SUBSET Client!Chain]
  BY DEF ClientInv, Client!TypeOK, Resting, Fetching
<1>3. /\ fetching'[c] = new /\ tried'[c] = seen
      /\ \A d \in Client!Callers : d # c => fetching'[d] = fetching[d] /\ tried'[d] = tried[d]
  BY <1>2
<1>4. Client!TypeOK'
  BY <1>2 DEF ClientInv, Client!TypeOK, Resting, Fetching
<1>5. PassesInOrder' /\ Client!ThrowsAfterAll'
  BY <1>1, <1>3 DEF ClientInv, PassesInOrder, Client!ThrowsAfterAll
<1>. QED BY <1>4, <1>5 DEF ClientInv

\* A failed fetch: the next healthy endpoint, the next of the last pass, or the end.
LEMMA FetchFailsStep ==
  ASSUME ClientInv, NEW c \in Client!Callers, Client!FetchFails(c)
  PROVE  ClientInv'
<1> DEFINE at == fetching[c].at
           new == Client!AfterMiss(fetching[c], ep')
           seen == tried[c] \cup {at}
<1>1. /\ fetching[c] \in Fetching /\ at \in Client!Chain /\ tried[c] \subseteq Client!Chain
      /\ at \in Nat /\ at <= Replicas
  BY CallersTyped, ClientConstants DEF Client!FetchFails, ClientInv
<1>2. /\ fetching' = [fetching EXCEPT ![c] = new]
      /\ tried' = [tried EXCEPT ![c] = seen]
      /\ UNCHANGED <<clock, up>>
  BY DEF Client!FetchFails
<1>3. /\ ep' \in [Client!Chain -> Client!Endpoint]
      /\ \A f \in Client!Chain : ep'[f].streak = 0 => ep'[f].healthy /\ ep'[f].started = None
      /\ misses' \in [Client!Chain -> Seq(0..MaxClock)]
  <2>1. CASE UNCHANGED <<ep, misses>>
    BY <2>1 DEF ClientInv, Client!TypeOK
  <2>2. CASE Client!Misses(at)
    <3>1. ep' = [ep EXCEPT ![at] = Client!Miss(ep[at])]
      BY <2>2 DEF Client!Misses
    <3>. QED BY <1>1, <2>2, <3>1, EndpointUpdates, MissesTyped DEF ClientInv
  <2>. QED BY <2>1, <2>2 DEF Client!FetchFails
<1>4. c \in Reads \/ c \in Writes
  BY DEF Client!Callers
<1>5. CASE fetching[c].pc = "chain"
  <2>1. new = Client!NextHealthy(ep', at + 1) /\ at + 1 \in Nat
    BY <1>1, <1>5 DEF Client!AfterMiss
  <2>2. \/ new = [pc |-> "last", at |-> 0]
        \/ \E f \in Client!Chain : new = [pc |-> "chain", at |-> f]
    BY <2>1, NextHealthyType
  <2>3. c \notin Writes
    BY <1>5 DEF ClientInv, PassesInOrder
  <2> HIDE DEF new
  <2>4. new \in Resting \cup Fetching
    BY <2>2, ClientConstants DEF Fetching
  <2>5. /\ new.pc # "write" /\ new.pc # "failed"
        /\ new.pc = "last" => new.at = 0
    BY <2>2
  <2>6. seen \in SUBSET Client!Chain
    BY <1>1
  <2> HIDE DEF seen
  <2>7. new.pc = "last" => 0..(new.at - 1) \subseteq seen
    BY <2>5
  <2>. QED BY <1>2, <1>3, <2>3, <2>4, <2>5, <2>6, <2>7, CallerMoves
<1>6. CASE fetching[c].pc = "last" /\ at < Replicas
  <2>1. new = [pc |-> "last", at |-> at + 1]
    BY <1>6 DEF Client!AfterMiss, Client!At
  <2>2. c \notin Writes /\ 0..(at - 1) \subseteq tried[c]
    BY <1>4, <1>6 DEF ClientInv, PassesInOrder
  <2>3. new \in Resting \cup Fetching
    BY <1>1, <1>6, <2>1, ClientConstants DEF Fetching
  <2>4. seen \in SUBSET Client!Chain /\ 0..at \subseteq seen
    BY <1>1, <2>2
  <2>5. new.pc = "last" /\ new.at - 1 = at
    BY <1>1, <2>1
  <2> HIDE DEF new, seen
  <2>. QED BY <1>2, <1>3, <2>2, <2>3, <2>4, <2>5, CallerMoves
<1>7. CASE fetching[c].pc = "last" /\ ~(at < Replicas)
  <2>1. new = [pc |-> "failed"]
    BY <1>7 DEF Client!AfterMiss
  <2>2. c \notin Writes /\ 0..(at - 1) \subseteq tried[c] /\ at = Replicas
    BY <1>1, <1>4, <1>7, ClientConstants DEF ClientInv, PassesInOrder
  <2>3. new \in Resting \cup Fetching
    BY <2>1 DEF Resting
  <2>4. seen = Client!Chain
    BY <1>1, <2>2, ClientConstants
  <2>5. new.pc = "failed"
    BY <2>1
  <2> HIDE DEF new, seen
  <2>. QED BY <1>2, <1>3, <2>2, <2>3, <2>4, <2>5, CallerMoves
<1>8. CASE fetching[c].pc = "write"
  <2>1. new = [pc |-> "failed"]
    BY <1>8 DEF Client!AfterMiss
  <2>2. c \notin Reads /\ at = Client!Primary /\ tried[c] \subseteq {Client!Primary}
    BY <1>4, <1>8 DEF ClientInv, PassesInOrder, Client!ThrowsAfterAll
  <2>3. new \in Resting \cup Fetching
    BY <2>1 DEF Resting
  <2>4. seen \in SUBSET Client!Chain /\ seen \subseteq {Client!Primary}
    BY <1>1, <2>2
  <2>5. new.pc = "failed"
    BY <2>1
  <2> HIDE DEF new, seen
  <2>. QED BY <1>2, <1>3, <2>2, <2>3, <2>4, <2>5, CallerMoves
<1>. QED BY <1>1, <1>5, <1>6, <1>7, <1>8 DEF Fetching

LEMMA ClientNext == ClientInv /\ [Client!Next]_(Client!vars) => ClientInv'
<1> SUFFICES ASSUME ClientInv, [Client!Next]_(Client!vars) PROVE ClientInv'
  OBVIOUS
<1>0. /\ ep \in [Client!Chain -> Client!Endpoint]
      /\ \A f \in Client!Chain : ep[f].streak = 0 => ep[f].healthy /\ ep[f].started = None
      /\ misses \in [Client!Chain -> Seq(0..MaxClock)]
  BY DEF ClientInv, Client!TypeOK
<1>1. ASSUME NEW c \in Client!Callers, Client!Read(c) PROVE ClientInv'
  <2> DEFINE new == Client!NextHealthy(ep, Client!Primary)
  <2>1. /\ c \in Reads /\ c \notin Writes
        /\ fetching' = [fetching EXCEPT ![c] = new] /\ tried' = [tried EXCEPT ![c] = {}]
        /\ UNCHANGED <<clock, up>> /\ ep' = ep /\ misses' = misses
    BY <1>1, ClientConstants DEF Client!Read
  <2>2. \/ new = [pc |-> "last", at |-> 0]
        \/ \E f \in Client!Chain : new = [pc |-> "chain", at |-> f]
    BY NextHealthyType, ClientConstants
  <2> HIDE DEF new
  <2>3. new \in Resting \cup Fetching
    BY <2>2, ClientConstants DEF Fetching
  <2>4. /\ new.pc # "write" /\ new.pc # "failed"
        /\ new.pc = "last" => new.at = 0
    BY <2>2
  <2>5. new.pc = "last" => 0..(new.at - 1) \subseteq {}
    BY <2>4
  <2>. QED BY <1>0, <2>1, <2>3, <2>4, <2>5, CallerMoves
<1>2. ASSUME NEW c \in Client!Callers, Client!Write(c) PROVE ClientInv'
  <2> DEFINE new == IF ep[Client!Primary].healthy THEN Client!At("write", Client!Primary)
                    ELSE [pc |-> "failed"]
  <2>1. /\ c \in Writes /\ c \notin Reads
        /\ fetching' = [fetching EXCEPT ![c] = new] /\ tried' = [tried EXCEPT ![c] = {}]
        /\ UNCHANGED <<clock, up>> /\ ep' = ep /\ misses' = misses
    BY <1>2, ClientConstants DEF Client!Write
  <2>2. new = [pc |-> "write", at |-> Client!Primary] \/ new = [pc |-> "failed"]
    BY DEF Client!At
  <2>3. new \in Resting \cup Fetching
    BY <2>2, ClientConstants DEF Fetching, Resting
  <2>4. new.pc \notin {"chain", "last"} /\ (new.pc = "write" => new.at = Client!Primary)
    BY <2>2
  <2> HIDE DEF new
  <2>. QED BY <1>0, <2>1, <2>3, <2>4, CallerMoves
<1>3. ASSUME NEW c \in Client!Callers, Client!FetchAnswered(c) PROVE ClientInv'
  <2> DEFINE at == fetching[c].at
             new == [pc |-> "done"]
             seen == tried[c] \cup {at}
  <2>1. /\ at \in Client!Chain /\ tried[c] \subseteq Client!Chain
        /\ fetching[c].pc \in {"chain", "last", "write"}
    BY <1>3, CallersTyped DEF Client!FetchAnswered, Client!InFlight, ClientInv
  <2>2. /\ fetching' = [fetching EXCEPT ![c] = new]
        /\ tried' = [tried EXCEPT ![c] = seen]
        /\ UNCHANGED <<clock, up>> /\ ep' = [ep EXCEPT ![at] = Client!Success(ep[at])]
        /\ Client!Answers(at)
    BY <1>3 DEF Client!FetchAnswered, Client!Answers
  <2>3. /\ ep' \in [Client!Chain -> Client!Endpoint]
        /\ \A f \in Client!Chain : ep'[f].streak = 0 => ep'[f].healthy /\ ep'[f].started = None
        /\ misses' \in [Client!Chain -> Seq(0..MaxClock)]
    BY <2>1, <2>2, EndpointUpdates, MissesTyped DEF ClientInv
  <2>4. c \in Writes => seen \subseteq {Client!Primary}
    BY <2>1 DEF ClientInv, PassesInOrder, Client!ThrowsAfterAll
  <2>5. new \in Resting /\ new.pc = "done" /\ seen \in SUBSET Client!Chain
    BY <2>1 DEF Resting
  <2> HIDE DEF new, seen
  <2>. QED BY <2>2, <2>3, <2>4, <2>5, CallerMoves
<1>4. ASSUME NEW c \in Client!Callers, Client!FetchFails(c) PROVE ClientInv'
  BY <1>4, FetchFailsStep
<1>5. ASSUME NEW e \in Client!Chain, Client!ProbeSucceeds(e) \/ Client!ProbeFails(e) PROVE ClientInv'
  <2>1. /\ \E new \in {Client!Success(ep[e]), Client!Miss(ep[e])} : ep' = [ep EXCEPT ![e] = new]
        /\ UNCHANGED <<clock, up, fetching, tried>>
        /\ Client!Answers(e) \/ Client!Misses(e)
    BY <1>5 DEF Client!ProbeSucceeds, Client!ProbeFails, Client!Answers, Client!Misses
  <2>2. /\ ep' \in [Client!Chain -> Client!Endpoint]
        /\ \A f \in Client!Chain : ep'[f].streak = 0 => ep'[f].healthy /\ ep'[f].started = None
        /\ misses' \in [Client!Chain -> Seq(0..MaxClock)]
    BY <2>1, EndpointUpdates, MissesTyped DEF ClientInv
  <2>. QED BY <2>1, <2>2 DEF ClientInv, Client!TypeOK, PassesInOrder, Client!ThrowsAfterAll
<1>6. ASSUME NEW e \in Client!Chain, Client!Outage(e) PROVE ClientInv'
  BY <1>6 DEF Client!Outage, ClientInv, Client!TypeOK, PassesInOrder, Client!ThrowsAfterAll
<1>7. CASE Client!Tick
  <2>1. clock' \in 0..MaxClock /\ UNCHANGED <<up, ep, fetching, tried, misses>>
    BY <1>7, ClientConstants DEF Client!Tick, ClientInv, Client!TypeOK
  <2>. QED BY <2>1 DEF ClientInv, Client!TypeOK, PassesInOrder, Client!ThrowsAfterAll
<1>8. CASE UNCHANGED Client!vars
  BY <1>8 DEF Client!vars, ClientInv, Client!TypeOK, PassesInOrder, Client!ThrowsAfterAll
<1>. QED BY <1>1, <1>2, <1>3, <1>4, <1>5, <1>6, <1>7, <1>8 DEF Client!Next

\* A read of FailoverTransport throws only after it has fetched from every endpoint,
\* whatever other calls did to the shared belief about them meanwhile, and a write is
\* never sent to a replica.
THEOREM TransportThrowsAfterAll == Client!Spec => []ThrowsAfterAll
<1>1. ClientInv => ThrowsAfterAll
  BY DEF ClientInv, ThrowsAfterAll
<1>. QED BY <1>1, ClientInit, ClientNext, PTL DEF Client!Spec

-----------------------------------------------------------------------------
(* The transport: what gives an endpoint up.                               *)

\* The streak of an endpoint in use counts misses that were recorded since its last
\* answer, none of them before the streak began; nothing lies in the future.
StreakRecorded(s, m, now) ==
  /\ \A i \in DOMAIN m : m[i] <= now
  /\ s.healthy => /\ s.streak < MissThreshold /\ s.streak <= Len(m)
                  /\ \A i \in DOMAIN m : i > Len(m) - s.streak => s.started <= m[i]

\* The misses that gave an endpoint up.
Cause(s, m) ==
  ~s.healthy => /\ Len(m) >= MissThreshold
                /\ m[Len(m)] - m[Len(m) - MissThreshold + 1] <= MissWindow

CauseInv == \A e \in Client!Chain : StreakRecorded(ep[e], misses[e], clock) /\ Cause(ep[e], misses[e])

LEMMA ElementOfSeq ==
  ASSUME NEW T, NEW q \in Seq(T)
  PROVE  Len(q) \in Nat /\ DOMAIN q = 1..Len(q) /\ \A i \in DOMAIN q : q[i] \in T
OBVIOUS

\* A miss of an endpoint in use adds to the record what it adds to the streak.
LEMMA MissKeepsCause ==
  ASSUME Client!TypeOK, CauseInv, NEW e \in Client!Chain, Client!Misses(e)
  PROVE  StreakRecorded(ep'[e], misses'[e], clock) /\ Cause(ep'[e], misses'[e])
<1> DEFINE s == ep[e]
           m == misses[e]
           fresh == s.started = None \/ clock - s.started > MissWindow
           streak == IF fresh THEN 1 ELSE s.streak + 1
           started == IF fresh THEN clock ELSE s.started
<1>1. /\ s.healthy \in BOOLEAN /\ s.streak \in Nat /\ s.started \in Nat \cup {None}
      /\ s.streak = 0 => s.started = None
      /\ m \in Seq(0..MaxClock) /\ clock \in Nat /\ MissThreshold \in Nat /\ MissThreshold > 0
      /\ MissWindow \in Nat /\ None = -1
  <2>1. /\ s \in Client!Endpoint /\ (s.streak = 0 => s.started = None)
        /\ m \in Seq(0..MaxClock) /\ clock \in 0..MaxClock
    BY DEF Client!TypeOK
  <2>2. /\ s.healthy \in BOOLEAN /\ s.streak \in 0..MissThreshold
        /\ s.started \in 0..MaxClock \cup {None}
    BY <2>1 DEF Client!Endpoint
  <2> HIDE DEF s, m
  <2>3. s.streak \in Nat /\ s.started \in Nat \cup {None} /\ clock \in Nat
    BY <2>1, <2>2, ClientConstants
  <2>. QED BY <2>1, <2>2, <2>3, ClientConstants
<1>2. StreakRecorded(s, m, clock) /\ Cause(s, m)
  BY DEF CauseInv
<1>3. /\ ep'[e].healthy = (s.healthy /\ streak < MissThreshold)
      /\ ep'[e].streak = (IF streak > MissThreshold THEN MissThreshold ELSE streak)
      /\ ep'[e].started = started
      /\ misses'[e] = IF s.healthy THEN Append(m, clock) ELSE m
  BY DEF Client!Misses, Client!Miss, Client!TypeOK
<1>4. CASE ~s.healthy
  <2>1. misses'[e] = m /\ ~ep'[e].healthy
    BY <1>3, <1>4
  <2>. QED BY <1>2, <1>4, <2>1 DEF StreakRecorded, Cause
<1>5. CASE s.healthy
  <2> DEFINE r == Append(m, clock)
  <2>1. /\ Len(m) \in Nat /\ Len(r) = Len(m) + 1 /\ DOMAIN m = 1..Len(m)
        /\ DOMAIN r = 1..(Len(m) + 1) /\ r[Len(m) + 1] = clock
        /\ \A i \in 1..Len(m) : r[i] = m[i] /\ m[i] \in Nat
    <3> HIDE DEF m
    <3>1. Len(m) \in Nat /\ DOMAIN m = 1..Len(m) /\ \A i \in 1..Len(m) : m[i] \in 0..MaxClock
      BY <1>1, ElementOfSeq
    <3>2. m \in Seq(Nat)
      BY <1>1, <3>1
    <3>3. /\ Len(r) = Len(m) + 1 /\ DOMAIN r = 1..(Len(m) + 1) /\ r[Len(m) + 1] = clock
          /\ \A i \in 1..Len(m) : r[i] = m[i]
      BY <1>1, <3>2
    <3> HIDE DEF r
    <3>. QED BY <3>1, <3>3
  <2>2. misses'[e] = r
    BY <1>3, <1>5
  <2>3. /\ \A i \in DOMAIN m : m[i] <= clock
        /\ s.streak < MissThreshold /\ s.streak <= Len(m)
        /\ \A i \in DOMAIN m : i > Len(m) - s.streak => s.started <= m[i]
    BY <1>2, <1>5 DEF StreakRecorded
  <2> HIDE DEF s, m, r
  <2>4. streak \in Nat /\ streak > 0 /\ streak <= MissThreshold /\ streak <= Len(r)
    BY <1>1, <2>1, <2>3
  <2>5. started \in Nat /\ started <= clock /\ clock - started <= MissWindow
    <3>1. CASE fresh
      BY <1>1, <3>1
    <3>2. CASE ~fresh
      <4>1. s.started \in Nat /\ s.streak > 0 /\ clock - s.started <= MissWindow
        BY <1>1, <3>2
      <4>2. Len(m) \in DOMAIN m /\ Len(m) > Len(m) - s.streak
        BY <1>1, <2>1, <2>3, <4>1
      <4>3. s.started <= m[Len(m)] /\ m[Len(m)] <= clock /\ m[Len(m)] \in Nat
        BY <2>1, <2>3, <4>2
      <4>. QED BY <1>1, <3>2, <4>1, <4>3
    <3>. QED BY <3>1, <3>2
  <2>6. \A i \in DOMAIN r : i > Len(r) - streak => started <= r[i]
    <3> SUFFICES ASSUME NEW i \in DOMAIN r, i > Len(r) - streak PROVE started <= r[i]
      OBVIOUS
    <3>1. CASE i = Len(m) + 1
      BY <2>1, <2>5, <3>1
    <3>2. CASE i # Len(m) + 1
      <4>1. i \in DOMAIN m
        BY <2>1, <3>2
      <4>2. ~fresh
        BY <1>1, <2>1, <3>2
      <4>3. i > Len(m) - s.streak
        BY <1>1, <2>1, <4>1, <4>2
      <4>. QED BY <2>1, <2>3, <4>1, <4>2, <4>3
    <3>. QED BY <3>1, <3>2
  <2>7. \A i \in DOMAIN r : r[i] <= clock
    BY <1>1, <2>1, <2>3
  <2>8. ep'[e].streak = streak /\ ep'[e].started = started
    BY <1>1, <1>3, <2>4
  <2>9. ep'[e].healthy => streak < MissThreshold
    BY <1>3
  <2>10. ~ep'[e].healthy => streak = MissThreshold
    <3>1. ~ep'[e].healthy => ~(streak < MissThreshold)
      BY <1>3, <1>5 DEF s
    <3>. QED BY <1>1, <2>4, <3>1
  <2> HIDE DEF streak, started
  <2>11. StreakRecorded(ep'[e], r, clock)
    BY <2>4, <2>6, <2>7, <2>8, <2>9 DEF StreakRecorded
  <2>12. ASSUME ~ep'[e].healthy
         PROVE  /\ Len(r) >= MissThreshold
                /\ r[Len(r)] - r[Len(r) - MissThreshold + 1] <= MissWindow
    <3> DEFINE k == Len(r) - MissThreshold + 1
    <3>1. k \in DOMAIN r /\ k > Len(r) - streak
      BY <1>1, <2>1, <2>4, <2>10, <2>12
    <3>2. started <= r[k] /\ r[k] \in Nat
      BY <1>1, <2>1, <2>6, <3>1
    <3> HIDE DEF k
    <3>3. r[Len(r)] - r[k] <= MissWindow
      BY <1>1, <2>1, <2>5, <3>2
    <3>. QED BY <2>4, <2>10, <2>12, <3>3 DEF k
  <2>. QED BY <2>2, <2>11, <2>12 DEF Cause
<1>. QED BY <1>1, <1>4, <1>5

LEMMA CauseStep == Client!TypeOK /\ CauseInv /\ [Client!Next]_(Client!vars) => CauseInv'
<1> SUFFICES ASSUME Client!TypeOK, CauseInv, [Client!Next]_(Client!vars) PROVE CauseInv'
  OBVIOUS
<1>1. ASSUME NEW e \in Client!Chain, Client!Answers(e) \/ Client!Misses(e), clock' = clock
      PROVE  CauseInv'
  <2>1. /\ ep \in [Client!Chain -> Client!Endpoint]
        /\ misses \in [Client!Chain -> Seq(0..MaxClock)]
    BY DEF Client!TypeOK
  <2>2. \A f \in Client!Chain : f # e => ep'[f] = ep[f] /\ misses'[f] = misses[f]
    BY <1>1, <2>1 DEF Client!Answers, Client!Misses
  <2>3. StreakRecorded(ep'[e], misses'[e], clock) /\ Cause(ep'[e], misses'[e])
    <3>1. CASE Client!Misses(e)
      BY <3>1, MissKeepsCause
    <3>2. CASE Client!Answers(e)
      <4>1. /\ ep'[e] = [healthy |-> TRUE, streak |-> 0, started |-> None]
            /\ misses'[e] = <<>>
        BY <2>1, <3>2 DEF Client!Answers, Client!Success
      <4>. QED BY <4>1, ClientConstants DEF StreakRecorded, Cause
    <3>. QED BY <1>1, <3>1, <3>2
  <2>. QED BY <1>1, <2>2, <2>3 DEF CauseInv
<1>2. ASSUME UNCHANGED <<ep, misses>>, clock' \in Nat, clock <= clock'
      PROVE  CauseInv'
  <2> SUFFICES ASSUME NEW e \in Client!Chain
               PROVE  StreakRecorded(ep[e], misses[e], clock') /\ Cause(ep[e], misses[e])
    BY <1>2 DEF CauseInv
  <2>1. misses[e] \in Seq(0..MaxClock) /\ clock \in Nat
    BY DEF Client!TypeOK
  <2>2. \A i \in DOMAIN misses[e] : misses[e][i] \in Nat
    <3>1. \A i \in DOMAIN misses[e] : misses[e][i] \in 0..MaxClock
      BY <2>1, ElementOfSeq
    <3>. QED BY <3>1
  <2>. QED BY <1>2, <2>1, <2>2 DEF CauseInv, StreakRecorded
<1>3. clock \in Nat
  BY DEF Client!TypeOK
<1>4. ASSUME NEW c \in Client!Callers, Client!FetchAnswered(c) \/ Client!FetchFails(c)
      PROVE  CauseInv'
  <2>1. fetching[c].at \in Client!Chain /\ clock' = clock
    BY <1>4, CallersTyped DEF Client!FetchAnswered, Client!FetchFails
  <2>. QED BY <1>1, <1>2, <1>3, <1>4, <2>1 DEF Client!FetchAnswered, Client!FetchFails
<1>5. ASSUME NEW e \in Client!Chain, Client!ProbeSucceeds(e) \/ Client!ProbeFails(e)
      PROVE  CauseInv'
  BY <1>1, <1>5 DEF Client!ProbeSucceeds, Client!ProbeFails
<1>6. CASE \/ \E c \in Client!Callers : Client!Read(c) \/ Client!Write(c)
           \/ \E e \in Client!Chain : Client!Outage(e)
           \/ UNCHANGED Client!vars
  BY <1>2, <1>3, <1>6 DEF Client!Read, Client!Write, Client!Outage, Client!vars
<1>7. CASE Client!Tick
  BY <1>2, <1>3, <1>7 DEF Client!Tick
<1>. QED BY <1>4, <1>5, <1>6, <1>7 DEF Client!Next

\* FailoverTransport gives an endpoint up only after MissThreshold misses in a row, the
\* first and the last at most a window apart, whichever calls and probes recorded them
\* and however often it answered before.
THEOREM EndpointsGivenUpForCause == Client!Spec => []GivenUpForCause
<1>1. Client!Init => CauseInv
  BY ClientConstants DEF Client!Init, CauseInv, StreakRecorded, Cause
<1>2. CauseInv => GivenUpForCause
  BY DEF CauseInv, Cause, GivenUpForCause, Client!GivenUpForCause
<1>3. ClientInv => Client!TypeOK
  BY DEF ClientInv
<1>. QED BY <1>1, <1>2, <1>3, CauseStep, ClientInit, ClientNext, PTL DEF Client!Spec

==============================================================================
