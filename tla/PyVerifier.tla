------------------------------ MODULE PyVerifier ------------------------------
(***************************************************************************)
(* The Python server: BPCVerifier.verify with the registry and the nonce   *)
(* store of one process, for one pair.  Copies of signed requests arrive   *)
(* in any number and at any time.                                          *)
(*                                                                         *)
(* Under the FastAPI middleware verify has no await, so it is one step.    *)
(* What it checks of the bytes (headers, encoding, HMAC, method, path,     *)
(* pair id, body hash, signature) is one value: the copy is "intact",      *)
(* "malformed" (refused without a trace) or "altered" (counted).           *)
(***************************************************************************)
EXTENDS Integers

CONSTANTS
  Requests,      \* signed requests, one nonce each
  Permitted,     \* those whose method the scope of the pair allows
  SigWindow,     \* sig_window_ms
  Buffer,        \* the 10 s added to twice the window
  LockoutCount,  \* lockout_count
  ExpiresAt,     \* expires_at of the pair
  MaxTime,       \* bound on the clock
  None

VARIABLES
  now,       \* time.time()
  status,    \* status of the pair's record
  failed,    \* failed_sigs
  signedAt,  \* per request: the timestamp in its payload
  nonces,    \* per request: expiry of its nonce in the store, or None
  accepted   \* history: how often each request passed

vars == <<now, status, failed, signedAt, nonces, accepted>>

TypeOK ==
  /\ now \in 0..MaxTime
  /\ status \in {"absent", "pending", "active", "revoked"}
  /\ failed \in 0..LockoutCount
  /\ signedAt \in [Requests -> 0..MaxTime + SigWindow \cup {None}]
  /\ nonces \in [Requests -> 0..MaxTime + 2 * SigWindow + Buffer \cup {None}]
  /\ accepted \in [Requests -> Nat]

Init ==
  /\ now = 0
  /\ status = "absent"
  /\ failed = 0
  /\ signedAt = [r \in Requests |-> None]
  /\ nonces = [r \in Requests |-> None]
  /\ accepted = [r \in Requests |-> 0]

------------------------------------------------------------------------------

\* register: a record with the status the application gives it takes the place of the
\* one that is there.
Register(s) ==
  /\ status' = s
  /\ failed' = 0
  /\ UNCHANGED <<now, signedAt, nonces, accepted>>

\* revoke.
Revoke ==
  /\ status \in {"pending", "active"}
  /\ status' = "revoked"
  /\ UNCHANGED <<now, failed, signedAt, nonces, accepted>>

\* signRequest of the client: nonce and timestamp are fixed once.  The client's clock
\* is off by at most a window.
SignRequest(r, ts) ==
  /\ signedAt[r] = None
  /\ now - ts \in -SigWindow..SigWindow
  /\ signedAt' = [signedAt EXCEPT ![r] = ts]
  /\ UNCHANGED <<now, status, failed, nonces, accepted>>

\* The pair exists and is not revoked, expired or locked out; a pending one is served.
Served == status \in {"pending", "active"} /\ now <= ExpiresAt /\ failed < LockoutCount

\* The timestamp lies within the window, on either side.
Fresh(r) == now - signedAt[r] \in -SigWindow..SigWindow

\* Mutant: the nonce is kept for as long as the request can be fresh, and no longer.
TtlUnbuffered == 2 * SigWindow

Ttl == 2 * SigWindow + Buffer

\* _evict: an entry is dropped once its expiry has come.
Evicted == [r \in Requests |-> IF nonces[r] # None /\ nonces[r] <= now THEN None ELSE nonces[r]]

\* verify refuses the copy before anything is counted.
Refuse(r, bytes) ==
  /\ ~Served \/ bytes = "malformed"
  /\ UNCHANGED <<failed, nonces, accepted>>

\* verify counts a failure: stale, or altered.
CountFailure(r, bytes) ==
  /\ Served /\ bytes # "malformed"
  /\ ~Fresh(r) \/ bytes = "altered"
  /\ failed' = failed + 1
  /\ UNCHANGED <<nonces, accepted>>

\* verify reaches the scope check and, where the scope allows the method, the nonce.
Consume(r, bytes) ==
  /\ Served /\ bytes = "intact" /\ Fresh(r)
  /\ IF r \notin Permitted THEN UNCHANGED <<nonces, failed, accepted>>
     ELSE IF Evicted[r] # None
     THEN /\ nonces' = Evicted
          /\ UNCHANGED <<failed, accepted>>
     ELSE /\ nonces' = [Evicted EXCEPT ![r] = now + Ttl]
          /\ failed' = 0
          /\ accepted' = [accepted EXCEPT ![r] = @ + 1]

\* dispatch of the middleware: a copy of a request arrives.
Arrive(r, bytes) ==
  /\ signedAt[r] # None
  /\ Refuse(r, bytes) \/ CountFailure(r, bytes) \/ Consume(r, bytes)
  /\ UNCHANGED <<now, status, signedAt>>

Tick ==
  /\ now < MaxTime
  /\ now' = now + 1
  /\ UNCHANGED <<status, failed, signedAt, nonces, accepted>>

Next ==
  \/ \E s \in {"pending", "active"} : Register(s)
  \/ Revoke \/ Tick
  \/ \E r \in Requests : \/ \E ts \in 0..MaxTime + SigWindow : SignRequest(r, ts)
                         \/ \E bytes \in {"intact", "altered", "malformed"} : Arrive(r, bytes)

Spec == Init /\ [][Next]_vars

------------------------------------------------------------------------------
(* Properties.                                                             *)

\* A signed request is executed at most once, however many copies arrive and however
\* late, also when its timestamp lies a whole window ahead of the server's clock and
\* its nonce is evicted while others are consumed.
ExecutedOnce == \A r \in Requests : accepted[r] <= 1

==============================================================================
