------------------------------ MODULE MCFailures ------------------------------
(***************************************************************************)
(* Instances for TLC of the three places where failures are counted over   *)
(* time: the lockout of the registry, the pair of the Python server, and   *)
(* the endpoints of the client's transport.  They share no state, so one   *)
(* of them moves in each behaviour: the initial state says which.          *)
(***************************************************************************)
EXTENDS FailureLockout

CONSTANTS
  Replicas, Reads, Writes, MissThreshold, MissWindow, MaxClock,
  Requests, Permitted, SigWindow, Buffer, ExpiresAt, MaxTime

ASSUME FailuresAssumption ==
  /\ Replicas \in Nat /\ MissThreshold \in Nat \ {0} /\ MissWindow \in Nat
  /\ MaxClock \in Nat
  /\ Reads \cap Writes = {}
  /\ SigWindow \in Nat /\ Buffer \in Nat \ {0} /\ ExpiresAt \in Nat /\ MaxTime \in Nat

VARIABLES
  focus,                                                        \* which one moves
  clock, up, ep, fetching, tried, misses,                       \* FailoverClient
  pyClock, pyStatus, pyFailed, signedAt, nonces, accepted       \* PyVerifier

Client == INSTANCE FailoverClient WITH now <- clock, call <- fetching, MaxTime <- MaxClock
Python == INSTANCE PyVerifier WITH now <- pyClock, status <- pyStatus, failed <- pyFailed

clientVars == <<clock, up, ep, fetching, tried, misses>>
pythonVars == <<pyClock, pyStatus, pyFailed, signedAt, nonces, accepted>>
allVars == <<focus, vars, clientVars, pythonVars>>

MCInit ==
  /\ focus \in {"lockout", "client", "python"}
  /\ Init
  /\ Client!Init
  /\ Python!Init

MCNext ==
  \/ focus = "lockout" /\ Next /\ UNCHANGED <<focus, clientVars, pythonVars>>
  \/ focus = "client" /\ Client!Next /\ UNCHANGED <<focus, vars, pythonVars>>
  \/ focus = "python" /\ Python!Next /\ UNCHANGED <<focus, vars, clientVars>>

LockoutStep(c) ==
  focus = "lockout" /\ ApplyFailure(c) /\ UNCHANGED <<focus, clientVars, pythonVars>>

\* The promise chain of the store serves every queued write.
MCSpec ==
  /\ MCInit /\ [][MCNext]_allVars
  /\ \A c \in Calls : WF_allVars(LockoutStep(c))

------------------------------------------------------------------------------

\* A read of the transport throws only after it fetched from every endpoint, and a
\* write never fetches from a replica.
ThrowsAfterAll == Client!ThrowsAfterAll

\* The transport gives an endpoint up only after enough misses in one window with no
\* answer between them.
GivenUpForCause == Client!GivenUpForCause

\* The Python server executes each signed request at most once.
ExecutedOnce == Python!ExecutedOnce

==============================================================================
