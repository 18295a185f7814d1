---------------------------- MODULE FailoverClient ----------------------------
(***************************************************************************)
(* Endpoint selection of the client SDK (FailoverTransport): reads fall    *)
(* over to replicas and back, writes go to the primary only, and every     *)
(* call in flight shares and changes the same belief about the endpoints.  *)
(***************************************************************************)
EXTENDS Integers, Sequences, FiniteSets

CONSTANTS
  Replicas,       \* number of replicas
  Reads, Writes,  \* calls of read and of write
  MissThreshold,  \* missThreshold
  MissWindow,     \* windowMs
  MaxTime,        \* bound on the clock
  None

VARIABLES
  now,    \* Date.now(), in units of a miss window
  up,     \* endpoints that answer
  ep,     \* per endpoint: healthy, streak, streakStartedAt
  call,   \* per call: the endpoint it is fetching from, and in which pass
  tried,  \* history: endpoints the current call has fetched from
  misses  \* history: times at which an endpoint missed since it last answered, up to
          \* the miss that gave it up

vars == <<now, up, ep, call, tried, misses>>

Primary == 0
Chain == Primary..Replicas
Callers == Reads \cup Writes

Endpoint == [healthy : BOOLEAN, streak : 0..MissThreshold, started : 0..MaxTime \cup {None}]

At(pass, e) == [pc |-> pass, at |-> e]
InFlight(c) == call[c].pc \in {"chain", "last", "write"}

TypeOK ==
  /\ now \in 0..MaxTime
  /\ up \subseteq Chain
  /\ ep \in [Chain -> Endpoint]
  /\ \A e \in Chain : ep[e].streak = 0 => ep[e].healthy /\ ep[e].started = None
  /\ call \in [Callers -> [pc : {"idle", "done", "failed"}]
                          \cup [pc : {"chain", "last", "write"}, at : Chain]]
  /\ tried \in [Callers -> SUBSET Chain]
  /\ misses \in [Chain -> Seq(0..MaxTime)]

Init ==
  /\ now = 0
  /\ up = Chain
  /\ ep = [e \in Chain |-> [healthy |-> TRUE, streak |-> 0, started |-> None]]
  /\ call = [c \in Callers |-> [pc |-> "idle"]]
  /\ tried = [c \in Callers |-> {}]
  /\ misses = [e \in Chain |-> <<>>]

------------------------------------------------------------------------------

\* Mutant: an answer does not end the streak.
SuccessKeepsStreak(s) == [s EXCEPT !.healthy = TRUE]

\* recordSuccess.
Success(s) == [healthy |-> TRUE, streak |-> 0, started |-> None]

\* recordMiss: a streak that began longer than a window ago starts again, and an
\* unhealthy endpoint stays so.  Beyond the threshold the streak is not counted on.
Miss(s) ==
  LET fresh  == s.started = None \/ now - s.started > MissWindow
      streak == IF fresh THEN 1 ELSE s.streak + 1
  IN  [healthy |-> s.healthy /\ streak < MissThreshold,
       streak  |-> IF streak > MissThreshold THEN MissThreshold ELSE streak,
       started |-> IF fresh THEN now ELSE s.started]

\* Endpoint e answers or misses.
Answers(e) ==
  /\ ep' = [ep EXCEPT ![e] = Success(@)]
  /\ misses' = [misses EXCEPT ![e] = <<>>]

Misses(e) ==
  /\ ep' = [ep EXCEPT ![e] = Miss(@)]
  /\ misses' = [misses EXCEPT ![e] = IF ep[e].healthy THEN Append(@, now) ELSE @]

\* The first endpoint from e on that is believed healthy, else the last-resort pass.
NextHealthy(eps, e) ==
  LET healthy == {f \in e..Replicas : eps[f].healthy}
  IN  IF healthy = {} THEN At("last", Primary)
      ELSE At("chain", CHOOSE f \in healthy : \A g \in healthy : f <= g)

\* Mutant: the last-resort pass skips what is believed unhealthy.
AfterMissSkips(c, eps) ==
  CASE c.pc = "chain" -> NextHealthy(eps, c.at + 1)
    [] c.pc = "last" /\ NextHealthy(eps, c.at + 1).pc = "chain" ->
         At("last", NextHealthy(eps, c.at + 1).at)
    [] OTHER -> [pc |-> "failed"]

\* Where a call goes on after its fetch failed: read tries the next healthy endpoint,
\* then every endpoint once more; write throws.
AfterMiss(c, eps) ==
  CASE c.pc = "chain" -> NextHealthy(eps, c.at + 1)
    [] c.pc = "last" /\ c.at < Replicas -> At("last", c.at + 1)
    [] OTHER -> [pc |-> "failed"]

Read(c) ==
  /\ c \in Reads /\ ~InFlight(c)
  /\ call' = [call EXCEPT ![c] = NextHealthy(ep, Primary)]
  /\ tried' = [tried EXCEPT ![c] = {}]
  /\ UNCHANGED <<now, up, ep, misses>>

\* write: PrimaryUnavailableError, or a fetch from the primary.
Write(c) ==
  /\ c \in Writes /\ ~InFlight(c)
  /\ call' = [call EXCEPT ![c] =
       IF ep[Primary].healthy THEN At("write", Primary) ELSE [pc |-> "failed"]]
  /\ tried' = [tried EXCEPT ![c] = {}]
  /\ UNCHANGED <<now, up, ep, misses>>

\* The fetch is answered within timeoutMs, with whatever status.
FetchAnswered(c) ==
  /\ InFlight(c) /\ call[c].at \in up
  /\ Answers(call[c].at)
  /\ call' = [call EXCEPT ![c] = [pc |-> "done"]]
  /\ tried' = [tried EXCEPT ![c] = @ \cup {call[c].at}]
  /\ UNCHANGED <<now, up>>

\* The fetch times out or is refused; the last-resort pass records no miss.
FetchFails(c) ==
  /\ InFlight(c) /\ call[c].at \notin up
  /\ IF call[c].pc = "last" THEN UNCHANGED <<ep, misses>> ELSE Misses(call[c].at)
  /\ call' = [call EXCEPT ![c] = AfterMiss(@, ep')]
  /\ tried' = [tried EXCEPT ![c] = @ \cup {call[c].at}]
  /\ UNCHANGED <<now, up>>

\* probe: the health path answers with a 2xx.
ProbeSucceeds(e) ==
  /\ e \in up
  /\ Answers(e)
  /\ UNCHANGED <<now, up, call, tried>>

\* probe: any other answer, or none.
ProbeFails(e) ==
  /\ e \notin up
  /\ Misses(e)
  /\ UNCHANGED <<now, up, call, tried>>

\* An endpoint stops or resumes answering.
Outage(e) ==
  /\ up' = IF e \in up THEN up \ {e} ELSE up \cup {e}
  /\ UNCHANGED <<now, ep, call, tried, misses>>

Tick ==
  /\ now < MaxTime
  /\ now' = now + 1
  /\ UNCHANGED <<up, ep, call, tried, misses>>

Next ==
  \/ Tick
  \/ \E c \in Callers : Read(c) \/ Write(c) \/ FetchAnswered(c) \/ FetchFails(c)
  \/ \E e \in Chain : ProbeSucceeds(e) \/ ProbeFails(e) \/ Outage(e)

Spec == Init /\ [][Next]_vars

------------------------------------------------------------------------------
(* Properties.                                                             *)

\* A read that throws has fetched from every endpoint, also from those that were
\* believed unhealthy when it began and those that other calls gave up while it ran.
\* A write that throws has fetched from no replica.
ThrowsAfterAll ==
  /\ \A c \in Reads : call[c].pc = "failed" => tried[c] = Chain
  /\ \A c \in Writes : tried[c] \subseteq {Primary}

\* "Consecutive misses before an endpoint is marked unhealthy", which "must occur within
\* this window to accumulate": an endpoint is given up only by MissThreshold misses of
\* which the first and the last lie at most a window apart and none came before an
\* answer, whichever calls and probes in flight saw them (recordMiss, recordSuccess).
GivenUpForCause ==
  \A e \in Chain :
    LET n == Len(misses[e])
    IN  ~ep[e].healthy =>
          /\ n >= MissThreshold
          /\ misses[e][n] - misses[e][n - MissThreshold + 1] <= MissWindow

==============================================================================
