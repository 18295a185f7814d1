-------------------------- MODULE RollbackCheckpoint --------------------------
(***************************************************************************)
(* The guard against a restored Redis (rollback-checkpoint.ts): a witness  *)
(* in another failure domain counts the generations of an epoch, a caller  *)
(* reserves the next one there and mirrors it into Redis afterwards.       *)
(*                                                                         *)
(* The witness, the Redis mirror and the callers of reserve are external:  *)
(* the module has what the interfaces ask of them, and their faults (a     *)
(* restored snapshot, a deleted row, a lost answer, a crashed caller).     *)
(***************************************************************************)
EXTENDS Integers, FiniteSets

CONSTANTS
  Callers,      \* processes that reserve
  Epochs,       \* epochs an authorizer may approve, each once
  MaxSequence,  \* MAX_SEQUENCE
  None

VARIABLES
  witness,    \* the row of the witness, or None
  redis,      \* what Redis mirrors
  call,       \* per caller: where its reserve stands
  snapshots,  \* every state Redis was in and can be restored to
  used,       \* epochs that were provisioned
  reserved    \* history: how often each generation was handed out

vars == <<witness, redis, call, snapshots, used, reserved>>

State == [epoch : Epochs, sequence : 0..MaxSequence]

Idle == [pc |-> "idle"]

TypeOK ==
  /\ witness \in State \cup {None}
  /\ redis \in State
  /\ call \in [Callers -> {Idle} \cup [pc : {"check", "advance", "mirror"}, view : State]]
  /\ snapshots \subseteq State
  /\ used \subseteq Epochs
  /\ reserved \in [State -> Nat]

\* Redis is in use; no witness was provisioned yet.
Init ==
  /\ witness = None
  /\ redis \in [epoch : Epochs, sequence : {0}]
  /\ call = [c \in Callers |-> Idle]
  /\ snapshots = {redis}
  /\ used = {}
  /\ reserved = [s \in State |-> 0]

Successor(s) == [s EXCEPT !.sequence = @ + 1]

------------------------------------------------------------------------------
(* RollbackCheckpointGuard.                                                *)

\* provision: the authorizer approves, and the row is created only where there is none.
\* A denial, an outage and a conflict change nothing.  That an epoch is approved once is
\* an assumption on the ProvisioningAuthorizer, which is injected: the code itself would
\* create the row of a used epoch again once it was deleted.
Provision(e) ==
  /\ e \notin used
  /\ witness = None
  /\ witness' = [epoch |-> e, sequence |-> 0]
  /\ used' = used \cup {e}
  /\ UNCHANGED <<redis, call, snapshots, reserved>>

\* The caller of reserve reads the mirror.
View(c) ==
  /\ call[c] = Idle
  /\ call' = [call EXCEPT ![c] = [pc |-> "check", view |-> redis]]
  /\ UNCHANGED <<witness, redis, snapshots, used, reserved>>

\* check.
Verdict(view) ==
  CASE witness = None -> "witness-missing"
    [] witness.epoch # view.epoch -> "epoch-mismatch"
    [] witness.epoch = view.epoch /\ view.sequence < witness.sequence -> "rollback"
    [] witness.epoch = view.epoch /\ view.sequence > witness.sequence -> "redis-ahead"
    [] OTHER -> "ok"

\* A sequence at the safe-integer ceiling is refused.
BelowCeiling(view) == view.sequence < MaxSequence

\* reserve up to the compare-and-advance: any verdict but "ok" throws.
Check(c) ==
  /\ call[c].pc = "check"
  /\ call' = [call EXCEPT ![c] =
       IF Verdict(@.view) = "ok" /\ BelowCeiling(@.view) THEN [@ EXCEPT !.pc = "advance"] ELSE Idle]
  /\ UNCHANGED <<witness, redis, snapshots, used, reserved>>

\* Mutant: the witness compares the epoch only.
CompareEpoch(c) == witness # None /\ witness.epoch = call[c].view.epoch

\* The state the witness must still be in for the advance to happen.
Compare(c) == witness = call[c].view

\* compareAndAdvance succeeds; the answer reaches the caller, is lost, or is refused as
\* malformed.
Advance(c) ==
  /\ call[c].pc = "advance"
  /\ Compare(c)
  /\ LET next == Successor(call[c].view) IN
       /\ witness' = next
       /\ \/ /\ call' = [call EXCEPT ![c] = [pc |-> "mirror", view |-> next]]
             /\ reserved' = [reserved EXCEPT ![next] = @ + 1]
          \/ /\ call' = [call EXCEPT ![c] = Idle]
             /\ UNCHANGED reserved
  /\ UNCHANGED <<redis, snapshots, used>>

\* CheckpointConflictError: someone else advanced, or the row is gone.
Conflict(c) ==
  /\ call[c].pc = "advance"
  /\ ~Compare(c)
  /\ call' = [call EXCEPT ![c] = Idle]
  /\ UNCHANGED <<witness, redis, snapshots, used, reserved>>

------------------------------------------------------------------------------
(* The callers, Redis and the database of the witness.                     *)

SetRedis(s) == redis' = s /\ snapshots' = snapshots \cup {s}

\* The caller mirrors what it reserved.
Mirror(c) ==
  /\ call[c].pc = "mirror"
  /\ SetRedis(call[c].view)
  /\ call' = [call EXCEPT ![c] = Idle]
  /\ UNCHANGED <<witness, used, reserved>>

\* A caller dies, or one of its calls is refused: an outage fails closed.
Crash(c) ==
  /\ call[c] # Idle
  /\ call' = [call EXCEPT ![c] = Idle]
  /\ UNCHANGED <<witness, redis, snapshots, used, reserved>>

\* The governed resync after a new epoch was provisioned.
Resync ==
  /\ witness # None
  /\ redis.epoch # witness.epoch
  /\ SetRedis([epoch |-> witness.epoch, sequence |-> 0])
  /\ UNCHANGED <<witness, call, used, reserved>>

\* Redis fails over to, or is restored from, an earlier state.
Restore(s) ==
  /\ s \in snapshots
  /\ redis' = s
  /\ UNCHANGED <<witness, call, snapshots, used, reserved>>

\* The row of the witness is deleted.
LoseWitness ==
  /\ witness # None
  /\ witness' = None
  /\ UNCHANGED <<redis, call, snapshots, used, reserved>>

Next ==
  \/ \E e \in Epochs : Provision(e)
  \/ \E c \in Callers : View(c) \/ Check(c) \/ Advance(c) \/ Conflict(c) \/ Mirror(c) \/ Crash(c)
  \/ \E s \in snapshots : Restore(s)
  \/ Resync \/ LoseWitness

Spec == Init /\ [][Next]_vars

------------------------------------------------------------------------------
(* Properties.                                                             *)

\* A generation is handed out at most once: not to two callers that saw the same
\* mirror, not again after Redis was rolled back to before it, and not after the row
\* of the witness was deleted and the namespace provisioned anew.  Redis is never ahead
\* of the witness of its epoch, and a caller that still has to mirror its reservation
\* is the only one of its epoch, so mirrors cannot overtake each other and set Redis
\* back (RollbackCheckpointGuard.reserve).
ReservedOnce ==
  /\ \A s \in State : reserved[s] <= 1
  /\ witness # None /\ redis.epoch = witness.epoch => redis.sequence <= witness.sequence
  /\ \A c, d \in Callers :
       /\ call[c].pc = "mirror"
       /\ call[d].pc = "mirror"
       /\ call[c].view.epoch = call[d].view.epoch
       => c = d

==============================================================================
