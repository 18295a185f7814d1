---------------------------- MODULE MCAuthorities ----------------------------
(***************************************************************************)
(* Instances for TLC of the two authorities kept in PostgreSQL that other  *)
(* parts must not run without: the schema of the outbox, and the witness   *)
(* of the Redis generations.  They share no state, so one of them moves in *)
(* each behaviour: the initial state says which.                           *)
(***************************************************************************)
EXTENDS SchemaAuthority, TLC

CONSTANTS p1, p2, w1, w2, i1, r1, r2, r3, Callers, Epochs, MaxSequence

VARIABLES focus, witness, redis, call, snapshots, used, reserved

Checkpoint == INSTANCE RollbackCheckpoint

ASSUME CheckpointAssumption == MaxSequence \in Nat /\ None \notin Checkpoint!State

checkpointVars == <<witness, redis, call, snapshots, used, reserved>>
allVars == <<focus, vars, checkpointVars>>

Symmetry ==
  Permutations(Procs) \cup Permutations(Writers) \cup Permutations(Rows \ BadRows) \cup Permutations(Callers)

MCInit ==
  /\ focus \in {"schema", "checkpoint"}
  /\ Init
  /\ Checkpoint!Init

MCNext ==
  \/ focus = "schema" /\ Next /\ UNCHANGED <<focus, checkpointVars>>
  \/ focus = "checkpoint" /\ Checkpoint!Next /\ UNCHANGED <<focus, vars>>

MCSpec == MCInit /\ [][MCNext]_allVars

------------------------------------------------------------------------------

\* A generation is handed out at most once, and its mirrors are never ahead of the
\* witness nor overtake each other.
ReservedOnce == Checkpoint!ReservedOnce

==============================================================================
