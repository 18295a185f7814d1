----------------------------- MODULE ReplicatedLog -----------------------------
(***************************************************************************)
(* What the durable outbox promises: a log of committed mutations, a       *)
(* replica that applies them in order, each exactly once, and a source     *)
(* that forgets a mutation only after the replica owns it.                 *)
(***************************************************************************)
EXTENDS Naturals, Sequences

CONSTANT Mutations

VARIABLES
  log,     \* the mutations the source committed
  replica, \* the mutations the replica applied
  done     \* how many of them the source took off its outbox

logVars == <<log, replica, done>>

Init == log = <<>> /\ replica = <<>> /\ done = 0

Commit ==
  /\ \E m \in Mutations : log' = Append(log, m)
  /\ UNCHANGED <<replica, done>>

Replicate ==
  /\ Len(replica) < Len(log)
  /\ replica' = Append(replica, log[Len(replica) + 1])
  /\ UNCHANGED <<log, done>>

Acknowledge ==
  /\ done < Len(replica)
  /\ done' = done + 1
  /\ UNCHANGED <<log, replica>>

Next == Commit \/ Replicate \/ Acknowledge

Spec == Init /\ [][Next]_logVars

=============================================================================
