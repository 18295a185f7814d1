---------------------------- MODULE MCReplication ----------------------------
(***************************************************************************)
(* An instance of Replication for TLC.  A behaviour has two of these: two  *)
(* callers, two keys, faults; the initial state says which one it does     *)
(* without.  One caller of two keys meets one fault less.                  *)
(***************************************************************************)
EXTENDS Replication

CONSTANTS w1, k1

VARIABLE without

MCInit == Init /\ without \in {"callers", "keys", "faults"}

MCNext ==
  /\ Next
  /\ UNCHANGED without
  /\ without = "callers" => /\ \A w \in Writers \ {w1} : wpc'[w] = "idle"
                            /\ faults' < MaxFaults
  /\ without = "keys" => /\ \A w \in Writers : arg'[w] = Absent \/ arg'[w].key = k1
                         /\ own' \subseteq {k1}
  /\ without = "faults" => UNCHANGED faults

MCSpec == MCInit /\ [][MCNext]_<<vars, without>> /\ Fairness

==============================================================================
