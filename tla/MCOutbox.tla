------------------------------- MODULE MCOutbox -------------------------------
(***************************************************************************)
(* An instance of DurableOutbox for TLC.  A behaviour is about the race of *)
(* the writers for the backlog, or about the faults of a stream with one   *)
(* writer; the initial state says which.                                   *)
(***************************************************************************)
EXTENDS DurableOutbox

CONSTANT w1

VARIABLE focus

MCInit == Init /\ focus \in {"writers", "faults"}

MCNext ==
  /\ Next
  /\ UNCHANGED focus
  /\ focus = "writers" => UNCHANGED faults
  /\ focus = "faults" => \A w \in Writers \ {w1} : tx'[w] = tx[w] /\ token'[w] = token[w]

MCSpec == MCInit /\ [][MCNext]_<<vars, focus>> /\ Fairness

===============================================================================
