--------------------------- MODULE MCTaskPolling ---------------------------
(* Instances of TaskPolling for TLC. *)
EXTENDS TaskPolling, TLC

PollerSymmetry == Permutations(Pollers)
=============================================================================
