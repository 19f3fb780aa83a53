------------------------------ MODULE MCWorker ------------------------------
(* Worker on small instances. *)
EXTENDS Worker, TLC

WorkerSymmetry == Permutations(Workers)

=============================================================================
