----------------------------- MODULE MCRunQueue -----------------------------
(* RunQueue on a small instance. *)
EXTENDS RunQueue, TLC

\* Workers are compared only for equality.
WorkerSymmetry == Permutations(Workers)

=============================================================================
