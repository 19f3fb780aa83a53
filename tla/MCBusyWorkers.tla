--------------------------- MODULE MCBusyWorkers ---------------------------
(* BusyWorkers on a small instance. *)
EXTENDS BusyWorkers

=============================================================================
