---------------------------- MODULE RunLifecycle ----------------------------
(***************************************************************************)
(* What the queue promises about ONE run, whoever calls it and in whatever *)
(* order: the legal moves of its status, and a budget of claims.  A run is *)
(* born with a number of claims it may use; taking it spends one, parking  *)
(* it for a human gives that one back, and a run whose lease ran out goes  *)
(* back to the queue only while a claim is left.                           *)
(*                                                                         *)
(* The code has no such counter: it has attempts and max_attempts, claim() *)
(* tests neither, and three functions keep them in step.  RunQueue maps    *)
(* claims_left to max_attempts - attempts.                                 *)
(***************************************************************************)
EXTENDS Naturals, RunStates

CONSTANT MaxBudget      \* the largest max_attempts a caller passes

VARIABLES status,       \* of this run
          claims_left   \* how often it may still be claimed

lifeVars == <<status, claims_left>>

LifeInit == status = "absent" /\ claims_left = 0

Born == /\ status = "absent"
        /\ status' = "queued"
        /\ claims_left' \in 1 .. MaxBudget

Claimed == /\ status = "queued" /\ claims_left > 0
           /\ status' = "running"
           /\ claims_left' = claims_left - 1

Finished == /\ status = "running"
            /\ status' \in {"completed", "failed"}
            /\ UNCHANGED claims_left

\* Waiting for a human does not count against the budget.
Parked == /\ status = "running"
          /\ status' = "awaiting_approval"
          /\ claims_left' = claims_left + 1

Decided == /\ status = "awaiting_approval"
           /\ status' \in {"queued", "rejected"}
           /\ UNCHANGED claims_left

\* The lease ran out and the reaper found the row.
Expired == /\ status = "running"
           /\ status' = IF claims_left > 0 THEN "queued" ELSE "failed"
           /\ UNCHANGED claims_left

LifeNext == Born \/ Claimed \/ Finished \/ Parked \/ Decided \/ Expired

LifeSpec == LifeInit /\ [][LifeNext]_lifeVars

=============================================================================
