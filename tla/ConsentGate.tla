---------------------------- MODULE ConsentGate ----------------------------
(***************************************************************************)
(* The approvals of src/octo/approvals.py on top of the queue.  A run's    *)
(* approval rows are kept as what the code reads of them: how many are     *)
(* pending, and whether one is approved or rejected.  Rows are never       *)
(* deleted and a decided row is never pending again.                       *)
(*                                                                         *)
(* Callers are arbitrary, as in RunQueue, except that nobody parks a run   *)
(* but request(): park_awaiting_approval() of queue.py has no caller.      *)
(***************************************************************************)
EXTENDS RunQueue

VARIABLES
    pending,    \* number of the run's approvals with status pending
    approved,   \* some approval of the run has status approved
    rejected    \* some approval of the run has status rejected

consentVars == <<pending, approved, rejected>>
gateVars == <<status, attempts, max_attempts, locked_by, lease,
              selected, trail, requeues, pending, approved, rejected>>

ConsentInit ==
    /\ QueueInit
    /\ pending = [r \in Runs |-> 0]
    /\ approved = [r \in Runs |-> FALSE]
    /\ rejected = [r \in Runs |-> FALSE]

-----------------------------------------------------------------------------
\* Bug: two transactions; the row stays when the run cannot be parked.
RequestTorn(r) ==
    /\ pending' = [pending EXCEPT ![r] = @ + 1]
    /\ Park(r) \/ (status[r] # "running" /\ UNCHANGED queueVars)
    /\ UNCHANGED <<approved, rejected>>

\* request(): the new row and the parking commit together or not at all.
Request(r) ==
    /\ pending' = [pending EXCEPT ![r] = @ + 1]
    /\ Park(r)
    /\ UNCHANGED <<approved, rejected>>

\* Bug: the query has lost "AND status = 'approved'".
HasAnyApproval(r) == approved[r] \/ rejected[r] \/ pending[r] > 0

\* has_approved().
HasApproved(r) == approved[r]

\* Bug: the two target states are swapped.
DecideSwapped(r, approve) ==
    /\ pending[r] > 0
    /\ pending' = [pending EXCEPT ![r] = 0]
    /\ approved' = [approved EXCEPT ![r] = @ \/ approve]
    /\ rejected' = [rejected EXCEPT ![r] = @ \/ ~approve]
    /\ Unpark(r, ~approve)

\* decide(): every pending row of the run takes the decision, then the run
\* moves.  Without a pending row it raises LookupError (404), with one but a
\* run that is not parked IllegalTransition (409); both roll back.  A second
\* decision made at the same time waits for the row lock and then finds
\* nothing pending.
Decide(r, approve) ==
    /\ pending[r] > 0
    /\ pending' = [pending EXCEPT ![r] = 0]
    /\ approved' = [approved EXCEPT ![r] = @ \/ approve]
    /\ rejected' = [rejected EXCEPT ![r] = @ \/ ~approve]
    /\ Unpark(r, approve)

\* The transactions of the queue that leave the approvals alone.
QueueStep ==
    \/ \E busy \in SUBSET Runs :
          \/ ReapExpired(busy)
          \/ \E w \in Workers : ClaimSelect(w, busy)
    \/ \E r \in Runs :
          \/ \E budget \in 1 .. MaxBudget : Enqueue(r, budget)
          \/ \E outcome \in {"completed", "failed"} : Finish(r, outcome)
          \/ LeaseRunsOut(r)
    \/ \E w \in Workers :
          \/ ClaimAbort(w)
          \/ \E r \in Runs : ClaimCommit(w, r) \/ Heartbeat(w, r)

ConsentNext ==
    \/ QueueStep /\ UNCHANGED consentVars
    \/ \E r \in Runs : Request(r) \/ \E approve \in BOOLEAN : Decide(r, approve)

ConsentSpec == ConsentInit /\ [][ConsentNext]_gateVars

-----------------------------------------------------------------------------
ConsentTypeOK ==
    /\ pending \in [Runs -> Nat]
    /\ approved \in [Runs -> BOOLEAN]
    /\ rejected \in [Runs -> BOOLEAN]

\* A run waits for a human exactly while one approval of it is pending: no
\* decision is ever refused with 409, no run is parked with nothing left to
\* decide, and no request piles up behind another however often workers
\* park the run.  decide() relies on it and checks neither half.
PendingIffParked ==
    \A r \in Runs : pending[r] = IF status[r] = "awaiting_approval" THEN 1 ELSE 0

\* A rejection is the run's end, and the only way to status rejected: no
\* retry, reaper or later approval brings a rejected run back.
RejectionIsFinal ==
    \A r \in Runs : rejected[r] <=> status[r] = "rejected"

\* What the consent gate keeps, and what its proof needs.
ConsentInv == ConsentTypeOK /\ PendingIffParked /\ RejectionIsFinal

\* A run leaves the parking place only by a decision about it, and for the
\* queue only by an approval; in particular no lease, reaper or late worker
\* moves a run that waits for a human.
OnlyDecisionsUnpark ==
    [][\A r \in Runs :
          status[r] = "awaiting_approval" /\ status'[r] # "awaiting_approval" =>
             /\ status'[r] = "queued" => approved'[r]
             /\ status'[r] # "queued" => rejected'[r]]_gateVars

=============================================================================
