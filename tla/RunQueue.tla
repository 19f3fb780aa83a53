------------------------------ MODULE RunQueue ------------------------------
(***************************************************************************)
(* The Postgres-backed run queue: src/octo/queue.py and transition() of    *)
(* src/octo/models.py.  Every column of the table runs that decides        *)
(* control is a function from runs.  A function of queue.py is one         *)
(* transaction and so one action, except claim(): its row lock is visible  *)
(* to other claims (SKIP LOCKED) before its update is, so it is two.       *)
(*                                                                         *)
(* The callers are arbitrary here: any worker may call any function at     *)
(* any time for any run.  Worker.tla restricts them to what                *)
(* process_once() does.                                                    *)
(***************************************************************************)
EXTENDS Integers, FiniteSets, RunStates

CONSTANTS
    Runs,       \* run rows that may be inserted; smaller = older created_at
    Workers,    \* worker processes
    MaxBudget,  \* the largest max_attempts a caller of enqueue() passes
    NoWorker,   \* SQL NULL in locked_by
    NoRun       \* a claim transaction that holds no row lock

ASSUME RunsAssumption == Runs \subseteq Nat /\ NoRun \notin Runs
ASSUME WorkersAssumption == NoWorker \notin Workers
ASSUME BudgetAssumption == MaxBudget \in Nat \ {0}

VARIABLES
    status,         \* runs.status
    attempts,       \* runs.attempts
    max_attempts,   \* runs.max_attempts
    locked_by,      \* runs.locked_by
    lease,          \* runs.lease_expires_at: none (NULL), live (future), expired (past)
    selected,       \* the row a worker's open claim() transaction has locked
    trail,          \* the newest status_change row of run_events
    requeues        \* how many status_change rows say lease_expired -> queued

rowVars == <<status, attempts, max_attempts, locked_by, lease>>
queueVars == <<status, attempts, max_attempts, locked_by, lease,
               selected, trail, requeues>>

Leases == {"none", "live", "expired"}

QueueInit ==
    /\ status = [r \in Runs |-> "absent"]
    /\ attempts = [r \in Runs |-> 0]
    /\ max_attempts = [r \in Runs |-> 0]
    /\ locked_by = [r \in Runs |-> NoWorker]
    /\ lease = [r \in Runs |-> "none"]
    /\ selected = [w \in Workers |-> NoRun]
    /\ trail = [r \in Runs |-> [from |-> "absent", to |-> "absent"]]
    /\ requeues = [r \in Runs |-> 0]

-----------------------------------------------------------------------------
\* INSERT INTO run_events (..., 'status_change', {from, to}).
RecordChange(r, from, to) ==
    trail' = [trail EXCEPT ![r] = [from |-> from, to |-> to]]

\* Bug: the UPDATE has lost "AND status = from".
TransitionUnguarded(r, from, to) ==
    /\ <<from, to>> \in ALLOWED_TRANSITIONS
    /\ status[r] # "absent"
    /\ status' = [status EXCEPT ![r] = to]
    /\ RecordChange(r, from, to)

\* models.transition(): the guarded UPDATE and its event.  It is not enabled
\* exactly when the code raises IllegalTransition and the caller's
\* transaction rolls back.
Transition(r, from, to) ==
    /\ <<from, to>> \in ALLOWED_TRANSITIONS
    /\ status[r] = from
    /\ status' = [status EXCEPT ![r] = to]
    /\ RecordChange(r, from, to)

\* locked_by = NULL, lease_expires_at = NULL.
ReleaseLease(r) ==
    /\ locked_by' = [locked_by EXCEPT ![r] = NoWorker]
    /\ lease' = [lease EXCEPT ![r] = "none"]

\* created_at is the start of the inserting transaction, so rows can become
\* visible in another order than that of their age.
Enqueue(r, budget) ==
    /\ status[r] = "absent"
    /\ status' = [status EXCEPT ![r] = "queued"]
    /\ max_attempts' = [max_attempts EXCEPT ![r] = budget]
    /\ RecordChange(r, "absent", "queued")
    /\ UNCHANGED <<attempts, locked_by, lease, selected, requeues>>

\* Bug: FOR UPDATE SKIP LOCKED is missing.
ClaimableUnlocked == {r \in Runs : status[r] = "queued"}

\* Rows the sub-select of claim() may return: queued and, by SKIP LOCKED,
\* not locked by another claim that has not committed.
Claimable == {r \in Runs : /\ status[r] = "queued"
                           /\ \A w \in Workers : selected[w] # r}

\* SELECT id ... ORDER BY created_at LIMIT 1 FOR UPDATE SKIP LOCKED.  The
\* rows in busy are skipped as well: another transaction has them locked for
\* a moment.  An INSERT into run_events is enough (its foreign key locks the
\* run), and a worker that lost its run still makes them.
ClaimSelect(w, busy) ==
    /\ selected[w] = NoRun
    /\ \E r \in Claimable \ busy :
          /\ \A s \in Claimable \ busy : r <= s
          /\ selected' = [selected EXCEPT ![w] = r]
    /\ UNCHANGED <<status, attempts, max_attempts, locked_by, lease, trail, requeues>>

\* Bug: attempts = attempts + 1 is missing.
ClaimCommitUncounted(w, r) ==
    /\ selected[w] = r
    /\ status' = [status EXCEPT ![r] = "running"]
    /\ locked_by' = [locked_by EXCEPT ![r] = w]
    /\ lease' = [lease EXCEPT ![r] = "live"]
    /\ RecordChange(r, "queued", "running")
    /\ selected' = [selected EXCEPT ![w] = NoRun]
    /\ UNCHANGED <<attempts, max_attempts, requeues>>

\* The UPDATE of the selected row, its event and the commit.  The statement
\* does not look at max_attempts, and it does not go through transition().
ClaimCommit(w, r) ==
    /\ selected[w] = r
    /\ status' = [status EXCEPT ![r] = "running"]
    /\ locked_by' = [locked_by EXCEPT ![r] = w]
    /\ attempts' = [attempts EXCEPT ![r] = @ + 1]
    /\ lease' = [lease EXCEPT ![r] = "live"]
    /\ RecordChange(r, "queued", "running")
    /\ selected' = [selected EXCEPT ![w] = NoRun]
    /\ UNCHANGED <<max_attempts, requeues>>

\* The connection is lost before the commit: the row lock goes with it.
ClaimAbort(w) ==
    /\ selected[w] # NoRun
    /\ selected' = [selected EXCEPT ![w] = NoRun]
    /\ UNCHANGED <<status, attempts, max_attempts, locked_by, lease, trail, requeues>>

\* heartbeat() returns this.
Owns(w, r) == status[r] = "running" /\ locked_by[r] = w

\* heartbeat() on a run still owned.  An expired lease that no reaper has
\* found yet is revived; a heartbeat on a lost run changes nothing.
Heartbeat(w, r) ==
    /\ Owns(w, r)
    /\ lease' = [lease EXCEPT ![r] = "live"]
    /\ UNCHANGED <<status, attempts, max_attempts, locked_by, selected, trail, requeues>>

\* Bug: extra_set does not clear locked_by and lease_expires_at.
FinishKeepsLease(r, outcome) ==
    /\ outcome \in {"completed", "failed"}
    /\ Transition(r, "running", outcome)
    /\ UNCHANGED <<attempts, max_attempts, locked_by, lease, selected, requeues>>

\* finish(): any caller that knows the id; locked_by is not compared.
Finish(r, outcome) ==
    /\ outcome \in {"completed", "failed"}
    /\ Transition(r, "running", outcome)
    /\ ReleaseLease(r)
    /\ UNCHANGED <<attempts, max_attempts, selected, requeues>>

\* Bug: parking costs the attempt.
ParkCharges(r) ==
    /\ Transition(r, "running", "awaiting_approval")
    /\ ReleaseLease(r)
    /\ UNCHANGED <<attempts, max_attempts, selected, requeues>>

\* park_awaiting_approval(), and the same UPDATE in approvals.request().
Park(r) ==
    /\ Transition(r, "running", "awaiting_approval")
    /\ ReleaseLease(r)
    /\ attempts' = [attempts EXCEPT ![r] = @ - 1]
    /\ UNCHANGED <<max_attempts, selected, requeues>>

\* The move approvals.decide() makes.
Unpark(r, approve) ==
    /\ Transition(r, "awaiting_approval", IF approve THEN "queued" ELSE "rejected")
    /\ UNCHANGED <<attempts, max_attempts, locked_by, lease, selected, requeues>>

-----------------------------------------------------------------------------
\* reap_expired(): one transaction, two statements.  The first requeues what
\* has attempts left, the second fails the rest; both skip the rows in busy.
ExpiredRuns(busy) ==
    {r \in Runs \ busy : status[r] = "running" /\ lease[r] = "expired"}
\* Bug: <= for <.
RequeuedOnceMore(busy) == {r \in ExpiredRuns(busy) : attempts[r] <= max_attempts[r]}
Requeued(busy) == {r \in ExpiredRuns(busy) : attempts[r] < max_attempts[r]}
\* Bug: the second statement is missing.
ExhaustedForgotten(busy) == {}
Exhausted(busy) == {r \in ExpiredRuns(busy) : attempts[r] >= max_attempts[r]}
Reaped(busy) == Requeued(busy) \cup Exhausted(busy)

ReapExpired(busy) ==
    /\ status' = [r \in Runs |-> IF r \in Requeued(busy) THEN "queued"
                                 ELSE IF r \in Exhausted(busy) THEN "failed"
                                 ELSE status[r]]
    /\ locked_by' = [r \in Runs |-> IF r \in Reaped(busy) THEN NoWorker ELSE locked_by[r]]
    /\ lease' = [r \in Runs |-> IF r \in Reaped(busy) THEN "none" ELSE lease[r]]
    /\ trail' = [r \in Runs |-> IF r \in Reaped(busy)
                                THEN [from |-> "running", to |-> status'[r]]
                                ELSE trail[r]]
    /\ requeues' = [r \in Runs |-> IF r \in Requeued(busy) THEN requeues[r] + 1
                                   ELSE requeues[r]]
    /\ UNCHANGED <<attempts, max_attempts, selected>>

\* The database clock passes lease_expires_at.
LeaseRunsOut(r) ==
    /\ lease[r] = "live"
    /\ lease' = [lease EXCEPT ![r] = "expired"]
    /\ UNCHANGED <<status, attempts, max_attempts, locked_by, selected, trail, requeues>>

QueueNext ==
    \/ \E busy \in SUBSET Runs :
          \/ ReapExpired(busy)
          \/ \E w \in Workers : ClaimSelect(w, busy)
    \/ \E r \in Runs :
          \/ \E budget \in 1 .. MaxBudget : Enqueue(r, budget)
          \/ \E outcome \in {"completed", "failed"} : Finish(r, outcome)
          \/ \E approve \in BOOLEAN : Unpark(r, approve)
          \/ Park(r)
          \/ LeaseRunsOut(r)
    \/ \E w \in Workers :
          \/ ClaimAbort(w)
          \/ \E r \in Runs : ClaimCommit(w, r) \/ Heartbeat(w, r)

QueueSpec == QueueInit /\ [][QueueNext]_queueVars

-----------------------------------------------------------------------------
QueueTypeOK ==
    /\ status \in [Runs -> RowStatus]
    /\ attempts \in [Runs -> Nat]
    /\ max_attempts \in [Runs -> Nat]
    /\ locked_by \in [Runs -> Workers \cup {NoWorker}]
    /\ lease \in [Runs -> Leases]
    /\ selected \in [Workers -> Runs \cup {NoRun}]
    /\ trail \in [Runs -> [from : RowStatus, to : RowStatus]]
    /\ requeues \in [Runs -> Nat]

\* "N workers never take the same run" (docstring of queue.py): two claims
\* in flight never lock the same row, and a locked row is still queued when
\* its update is made, whatever committed in between.
ClaimsExclusive ==
    \A w \in Workers : selected[w] # NoRun =>
        /\ status[selected[w]] = "queued"
        /\ \A v \in Workers : selected[v] = selected[w] => v = w

\* A run carries an owner and a lease exactly while it is running, through
\* six functions that each write the three columns: a running row with no
\* lease would never be reaped, a lease left on a parked or queued row would
\* let the reaper or a zombie's heartbeat touch it.
LeaseShape ==
    \A r \in Runs : /\ (status[r] = "running") <=> (locked_by[r] # NoWorker)
                    /\ (status[r] = "running") <=> (lease[r] # "none")

\* The states in which the attempt of the last claim counts as used.
Charged(r) == IF status[r] \in {"running", "completed", "failed"} THEN 1 ELSE 0

\* The attempt counter and the audit log agree: the attempts of a run are
\* the requeues its events report, and one more for the claim in progress or
\* concluded.  The budget is never exceeded, and a run that could still be
\* claimed, now or after a decision, has an attempt left.  claim() itself
\* does not look at the budget.
AttemptsAccounted ==
    \A r \in Runs :
        /\ attempts[r] = requeues[r] + Charged(r)
        /\ attempts[r] <= max_attempts[r]
        /\ status[r] \in {"queued", "awaiting_approval", "rejected"} =>
              attempts[r] < max_attempts[r]
        /\ status[r] = "absent" => attempts[r] = 0

\* The newest audit row of a run tells its status: claim() and the reaper
\* write status and event by hand, outside transition().
TrailCurrent == \A r \in Runs : trail[r].to = status[r]

\* What the queue is claimed to keep, and what its proof needs.
QueueInv == /\ QueueTypeOK
            /\ ClaimsExclusive
            /\ LeaseShape
            /\ AttemptsAccounted
            /\ TrailCurrent

\* The audit trail of a run has no gaps: every new status_change starts
\* where the previous one ended, so replaying it gives the run's history.
TrailChains ==
    [][\A r \in Runs : trail'[r] # trail[r] => trail'[r].from = trail[r].to]_queueVars

\* Each run on its own, under any callers, lives the life RunLifecycle
\* promises: legal moves only, terminal states final, never more claims than
\* its budget.  (LifeSpec of every run, its boxes drawn into one.)
Life(r) == INSTANCE RunLifecycle WITH
    status <- status[r],
    claims_left <- max_attempts[r] - attempts[r]

EveryLifeLegal ==
    /\ \A r \in Runs : Life(r)!LifeInit
    /\ [][\A r \in Runs : Life(r)!LifeNext \/ UNCHANGED Life(r)!lifeVars]_queueVars

=============================================================================
