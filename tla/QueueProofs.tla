----------------------------- MODULE QueueProofs -----------------------------
(***************************************************************************)
(* Proofs about RunQueue and ConsentGate for every set of runs and workers *)
(* and every budget.  QueueInv is inductive as it stands; TrailChains and  *)
(* the refinement of RunLifecycle follow from it step by step.             *)
(* ConsentGate implements RunQueue step by step, so all that is proved of  *)
(* the queue holds under the gate; ConsentInv is then inductive.           *)
(***************************************************************************)
EXTENDS ConsentGate, TLAPS

\* The initial table satisfies the invariant.
LEMMA QueueInitInv == QueueInit => QueueInv
<1> SUFFICES ASSUME QueueInit PROVE QueueInv
  OBVIOUS
<1> USE DEF QueueInit
<1>1. QueueTypeOK
  BY DEF QueueTypeOK, RowStatus, RunStatus, Leases
<1>2. ClaimsExclusive
  BY DEF ClaimsExclusive
<1>3. LeaseShape
  BY DEF LeaseShape
<1>4. AttemptsAccounted
  BY DEF AttemptsAccounted, Charged
<1>5. TrailCurrent
  BY DEF TrailCurrent
<1>6. QED
  BY <1>1, <1>2, <1>3, <1>4, <1>5 DEF QueueInv

-----------------------------------------------------------------------------
\* Each transaction, made from a state where the invariant holds, keeps it.

LEMMA EnqueueInv ==
  ASSUME QueueInv, NEW r \in Runs, NEW budget \in 1 .. MaxBudget, Enqueue(r, budget)
  PROVE  QueueInv'
<1> USE BudgetAssumption DEF Enqueue, RecordChange, QueueInv, QueueTypeOK, RowStatus, RunStatus
<1>1. QueueTypeOK'
  BY DEF Leases
<1>2. ClaimsExclusive'
  BY DEF ClaimsExclusive
<1>3. LeaseShape'
  BY DEF LeaseShape
<1>4. AttemptsAccounted'
  BY DEF AttemptsAccounted, Charged
<1>5. TrailCurrent'
  BY DEF TrailCurrent
<1>6. QED
  BY <1>1, <1>2, <1>3, <1>4, <1>5

LEMMA ClaimSelectInv ==
  ASSUME QueueInv, NEW busy, NEW w \in Workers, ClaimSelect(w, busy)
  PROVE  QueueInv'
<1> USE DEF ClaimSelect, Claimable, QueueInv, QueueTypeOK
<1>1. QueueTypeOK'
  OBVIOUS
<1>2. ClaimsExclusive'
  BY DEF ClaimsExclusive
<1>3. LeaseShape'
  BY DEF LeaseShape
<1>4. AttemptsAccounted'
  BY DEF AttemptsAccounted, Charged
<1>5. TrailCurrent'
  BY DEF TrailCurrent
<1>6. QED
  BY <1>1, <1>2, <1>3, <1>4, <1>5

\* The budget: claim() does not test it, but the row it locked is queued
\* (ClaimsExclusive), and a queued row has an attempt left.
LEMMA ClaimCommitInv ==
  ASSUME QueueInv, NEW w \in Workers, NEW r \in Runs, ClaimCommit(w, r)
  PROVE  QueueInv'
<1> USE DEF ClaimCommit, RecordChange, QueueInv, QueueTypeOK, RowStatus, RunStatus
<1>0. /\ status[r] = "queued" /\ attempts[r] < max_attempts[r]
      /\ \A v \in Workers : selected[v] = r => v = w
  BY RunsAssumption DEF ClaimsExclusive, AttemptsAccounted
<1>1. QueueTypeOK'
  BY DEF Leases
<1>2. ClaimsExclusive'
  BY <1>0 DEF ClaimsExclusive
<1>3. LeaseShape'
  BY WorkersAssumption DEF LeaseShape
<1>4. AttemptsAccounted'
  BY <1>0 DEF AttemptsAccounted, Charged
<1>5. TrailCurrent'
  BY DEF TrailCurrent
<1>6. QED
  BY <1>1, <1>2, <1>3, <1>4, <1>5

LEMMA ClaimAbortInv ==
  ASSUME QueueInv, NEW w \in Workers, ClaimAbort(w)
  PROVE  QueueInv'
<1> USE DEF ClaimAbort, QueueInv, QueueTypeOK
<1>1. QueueTypeOK'
  OBVIOUS
<1>2. ClaimsExclusive'
  BY DEF ClaimsExclusive
<1>3. LeaseShape'
  BY DEF LeaseShape
<1>4. AttemptsAccounted'
  BY DEF AttemptsAccounted, Charged
<1>5. TrailCurrent'
  BY DEF TrailCurrent
<1>6. QED
  BY <1>1, <1>2, <1>3, <1>4, <1>5

\* Heartbeat and the end of a lease move the column lease between live and
\* expired and touch nothing else.
LEMMA LeaseMoveInv ==
  ASSUME QueueInv, NEW r \in Runs, NEW l \in {"live", "expired"},
         status[r] = "running",
         lease' = [lease EXCEPT ![r] = l],
         UNCHANGED <<status, attempts, max_attempts, locked_by, selected, trail, requeues>>
  PROVE  QueueInv'
<1> USE DEF QueueInv, QueueTypeOK
<1>1. QueueTypeOK'
  BY DEF Leases
<1>2. ClaimsExclusive'
  BY DEF ClaimsExclusive
<1>3. LeaseShape'
  BY DEF LeaseShape
<1>4. AttemptsAccounted'
  BY DEF AttemptsAccounted, Charged
<1>5. TrailCurrent'
  BY DEF TrailCurrent
<1>6. QED
  BY <1>1, <1>2, <1>3, <1>4, <1>5

LEMMA HeartbeatInv ==
  ASSUME QueueInv, NEW w \in Workers, NEW r \in Runs, Heartbeat(w, r)
  PROVE  QueueInv'
BY LeaseMoveInv DEF Heartbeat, Owns

LEMMA LeaseRunsOutInv ==
  ASSUME QueueInv, NEW r \in Runs, LeaseRunsOut(r)
  PROVE  QueueInv'
<1>1. status[r] = "running"
  BY DEF LeaseRunsOut, QueueInv, LeaseShape
<1>2. QED
  BY <1>1, LeaseMoveInv DEF LeaseRunsOut

LEMMA FinishInv ==
  ASSUME QueueInv, NEW r \in Runs, NEW outcome \in {"completed", "failed"},
         Finish(r, outcome)
  PROVE  QueueInv'
<1> USE DEF Finish, Transition, RecordChange, ReleaseLease,
            QueueInv, QueueTypeOK, RowStatus, RunStatus
<1>1. QueueTypeOK'
  BY DEF Leases
<1>2. ClaimsExclusive'
  BY DEF ClaimsExclusive
<1>3. LeaseShape'
  BY DEF LeaseShape
<1>4. AttemptsAccounted'
  BY DEF AttemptsAccounted, Charged
<1>5. TrailCurrent'
  BY DEF TrailCurrent
<1>6. QED
  BY <1>1, <1>2, <1>3, <1>4, <1>5

LEMMA ParkInv ==
  ASSUME QueueInv, NEW r \in Runs, Park(r)
  PROVE  QueueInv'
<1> USE DEF Park, Transition, RecordChange, ReleaseLease,
            QueueInv, QueueTypeOK, RowStatus, RunStatus
<1>0. attempts[r] = requeues[r] + 1
  BY DEF AttemptsAccounted, Charged
<1>1. QueueTypeOK'
  BY <1>0 DEF Leases
<1>2. ClaimsExclusive'
  BY DEF ClaimsExclusive
<1>3. LeaseShape'
  BY DEF LeaseShape
<1>4. AttemptsAccounted'
  BY <1>0 DEF AttemptsAccounted, Charged
<1>5. TrailCurrent'
  BY DEF TrailCurrent
<1>6. QED
  BY <1>1, <1>2, <1>3, <1>4, <1>5

LEMMA UnparkInv ==
  ASSUME QueueInv, NEW r \in Runs, NEW approve \in BOOLEAN, Unpark(r, approve)
  PROVE  QueueInv'
<1> USE DEF Unpark, Transition, RecordChange, QueueInv, QueueTypeOK, RowStatus, RunStatus
<1>1. QueueTypeOK'
  BY DEF Leases
<1>2. ClaimsExclusive'
  BY DEF ClaimsExclusive
<1>3. LeaseShape'
  BY DEF LeaseShape
<1>4. AttemptsAccounted'
  BY DEF AttemptsAccounted, Charged
<1>5. TrailCurrent'
  BY DEF TrailCurrent
<1>6. QED
  BY <1>1, <1>2, <1>3, <1>4, <1>5

LEMMA ReapExpiredInv ==
  ASSUME QueueInv, NEW busy, ReapExpired(busy)
  PROVE  QueueInv'
<1> USE DEF ReapExpired, Reaped, Requeued, Exhausted, ExpiredRuns,
            QueueInv, QueueTypeOK, RowStatus, RunStatus
<1>1. QueueTypeOK'
  BY DEF Leases
<1>2. ClaimsExclusive'
  BY DEF ClaimsExclusive
<1>3. LeaseShape'
  BY DEF LeaseShape
<1>4. AttemptsAccounted'
  BY DEF AttemptsAccounted, Charged
<1>5. TrailCurrent'
  BY DEF TrailCurrent
<1>6. QED
  BY <1>1, <1>2, <1>3, <1>4, <1>5

\* Every step of the queue, under any callers, keeps the invariant.
LEMMA QueueStepInv == QueueInv /\ [QueueNext]_queueVars => QueueInv'
<1> SUFFICES ASSUME QueueInv, [QueueNext]_queueVars PROVE QueueInv'
  OBVIOUS
<1>1. CASE \E busy \in SUBSET Runs : ReapExpired(busy)
  BY <1>1, ReapExpiredInv
<1>2. ASSUME NEW r \in Runs, NEW budget \in 1 .. MaxBudget, Enqueue(r, budget)
      PROVE  QueueInv'
  BY <1>2, EnqueueInv
<1>3. ASSUME NEW r \in Runs, NEW outcome \in {"completed", "failed"}, Finish(r, outcome)
      PROVE  QueueInv'
  BY <1>3, FinishInv
<1>4. ASSUME NEW r \in Runs, NEW approve \in BOOLEAN, Unpark(r, approve)
      PROVE  QueueInv'
  BY <1>4, UnparkInv
<1>5. ASSUME NEW r \in Runs, Park(r) PROVE QueueInv'
  BY <1>5, ParkInv
<1>6. ASSUME NEW r \in Runs, LeaseRunsOut(r) PROVE QueueInv'
  BY <1>6, LeaseRunsOutInv
<1>7. ASSUME NEW w \in Workers, NEW busy \in SUBSET Runs, ClaimSelect(w, busy)
      PROVE  QueueInv'
  BY <1>7, ClaimSelectInv
<1>8. ASSUME NEW w \in Workers, ClaimAbort(w) PROVE QueueInv'
  BY <1>8, ClaimAbortInv
<1>9. ASSUME NEW w \in Workers, NEW r \in Runs, ClaimCommit(w, r) PROVE QueueInv'
  BY <1>9, ClaimCommitInv
<1>10. ASSUME NEW w \in Workers, NEW r \in Runs, Heartbeat(w, r) PROVE QueueInv'
  BY <1>10, HeartbeatInv
<1>11. CASE UNCHANGED queueVars
  BY <1>11 DEF queueVars, QueueInv, QueueTypeOK, ClaimsExclusive, LeaseShape,
               AttemptsAccounted, Charged, TrailCurrent
<1>12. QED
  BY <1>1, <1>2, <1>3, <1>4, <1>5, <1>6, <1>7, <1>8, <1>9, <1>10, <1>11 DEF QueueNext

\* The queue's invariant holds in every reachable state, for any number of
\* runs and workers calling its functions in any order (queue.py, models.py).
THEOREM QueueInvariant == QueueSpec => []QueueInv
BY QueueInitInv, QueueStepInv, PTL DEF QueueSpec

\* No function of queue.py writes a column something else than its type, for
\* any callers: attempts stay numbers, an owner is a worker or nobody.
THEOREM QueueTypes == QueueSpec => []QueueTypeOK
<1>1. QueueInv => QueueTypeOK
  BY DEF QueueInv
<1>2. QED
  BY <1>1, QueueInvariant, PTL

\* locked_by and lease_expires_at are set together and exactly while a run is
\* running, whatever finishes, parks or reaps it (queue.py).
THEOREM LeasesHaveOwners == QueueSpec => []LeaseShape
<1>1. QueueInv => LeaseShape
  BY DEF QueueInv
<1>2. QED
  BY <1>1, QueueInvariant, PTL

\* The newest status_change event of a run ends where the run is: no status
\* is written without its event, in transition(), claim() or reap_expired().
THEOREM TrailsAreCurrent == QueueSpec => []TrailCurrent
<1>1. QueueInv => TrailCurrent
  BY DEF QueueInv
<1>2. QED
  BY <1>1, QueueInvariant, PTL

\* N workers never take the same run: the row locks of claims in flight.
THEOREM ClaimsAreExclusive == QueueSpec => []ClaimsExclusive
<1>1. QueueInv => ClaimsExclusive
  BY DEF QueueInv
<1>2. QED
  BY <1>1, QueueInvariant, PTL

\* The attempt counter agrees with the audit log and the budget.
THEOREM AttemptsAreAccounted == QueueSpec => []AttemptsAccounted
<1>1. QueueInv => AttemptsAccounted
  BY DEF QueueInv
<1>2. QED
  BY <1>1, QueueInvariant, PTL

-----------------------------------------------------------------------------
\* The audit trail has no gaps (TrailChains): each function writes its event
\* with the status it found, and TrailCurrent says the previous event ended
\* there.
LEMMA TrailStep ==
  ASSUME QueueInv, [QueueNext]_queueVars, NEW r \in Runs, trail'[r] # trail[r]
  PROVE  trail'[r].from = trail[r].to
<1> USE DEF QueueInv, QueueTypeOK, TrailCurrent, RecordChange, Transition
<1>1. CASE \E busy \in SUBSET Runs : ReapExpired(busy)
  BY <1>1 DEF ReapExpired, Reaped, Requeued, Exhausted, ExpiredRuns
<1>2. ASSUME NEW s \in Runs, NEW budget \in 1 .. MaxBudget, Enqueue(s, budget)
      PROVE  trail'[r].from = trail[r].to
  BY <1>2 DEF Enqueue
<1>3. ASSUME NEW s \in Runs, NEW outcome \in {"completed", "failed"}, Finish(s, outcome)
      PROVE  trail'[r].from = trail[r].to
  BY <1>3 DEF Finish
<1>4. ASSUME NEW s \in Runs, NEW approve \in BOOLEAN, Unpark(s, approve)
      PROVE  trail'[r].from = trail[r].to
  BY <1>4 DEF Unpark
<1>5. ASSUME NEW s \in Runs, Park(s) PROVE trail'[r].from = trail[r].to
  BY <1>5 DEF Park
<1>6. ASSUME NEW w \in Workers, NEW s \in Runs, ClaimCommit(w, s)
      PROVE  trail'[r].from = trail[r].to
  BY <1>6, RunsAssumption DEF ClaimCommit, ClaimsExclusive
<1>7. CASE \/ UNCHANGED queueVars
           \/ \E s \in Runs : LeaseRunsOut(s)
           \/ \E w \in Workers : \/ \E busy \in SUBSET Runs : ClaimSelect(w, busy)
                                 \/ ClaimAbort(w)
                                 \/ \E s \in Runs : Heartbeat(w, s)
  BY <1>7 DEF queueVars, LeaseRunsOut, ClaimSelect, ClaimAbort, Heartbeat
<1>8. QED
  BY <1>1, <1>2, <1>3, <1>4, <1>5, <1>6, <1>7 DEF QueueNext

\* Replaying the status_change rows of a run gives its history.
THEOREM TrailHasNoGaps == QueueSpec => TrailChains
<1>1. QueueInv /\ [QueueNext]_queueVars =>
        [\A r \in Runs : trail'[r] # trail[r] => trail'[r].from = trail[r].to]_queueVars
  BY TrailStep
<1>2. QED
  BY <1>1, QueueInvariant, PTL DEF QueueSpec, TrailChains

-----------------------------------------------------------------------------
\* Each run lives the life RunLifecycle promises.  The guard of the abstract
\* claim, a claim is left, is nowhere in the code: AttemptsAccounted gives it.
LEMMA LifeStep ==
  ASSUME QueueInv, [QueueNext]_queueVars, NEW r \in Runs
  PROVE  Life(r)!LifeNext \/ UNCHANGED Life(r)!lifeVars
<1> USE DEF QueueInv, QueueTypeOK, Transition
<1> USE DEF Life!LifeNext, Life!lifeVars
<1>1. CASE \E busy \in SUBSET Runs : ReapExpired(busy)
  BY <1>1 DEF ReapExpired, Requeued, Exhausted, ExpiredRuns, Life!Expired
<1>2. ASSUME NEW s \in Runs, NEW budget \in 1 .. MaxBudget, Enqueue(s, budget)
      PROVE  Life(r)!LifeNext \/ UNCHANGED Life(r)!lifeVars
  BY <1>2, BudgetAssumption DEF Enqueue, AttemptsAccounted, Life!Born
<1>3. ASSUME NEW s \in Runs, NEW outcome \in {"completed", "failed"}, Finish(s, outcome)
      PROVE  Life(r)!LifeNext \/ UNCHANGED Life(r)!lifeVars
  BY <1>3 DEF Finish, Life!Finished
<1>4. ASSUME NEW s \in Runs, NEW approve \in BOOLEAN, Unpark(s, approve)
      PROVE  Life(r)!LifeNext \/ UNCHANGED Life(r)!lifeVars
  BY <1>4 DEF Unpark, Life!Decided
<1>5. ASSUME NEW s \in Runs, Park(s)
      PROVE  Life(r)!LifeNext \/ UNCHANGED Life(r)!lifeVars
  <2>1. CASE r = s
    <3>1. /\ status[r] = "running" /\ status'[r] = "awaiting_approval"
          /\ attempts'[r] = attempts[r] - 1 /\ max_attempts'[r] = max_attempts[r]
          /\ attempts[r] \in Nat /\ max_attempts[r] \in Nat
      BY <1>5, <2>1 DEF Park
    <3>2. Life(r)!Parked
      BY <3>1 DEF Life!Parked
    <3>3. QED
      BY <3>2
  <2>2. CASE r # s
    BY <1>5, <2>2 DEF Park
  <2>3. QED
    BY <2>1, <2>2
<1>6. ASSUME NEW w \in Workers, NEW s \in Runs, ClaimCommit(w, s)
      PROVE  Life(r)!LifeNext \/ UNCHANGED Life(r)!lifeVars
  <2>1. status[s] = "queued" /\ attempts[s] < max_attempts[s]
    BY <1>6, RunsAssumption DEF ClaimCommit, ClaimsExclusive, AttemptsAccounted
  <2>2. QED
    BY <1>6, <2>1 DEF ClaimCommit, Life!Claimed
<1>7. CASE \/ UNCHANGED queueVars
           \/ \E s \in Runs : LeaseRunsOut(s)
           \/ \E w \in Workers : \/ \E busy \in SUBSET Runs : ClaimSelect(w, busy)
                                 \/ ClaimAbort(w)
                                 \/ \E s \in Runs : Heartbeat(w, s)
  BY <1>7 DEF queueVars, LeaseRunsOut, ClaimSelect, ClaimAbort, Heartbeat
<1>8. QED
  BY <1>1, <1>2, <1>3, <1>4, <1>5, <1>6, <1>7 DEF QueueNext

\* The queue implements the lifecycle of every run.
THEOREM QueueImplementsLife == QueueSpec => EveryLifeLegal
<1>1. QueueInit => \A r \in Runs : Life(r)!LifeInit
  BY DEF QueueInit, Life!LifeInit
<1>2. QueueInv /\ [QueueNext]_queueVars =>
        [\A r \in Runs : Life(r)!LifeNext \/ UNCHANGED Life(r)!lifeVars]_queueVars
  BY LifeStep
<1>3. QED
  BY <1>1, <1>2, QueueInvariant, PTL DEF QueueSpec, EveryLifeLegal

-----------------------------------------------------------------------------
\* ConsentGate.

\* A step of the gate is a step of the queue: deciding and requesting are
\* Unpark and Park to it.
LEMMA GateStepIsQueueStep == [ConsentNext]_gateVars => [QueueNext]_queueVars
BY DEF ConsentNext, QueueStep, Request, Decide, gateVars, queueVars, QueueNext

\* The gate is one of the arbitrary callers of the queue.
THEOREM GateImplementsQueue == ConsentSpec => QueueSpec
<1>1. ConsentInit => QueueInit
  BY DEF ConsentInit
<1>2. QED
  BY <1>1, GateStepIsQueueStep, PTL DEF ConsentSpec, QueueSpec

\* What the queue keeps, it keeps under the gate.
LEMMA QueueInvUnderGate == ConsentSpec => []QueueInv
BY GateImplementsQueue, QueueInvariant, PTL

-----------------------------------------------------------------------------
\* No transaction of the queue proper brings a run into or out of the
\* parking place, or out of status rejected.
LEMMA QueueStepParksNothing ==
  ASSUME QueueInv, QueueStep, NEW r \in Runs
  PROVE  /\ (status[r] = "awaiting_approval") <=> (status'[r] = "awaiting_approval")
         /\ (status[r] = "rejected") <=> (status'[r] = "rejected")
<1> USE DEF QueueInv, QueueTypeOK, Transition
<1>1. CASE \E busy \in SUBSET Runs : ReapExpired(busy)
  BY <1>1 DEF ReapExpired, Requeued, Exhausted, ExpiredRuns
<1>2. CASE \E s \in Runs : \/ \E budget \in 1 .. MaxBudget : Enqueue(s, budget)
                           \/ \E outcome \in {"completed", "failed"} : Finish(s, outcome)
                           \/ LeaseRunsOut(s)
  BY <1>2 DEF Enqueue, Finish, LeaseRunsOut
<1>3. CASE \E w \in Workers : \/ \E busy \in SUBSET Runs : ClaimSelect(w, busy)
                              \/ ClaimAbort(w)
                              \/ \E s \in Runs : Heartbeat(w, s)
  BY <1>3 DEF ClaimSelect, ClaimAbort, Heartbeat
<1>4. ASSUME NEW w \in Workers, NEW s \in Runs, ClaimCommit(w, s)
      PROVE  /\ (status[r] = "awaiting_approval") <=> (status'[r] = "awaiting_approval")
             /\ (status[r] = "rejected") <=> (status'[r] = "rejected")
  BY <1>4, RunsAssumption DEF ClaimCommit, ClaimsExclusive
<1>5. QED
  BY <1>1, <1>2, <1>3, <1>4 DEF QueueStep

LEMMA RequestInv ==
  ASSUME QueueInv, ConsentInv, NEW r \in Runs, Request(r)
  PROVE  ConsentInv'
<1> USE DEF Request, Park, Transition, QueueInv, QueueTypeOK, ConsentInv, ConsentTypeOK
<1>1. ConsentTypeOK'
  OBVIOUS
<1>2. PendingIffParked'
  BY DEF PendingIffParked
<1>3. RejectionIsFinal'
  BY DEF RejectionIsFinal
<1>4. QED
  BY <1>1, <1>2, <1>3

LEMMA DecideInv ==
  ASSUME QueueInv, ConsentInv, NEW r \in Runs, NEW approve \in BOOLEAN,
         Decide(r, approve)
  PROVE  ConsentInv'
<1> USE DEF Decide, Unpark, Transition, QueueInv, QueueTypeOK, ConsentInv, ConsentTypeOK
<1>1. ConsentTypeOK'
  OBVIOUS
<1>2. PendingIffParked'
  BY DEF PendingIffParked
<1>3. RejectionIsFinal'
  <2>1. ~rejected[r]
    BY DEF RejectionIsFinal
  <2>2. CASE approve
    BY <2>1, <2>2 DEF RejectionIsFinal
  <2>3. CASE ~approve
    BY <2>3 DEF RejectionIsFinal
  <2>4. QED
    BY <2>2, <2>3
<1>4. QED
  BY <1>1, <1>2, <1>3

\* Every step of the gate keeps its invariant.
LEMMA ConsentStepInv ==
  QueueInv /\ ConsentInv /\ [ConsentNext]_gateVars => ConsentInv'
<1> SUFFICES ASSUME QueueInv, ConsentInv, [ConsentNext]_gateVars PROVE ConsentInv'
  OBVIOUS
<1>1. CASE QueueStep /\ UNCHANGED consentVars
  <2>1. ConsentTypeOK'
    BY <1>1 DEF consentVars, ConsentInv, ConsentTypeOK
  <2>2. PendingIffParked'
    BY <1>1, QueueStepParksNothing DEF consentVars, ConsentInv, PendingIffParked
  <2>3. RejectionIsFinal'
    BY <1>1, QueueStepParksNothing DEF consentVars, ConsentInv, RejectionIsFinal
  <2>4. QED
    BY <2>1, <2>2, <2>3 DEF ConsentInv
<1>2. ASSUME NEW r \in Runs, Request(r) PROVE ConsentInv'
  BY <1>2, RequestInv
<1>3. ASSUME NEW r \in Runs, NEW approve \in BOOLEAN, Decide(r, approve) PROVE ConsentInv'
  BY <1>3, DecideInv
<1>4. CASE UNCHANGED gateVars
  BY <1>4 DEF gateVars, ConsentInv, ConsentTypeOK, PendingIffParked, RejectionIsFinal
<1>5. QED
  BY <1>1, <1>2, <1>3, <1>4 DEF ConsentNext

\* One pending approval exactly while parked, and rejections are final, for
\* any callers of the queue and any order of decisions (approvals.py).
THEOREM ConsentInvariant == ConsentSpec => []ConsentInv
<1>1. ConsentInit => ConsentInv
  BY DEF ConsentInit, QueueInit, ConsentInv, ConsentTypeOK, PendingIffParked, RejectionIsFinal
<1>2. QED
  BY <1>1, ConsentStepInv, QueueInvUnderGate, PTL DEF ConsentSpec

\* The two properties by name.
THEOREM ParkedRunsCanBeDecided == ConsentSpec => [](PendingIffParked /\ RejectionIsFinal)
<1>1. ConsentInv => PendingIffParked /\ RejectionIsFinal
  BY DEF ConsentInv
<1>2. QED
  BY <1>1, ConsentInvariant, PTL

\* The approval rows of a run are what request() and decide() can make of
\* them (approvals.py).
THEOREM ConsentTypes == ConsentSpec => []ConsentTypeOK
<1>1. ConsentInv => ConsentTypeOK
  BY DEF ConsentInv
<1>2. QED
  BY <1>1, ConsentInvariant, PTL

\* A run is rejected exactly when a human rejected it, and nothing, no late
\* worker and no other decision, takes it back (approvals.py).
THEOREM RejectionsAreFinal == ConsentSpec => []RejectionIsFinal
<1>1. ConsentInv => RejectionIsFinal
  BY DEF ConsentInv
<1>2. QED
  BY <1>1, ConsentInvariant, PTL

\* Only a decision takes a run out of the parking place.
THEOREM UnparkingIsDeciding == ConsentSpec => OnlyDecisionsUnpark
<1> DEFINE Kept == \A r \in Runs :
      status[r] = "awaiting_approval" /\ status'[r] # "awaiting_approval" =>
         /\ status'[r] = "queued" => approved'[r]
         /\ status'[r] # "queued" => rejected'[r]
<1>1. QueueInv /\ ConsentInv /\ [ConsentNext]_gateVars => [Kept]_gateVars
  <2> SUFFICES ASSUME QueueInv, ConsentInv, ConsentNext PROVE Kept
    OBVIOUS
  <2>1. CASE QueueStep
    BY <2>1, QueueStepParksNothing
  <2>2. ASSUME NEW s \in Runs, Request(s) PROVE Kept
    BY <2>2 DEF Request, Park, Transition, QueueInv, QueueTypeOK
  <2>3. ASSUME NEW s \in Runs, NEW approve \in BOOLEAN, Decide(s, approve) PROVE Kept
    BY <2>3 DEF Decide, Unpark, Transition, QueueInv, QueueTypeOK, ConsentInv, ConsentTypeOK
  <2>4. QED
    BY <2>1, <2>2, <2>3 DEF ConsentNext
<1>2. QED
  BY <1>1, QueueInvUnderGate, ConsentInvariant, PTL DEF ConsentSpec, OnlyDecisionsUnpark

=============================================================================
