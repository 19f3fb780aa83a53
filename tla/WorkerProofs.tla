---------------------------- MODULE WorkerProofs ----------------------------
(***************************************************************************)
(* Proofs about Worker for every set of runs, every finite set of workers  *)
(* and every budget.  A step of a worker is a step of the consent gate, so *)
(* QueueInv and ConsentInv hold throughout; WorkerInv is inductive         *)
(* together with them.                                                     *)
(***************************************************************************)
EXTENDS Worker, QueueProofs, FiniteSetTheorems

Inv == QueueInv /\ ConsentInv /\ WorkerInv

\* The run a process works on is a run.
LEMMA CurIsRun ==
  ASSUME WorkerInv, NEW w \in Workers,
         pc[w] \in {"claimed", "request", "exec", "finish", "tags"}
  PROVE  cur[w] \in Runs
BY DEF WorkerInv, WorkerTypeOK, InHand

-----------------------------------------------------------------------------
\* Workers are callers of the consent gate.
LEMMA WorkerStepIsGateStep ==
  ASSUME QueueInv, WorkerInv, [WorkerNext]_workerVars
  PROVE  [ConsentNext]_gateVars
<1> USE DEF gateVars, queueVars, consentVars, ConsentNext
<1>1. CASE \E r \in Runs : Submit(r) \/ HumanDecides(r) \/ LeaseEnds(r)
  BY <1>1 DEF Submit, HumanDecides, LeaseEnds, QueueStep
<1>2. ASSUME NEW w \in Workers, ProcessNext(w) PROVE [ConsentNext]_gateVars
  <2>1. CASE BeginClaim(w) \/ EndClaim(w) \/ Reap(w)
    BY <2>1 DEF BeginClaim, SelectPast, EndClaim, Reap, ReapPast, QueueStep, Touched
  <2>2. CASE Start(w) \/ FindNothing(w) \/ GateShut(w) \/ Execute(w) \/ BeatFails(w)
             \/ ExecutorReturns(w) \/ SaveTags(w) \/ Conflict(w)
    BY <2>2 DEF Start, FindNothing, GateShut, Execute, BeatFails, ExecutorReturns,
                SaveTags, Conflict
  <2>3. CASE Beat(w)
    <3>1. cur[w] \in Runs
      BY <2>3, CurIsRun DEF Beat
    <3>2. QED
      BY <2>3, <3>1 DEF Beat, QueueStep
  <2>4. CASE FailUnknownAgent(w)
    <3>1. cur[w] \in Runs
      BY <2>4, CurIsRun DEF FailUnknownAgent, Go
    <3>2. QED
      BY <2>4, <3>1 DEF FailUnknownAgent, QueueStep
  <2>5. CASE AskApproval(w)
    <3>1. cur[w] \in Runs
      BY <2>5, CurIsRun DEF AskApproval, Go
    <3>2. QED
      BY <2>5, <3>1 DEF AskApproval
  <2>6. CASE RecordOutcome(w)
    <3>1. cur[w] \in Runs /\ outcome[w] \in {"completed", "failed"}
      BY <2>6, CurIsRun DEF RecordOutcome, Go, WorkerInv, InHand
    <3>2. QED
      BY <2>6, <3>1 DEF RecordOutcome, QueueStep
  <2>7. CASE Crash(w)
    <3>1. CASE selected[w] = NoRun
      <4>1. selected' = selected
        BY <2>7, <3>1 DEF Crash, QueueInv, QueueTypeOK
      <4>2. QED
        BY <2>7, <4>1 DEF Crash
    <3>2. CASE selected[w] # NoRun
      BY <2>7, <3>2 DEF Crash, ClaimAbort, QueueStep
    <3>3. QED
      BY <3>1, <3>2
  <2>8. QED
    BY <1>2, <2>1, <2>2, <2>3, <2>4, <2>5, <2>6, <2>7 DEF ProcessNext, Proceed
<1>3. CASE UNCHANGED workerVars
  BY <1>3 DEF workerVars
<1>4. QED
  BY <1>1, <1>2, <1>3 DEF WorkerNext

\* The queue and the gate keep their invariants under the workers.
LEMMA LowerInv ==
  ASSUME Inv, [WorkerNext]_workerVars
  PROVE  /\ [QueueNext]_queueVars
         /\ QueueInv' /\ ConsentInv'
<1>1. [ConsentNext]_gateVars
  BY WorkerStepIsGateStep DEF Inv
<1>2. [QueueNext]_queueVars
  BY <1>1, GateStepIsQueueStep
<1>3. QED
  BY <1>1, <1>2, QueueStepInv, ConsentStepInv DEF Inv

-----------------------------------------------------------------------------
LEMMA TypeStep ==
  ASSUME Inv, WorkerNext PROVE WorkerTypeOK'
<1> USE DEF Inv, WorkerInv, WorkerTypeOK, PC, Ended, AgentKinds, localVars, runVars, Go
<1>1. CASE \E r \in Runs : Submit(r) \/ HumanDecides(r) \/ LeaseEnds(r)
  BY <1>1 DEF Submit, HumanDecides, LeaseEnds
<1>2. ASSUME NEW w \in Workers, ProcessNext(w) PROVE WorkerTypeOK'
  <2>1. CASE Start(w) \/ BeginClaim(w) \/ FindNothing(w) \/ Reap(w) \/ EndClaim(w)
             \/ GateShut(w) \/ AskApproval(w)
    BY <2>1 DEF Start, BeginClaim, SelectPast, FindNothing, Reap, ReapPast, EndClaim,
       GateShut, AskApproval
  <2>2. CASE Beat(w) \/ BeatFails(w)
    <3>1. hb' \in [Workers -> BOOLEAN]
      BY <2>2 DEF Beat, BeatFails
    <3>2. QED
      BY <2>2, <3>1 DEF Beat, BeatFails
  <2>7. CASE ExecutorReturns(w)
    <3>1. PICK o \in {"completed", "failed"} : outcome' = [outcome EXCEPT ![w] = o]
      BY <2>7 DEF ExecutorReturns
    <3>2. QED
      BY <2>7, <3>1 DEF ExecutorReturns
  <2>6. CASE Crash(w) \/ Conflict(w)
    BY <2>6 DEF Crash, Conflict
  <2>3. CASE Execute(w)
    <3>1. cur[w] \in Runs /\ starts[cur[w]] + 1 \in Nat
      BY <2>3, CurIsRun DEF Execute
    <3>2. starts' \in [Runs -> Nat]
      BY <2>3, <3>1 DEF Execute
    <3>3. QED
      BY <2>3, <3>2 DEF Execute
  <2>4. CASE FailUnknownAgent(w) \/ RecordOutcome(w) \/ SaveTags(w)
    BY <2>4 DEF FailUnknownAgent, RecordOutcome, SaveTags
  <2>5. QED
    BY <1>2, <2>1, <2>2, <2>3, <2>4, <2>6, <2>7 DEF ProcessNext, Proceed
<1>3. QED
  BY <1>1, <1>2 DEF WorkerNext

LEMMA InHandStep ==
  ASSUME Inv, WorkerNext PROVE InHand'
<1> USE RunsAssumption
        DEF Inv, WorkerInv, WorkerTypeOK, QueueInv, QueueTypeOK, InHand,
            Ended, localVars, queueVars, Go
<1>1. CASE \E r \in Runs : Submit(r) \/ HumanDecides(r) \/ LeaseEnds(r)
  BY <1>1 DEF Submit, HumanDecides, LeaseEnds, Enqueue, Decide, Unpark, LeaseRunsOut
<1>2. ASSUME NEW w \in Workers, ProcessNext(w) PROVE InHand'
  <2>1. CASE Start(w) \/ FindNothing(w) \/ GateShut(w) \/ Execute(w) \/ BeatFails(w)
    BY <2>1 DEF Start, FindNothing, GateShut, Execute, BeatFails
  <2>10. CASE SaveTags(w)
    BY <2>10 DEF SaveTags
  <2>11. CASE ExecutorReturns(w)
    BY <2>11 DEF ExecutorReturns
  <2>2. CASE BeginClaim(w)
    BY <2>2 DEF BeginClaim, SelectPast, ClaimSelect, Claimable
  <2>3. CASE Reap(w)
    BY <2>3 DEF Reap, ReapPast, ReapExpired
  <2>4. CASE EndClaim(w)
    BY <2>4 DEF EndClaim, ClaimCommit
  <2>5. CASE FailUnknownAgent(w) \/ RecordOutcome(w)
    BY <2>5 DEF FailUnknownAgent, RecordOutcome, Finish
  <2>6. CASE AskApproval(w)
    BY <2>6 DEF AskApproval, Request, Park
  <2>7. CASE Beat(w)
    BY <2>7 DEF Beat, Heartbeat
  <2>8. CASE Conflict(w) \/ Crash(w)
    BY <2>8 DEF Conflict, Crash
  <2>9. QED
    BY <1>2, <2>1, <2>2, <2>3, <2>4, <2>5, <2>6, <2>7, <2>8, <2>10, <2>11
       DEF ProcessNext, Proceed
<1>3. QED
  BY <1>1, <1>2 DEF WorkerNext

\* A concluded run stays concluded: RunLifecycle has no step out of it.
LEMMA ConcludedStays ==
  ASSUME Inv, [WorkerNext]_workerVars, NEW r \in Runs,
         status[r] \in {"completed", "failed"}
  PROVE  status'[r] = status[r]
<1>1. [QueueNext]_queueVars
  BY LowerInv
<1>2. Life(r)!LifeNext \/ UNCHANGED Life(r)!lifeVars
  BY <1>1, LifeStep DEF Inv
<1>3. QED
  BY <1>2 DEF Life!LifeNext, Life!lifeVars, Life!Born, Life!Claimed, Life!Finished,
              Life!Parked, Life!Decided, Life!Expired

\* finish() by w of its run, at one of its two call sites.
LEMMA FinishedByHolder ==
  ASSUME Inv, NEW w \in Workers, FailUnknownAgent(w) \/ RecordOutcome(w)
  PROVE  /\ cur[w] \in Runs
         /\ status[cur[w]] = "running"
         /\ status'[cur[w]] \in {"completed", "failed"}
         /\ result_by' = [result_by EXCEPT ![cur[w]] = w]
         /\ tags_by' = tags_by
         /\ \A r \in Runs : r # cur[w] => status'[r] = status[r]
<1>1. cur[w] \in Runs
  BY CurIsRun DEF FailUnknownAgent, RecordOutcome, Go, Inv
<1>2. CASE FailUnknownAgent(w)
  BY <1>1, <1>2 DEF FailUnknownAgent, Finish, Transition, Inv, QueueInv, QueueTypeOK
<1>3. CASE RecordOutcome(w)
  BY <1>1, <1>3 DEF RecordOutcome, Finish, Transition, Inv, QueueInv, QueueTypeOK
<1>4. QED
  BY <1>2, <1>3

LEMMA ResultStep ==
  ASSUME Inv, WorkerNext PROVE ResultStands' /\ TagsMatchResult'
<1> USE DEF Inv, WorkerInv, WorkerTypeOK, ResultStands, TagsMatchResult,
            InHand, localVars, runVars, Go
<1>1. CASE \E r \in Runs : Submit(r) \/ HumanDecides(r) \/ LeaseEnds(r)
  BY <1>1, ConcludedStays DEF Submit, HumanDecides, LeaseEnds
<1>2. ASSUME NEW w \in Workers, ProcessNext(w) PROVE ResultStands' /\ TagsMatchResult'
  <2>1. CASE \/ Start(w) \/ BeginClaim(w) \/ FindNothing(w) \/ Reap(w) \/ EndClaim(w)
             \/ GateShut(w) \/ AskApproval(w) \/ Execute(w) \/ Conflict(w)
             \/ Beat(w) \/ BeatFails(w) \/ ExecutorReturns(w) \/ Crash(w)
    <3>1. UNCHANGED <<result_by, tags_by>>
      BY <2>1 DEF Start, BeginClaim, SelectPast, FindNothing, Reap, ReapPast,
         EndClaim, GateShut, AskApproval,
                  Execute, Conflict, Beat, BeatFails, ExecutorReturns, Crash
    <3>2. \A v \in Workers : pc'[v] = "tags" => pc[v] = "tags" /\ cur'[v] = cur[v]
      BY <2>1 DEF Start, BeginClaim, SelectPast, FindNothing, Reap, ReapPast,
         EndClaim, GateShut, AskApproval,
                  Execute, Conflict, Beat, BeatFails, ExecutorReturns, Crash
    <3>3. QED
      BY <3>1, <3>2, ConcludedStays
  <2>2. CASE FailUnknownAgent(w) \/ RecordOutcome(w)
    <3>1. result_by[cur[w]] = NoWorker
      BY <2>2, FinishedByHolder
    <3>2. ResultStands'
      <4>1. \A r \in Runs : result_by'[r] # NoWorker => status'[r] \in {"completed", "failed"}
        BY <2>2, FinishedByHolder
      <4>2. \A v \in Workers : pc'[v] = "tags" => result_by'[cur'[v]] = v
        BY <2>2, <3>1, FinishedByHolder, CurIsRun, WorkersAssumption
           DEF FailUnknownAgent, RecordOutcome
      <4>3. QED
        BY <4>1, <4>2
    <3>3. TagsMatchResult'
      BY <2>2, <3>1, FinishedByHolder
    <3>4. QED
      BY <3>2, <3>3
  <2>3. CASE SaveTags(w)
    BY <2>3, CurIsRun, ConcludedStays DEF SaveTags, queueVars
  <2>4. QED
    BY <1>2, <2>1, <2>2, <2>3 DEF ProcessNext, Proceed
<1>3. QED
  BY <1>1, <1>2 DEF WorkerNext

-----------------------------------------------------------------------------
\* A run is owned by whoever owned it before or has just claimed it.
LEMMA OwnedOrClaimed ==
  ASSUME QueueInv, [QueueNext]_queueVars, NEW w \in Workers, NEW r \in Runs, Owns(w, r)'
  PROVE  Owns(w, r) \/ ClaimCommit(w, r)
<1> USE WorkersAssumption
        DEF Owns, QueueInv, QueueTypeOK, Transition, ReleaseLease
<1>1. CASE \E busy \in SUBSET Runs : ReapExpired(busy)
  BY <1>1 DEF ReapExpired, Reaped, Requeued, Exhausted
<1>2. CASE \E s \in Runs : \/ \E budget \in 1 .. MaxBudget : Enqueue(s, budget)
                           \/ LeaseRunsOut(s)
  BY <1>2 DEF Enqueue, LeaseRunsOut
<1>3. CASE \E s \in Runs : \/ \E outcome_ \in {"completed", "failed"} : Finish(s, outcome_)
                           \/ \E approve \in BOOLEAN : Unpark(s, approve)
                           \/ Park(s)
  BY <1>3 DEF Finish, Unpark, Park
<1>4. ASSUME NEW v \in Workers, NEW s \in Runs, ClaimCommit(v, s)
      PROVE  Owns(w, r) \/ ClaimCommit(w, r)
  BY <1>4 DEF ClaimCommit
<1>5. CASE \E v \in Workers : \/ \E busy \in SUBSET Runs : ClaimSelect(v, busy)
                              \/ ClaimAbort(v)
                              \/ \E s \in Runs : Heartbeat(v, s)
  BY <1>5 DEF ClaimSelect, ClaimAbort, Heartbeat
<1>6. CASE UNCHANGED queueVars
  BY <1>6 DEF queueVars
<1>7. QED
  BY <1>1, <1>2, <1>3, <1>4, <1>5, <1>6 DEF QueueNext

\* What a process does with the run it owns: it keeps it in hand, ends, or
\* takes it out of running.
LEMMA OwnersStep ==
  ASSUME Inv, WorkerNext PROVE OwnersAtWork'
<1> SUFFICES ASSUME NEW r \in Runs, NEW w \in Workers, Owns(w, r)'
             PROVE  pc'[w] \in Ended \/ w \in Holding(r)' \cup Executing(r)'
  BY DEF OwnersAtWork
<1> DEFINE AtWork == pc'[w] \in Ended
                     \/ (cur'[w] = r /\ pc'[w] \in {"claimed", "request", "exec", "finish"})
<1> SUFFICES AtWork
  BY DEF Holding, Executing
<1> USE DEF Inv, WorkerInv, WorkerTypeOK, Ended, localVars, runVars, Go
<1>1. [QueueNext]_queueVars /\ InHand'
  BY LowerInv, InHandStep
<1>2. CASE ClaimCommit(w, r)
  <2>1. selected[w] = r /\ selected'[w] = NoRun /\ pc[w] = "claim" /\ pc'[w] # "claim"
    BY <1>1, <1>2, RunsAssumption DEF ClaimCommit, InHand, QueueInv, QueueTypeOK
  <2>2. CASE \E s \in Runs : Submit(s) \/ HumanDecides(s) \/ LeaseEnds(s)
    BY <2>1, <2>2 DEF Submit, HumanDecides, LeaseEnds
  <2>3. ASSUME NEW v \in Workers, ProcessNext(v) PROVE AtWork
    <3>1. v = w
      BY <2>1, <2>3 DEF ProcessNext, Proceed, Start, BeginClaim, SelectPast,
         FindNothing, Reap, ReapPast,
           EndClaim, FailUnknownAgent, GateShut, AskApproval, Execute, RecordOutcome,
           SaveTags, Conflict, Beat, BeatFails, ExecutorReturns, Crash
    <3>2. EndClaim(w) \/ Crash(w)
      BY <2>1, <2>3, <3>1 DEF ProcessNext, Proceed, Start, BeginClaim, SelectPast,
         FindNothing, Reap, ReapPast,
           FailUnknownAgent, GateShut, AskApproval, Execute, RecordOutcome,
           SaveTags, Conflict, Beat, BeatFails, ExecutorReturns
    <3>3. CASE EndClaim(w)
      BY <2>1, <3>3 DEF EndClaim, ClaimCommit
    <3>4. CASE Crash(w)
      BY <3>4 DEF Crash
    <3>5. QED
      BY <3>2, <3>3, <3>4
  <2>4. QED
    BY <2>2, <2>3 DEF WorkerNext
<1>3. CASE Owns(w, r)
  <2>1. pc[w] \in Ended \/ (cur[w] = r /\ pc[w] \in {"claimed", "request", "exec", "finish"})
    BY <1>3 DEF OwnersAtWork, Holding, Executing
  <2>2. status'[r] = "running"
    BY DEF Owns
  <2>3. CASE \E s \in Runs : Submit(s) \/ HumanDecides(s) \/ LeaseEnds(s)
    BY <2>1, <2>3 DEF Submit, HumanDecides, LeaseEnds
  <2>4. ASSUME NEW v \in Workers, ProcessNext(v), v # w PROVE AtWork
    <3>1. pc'[w] = pc[w] /\ cur'[w] = cur[w]
      BY <2>4 DEF ProcessNext, Proceed, Start, BeginClaim, SelectPast, FindNothing,
         Reap, ReapPast,
           EndClaim, FailUnknownAgent, GateShut, AskApproval, Execute, RecordOutcome,
           SaveTags, Conflict, Beat, BeatFails, ExecutorReturns, Crash
    <3>2. QED
      BY <2>1, <3>1
  <2>5. ASSUME ProcessNext(w) PROVE AtWork
    <3>1. CASE \/ Start(w) \/ BeginClaim(w) \/ FindNothing(w) \/ Reap(w)
               \/ EndClaim(w) \/ SaveTags(w)
      BY <2>1, <3>1 DEF Start, BeginClaim, SelectPast, FindNothing, Reap, ReapPast,
         EndClaim, SaveTags
    <3>2. CASE GateShut(w) \/ Execute(w) \/ Beat(w) \/ BeatFails(w) \/ ExecutorReturns(w)
      BY <2>1, <3>2 DEF GateShut, Execute, Beat, BeatFails, ExecutorReturns
    <3>3. CASE Conflict(w) \/ Crash(w)
      BY <3>3 DEF Conflict, Crash
    <3>4. CASE FailUnknownAgent(w) \/ RecordOutcome(w)
      <4>1. status'[cur[w]] # "running" /\ pc[w] \notin Ended
        BY <3>4, FinishedByHolder DEF FailUnknownAgent, RecordOutcome
      <4>2. QED
        BY <2>1, <2>2, <4>1
    <3>5. CASE AskApproval(w)
      <4>1. cur[w] \in Runs /\ pc[w] \notin Ended
        BY <3>5, CurIsRun DEF AskApproval
      <4>2. status'[cur[w]] = "awaiting_approval"
        BY <3>5, <4>1 DEF AskApproval, Request, Park, Transition, QueueInv, QueueTypeOK
      <4>3. QED
        BY <2>1, <2>2, <4>1, <4>2
    <3>6. QED
      BY <2>5, <3>1, <3>2, <3>3, <3>4, <3>5 DEF ProcessNext, Proceed
  <2>6. QED
    BY <2>3, <2>4, <2>5 DEF WorkerNext
<1>4. QED
  BY <1>1, <1>2, <1>3, OwnedOrClaimed

-----------------------------------------------------------------------------
\* Consent, once given, is not taken back.
LEMMA ApprovalStays ==
  ASSUME Inv, [ConsentNext]_gateVars, NEW r \in Runs, approved[r]
  PROVE  approved'[r]
BY DEF Inv, ConsentInv, ConsentTypeOK, ConsentNext, Request, Decide, consentVars,
   gateVars

LEMMA GateStep ==
  ASSUME Inv, WorkerNext PROVE GateHonoured'
<1> USE DEF Inv, WorkerInv, WorkerTypeOK, GateHonoured, localVars, runVars, Go
<1>1. \A r \in Runs : approved[r] => approved'[r]
  BY WorkerStepIsGateStep, ApprovalStays
<1>2. ASSUME NEW r \in Runs, Submit(r) PROVE GateHonoured'
  <2>1. starts[r] = 0
    <3>1. attempts[r] = 0
      BY <1>2 DEF Submit, Enqueue, QueueInv, AttemptsAccounted
    <3>2. IsFiniteSet(Holding(r)) /\ Cardinality(Holding(r)) \in Nat
      BY FiniteWorkers, FS_Subset, FS_CardinalityType DEF Holding
    <3>3. starts[r] + Cardinality(Holding(r)) <= attempts[r]
      BY DEF StartsPaidFor
    <3>4. QED
      BY <3>1, <3>2, <3>3
  <2>2. starts' = starts /\ \A s \in Runs : s # r => agent'[s] = agent[s]
    BY <1>2 DEF Submit
  <2>3. QED
    BY <1>1, <2>1, <2>2
<1>3. ASSUME NEW r \in Runs, HumanDecides(r) \/ LeaseEnds(r) PROVE GateHonoured'
  BY <1>1, <1>3 DEF HumanDecides, LeaseEnds
<1>4. ASSUME NEW w \in Workers, ProcessNext(w) PROVE GateHonoured'
  <2>1. CASE \/ Start(w) \/ BeginClaim(w) \/ FindNothing(w) \/ Reap(w) \/ EndClaim(w)
             \/ FailUnknownAgent(w) \/ GateShut(w) \/ AskApproval(w)
             \/ RecordOutcome(w) \/ SaveTags(w) \/ Conflict(w)
             \/ Beat(w) \/ BeatFails(w) \/ ExecutorReturns(w) \/ Crash(w)
    <3>1. UNCHANGED <<agent, starts>>
      BY <2>1 DEF Start, BeginClaim, SelectPast, FindNothing, Reap, ReapPast,
         EndClaim, FailUnknownAgent,
           GateShut, AskApproval, RecordOutcome, SaveTags, Conflict, Beat, BeatFails,
           ExecutorReturns, Crash
    <3>2. QED
      BY <1>1, <3>1
  <2>2. CASE Execute(w)
    BY <1>1, <2>2 DEF Execute, HasApproved
  <2>3. QED
    BY <1>4, <2>1, <2>2 DEF ProcessNext, Proceed
<1>5. QED
  BY <1>2, <1>3, <1>4 DEF WorkerNext

-----------------------------------------------------------------------------
\* Sets of workers are finite and their sizes behave.
LEMMA CrowdSize ==
  ASSUME NEW S \in SUBSET Workers
  PROVE  /\ Cardinality(S) \in Nat
         /\ \A T \in SUBSET S : Cardinality(T) \in Nat /\ Cardinality(T) <= Cardinality(S)
         /\ \A w : w \notin S => Cardinality(S \cup {w}) = Cardinality(S) + 1
         /\ \A w : w \in S => Cardinality(S \ {w}) = Cardinality(S) - 1
<1>1. IsFiniteSet(S)
  BY FiniteWorkers, FS_Subset
<1>2. QED
  BY <1>1, FS_CardinalityType, FS_Subset, FS_AddElement, FS_RemoveElement

\* What keeps starts and executors in balance with attempts, for one run.
Paid(r) == /\ starts[r] + Cardinality(Holding(r)) <= attempts[r]
           /\ Cardinality(Executing(r)) <= starts[r]

\* Nothing is taken from the balance of a run by a step that moves nobody
\* to it and leaves its counters alone.
LEMMA PaidFrame ==
  ASSUME NEW r \in Runs, Inv, Paid(r),
         attempts'[r] = attempts[r], starts'[r] = starts[r],
         Holding(r)' \subseteq Holding(r), Executing(r)' \subseteq Executing(r)
  PROVE  Paid(r)'
<1>1. Holding(r) \in SUBSET Workers /\ Executing(r) \in SUBSET Workers
  BY DEF Holding, Executing
<1>2. /\ Cardinality(Holding(r)) \in Nat /\ Cardinality(Executing(r)) \in Nat
      /\ Cardinality(Holding(r)') \in Nat /\ Cardinality(Executing(r)') \in Nat
      /\ Cardinality(Holding(r)') <= Cardinality(Holding(r))
      /\ Cardinality(Executing(r)') <= Cardinality(Executing(r))
  BY <1>1, CrowdSize
<1>3. starts[r] \in Nat /\ attempts[r] \in Nat
  BY DEF Inv, QueueInv, QueueTypeOK, WorkerInv, WorkerTypeOK
<1>4. QED
  BY <1>2, <1>3 DEF Paid

\* A claim: one more holder, one more attempt.
LEMMA PaidEndClaim ==
  ASSUME Inv, NEW w \in Workers, EndClaim(w), NEW r \in Runs, Paid(r)
  PROVE  Paid(r)'
<1> USE DEF EndClaim, ClaimCommit, Go, runVars, Inv, QueueInv, QueueTypeOK,
            WorkerInv, WorkerTypeOK
<1>1. PICK s \in Runs : ClaimCommit(w, s) /\ cur' = [cur EXCEPT ![w] = s]
  OBVIOUS
<1>2. CASE r # s
  <2>1. Holding(r)' \subseteq Holding(r) /\ Executing(r)' \subseteq Executing(r)
    BY <1>1, <1>2 DEF Holding, Executing
  <2>2. attempts'[r] = attempts[r] /\ starts'[r] = starts[r]
    BY <1>1, <1>2
  <2>3. QED
    BY <2>1, <2>2, PaidFrame
<1>3. CASE r = s
  <2>1. /\ Holding(r)' = Holding(r) \cup {w} /\ w \notin Holding(r)
        /\ Executing(r)' = Executing(r)
    BY <1>1, <1>3, RunsAssumption DEF Holding, Executing, InHand
  <2>2. attempts'[r] = attempts[r] + 1 /\ starts'[r] = starts[r]
    BY <1>1, <1>3
  <2>3. /\ Cardinality(Holding(r)) \in Nat
        /\ Cardinality(Holding(r)') = Cardinality(Holding(r)) + 1
    <3>1. Holding(r) \in SUBSET Workers
      BY DEF Holding
    <3>2. QED
      BY <2>1, <3>1, CrowdSize
  <2>4. QED
    BY <2>1, <2>2, <2>3 DEF Paid
<1>4. QED
  BY <1>2, <1>3

\* Parking: one holder less, one attempt given back, whoever owned the run.
LEMMA PaidAskApproval ==
  ASSUME Inv, NEW w \in Workers, AskApproval(w), NEW r \in Runs, Paid(r)
  PROVE  Paid(r)'
<1> USE DEF AskApproval, Request, Park, Go, runVars, Inv, QueueInv, QueueTypeOK,
            WorkerInv, WorkerTypeOK
<1>1. cur[w] \in Runs
  BY CurIsRun
<1>2. CASE r # cur[w]
  <2>1. Holding(r)' \subseteq Holding(r) /\ Executing(r)' \subseteq Executing(r)
    BY <1>2 DEF Holding, Executing
  <2>2. attempts'[r] = attempts[r] /\ starts'[r] = starts[r]
    BY <1>1, <1>2
  <2>3. QED
    BY <2>1, <2>2, PaidFrame
<1>3. CASE r = cur[w]
  <2>1. /\ Holding(r)' = Holding(r) \ {w} /\ w \in Holding(r)
        /\ Executing(r)' = Executing(r)
    BY <1>3, RunsAssumption DEF Holding, Executing
  <2>2. attempts'[r] = attempts[r] - 1 /\ starts'[r] = starts[r]
    BY <1>3
  <2>3. /\ Cardinality(Holding(r)) \in Nat
        /\ Cardinality(Holding(r)') = Cardinality(Holding(r)) - 1
    <3>1. Holding(r) \in SUBSET Workers
      BY DEF Holding
    <3>2. QED
      BY <2>1, <3>1, CrowdSize
  <2>4. QED
    BY <2>1, <2>2, <2>3 DEF Paid
<1>4. QED
  BY <1>2, <1>3

\* A start: the holder turns executor.
LEMMA PaidExecute ==
  ASSUME Inv, NEW w \in Workers, Execute(w), NEW r \in Runs, Paid(r)
  PROVE  Paid(r)'
<1> USE DEF Execute, Go, queueVars, Inv, QueueInv, QueueTypeOK, WorkerInv, WorkerTypeOK
<1>1. cur[w] \in Runs
  BY CurIsRun
<1>2. CASE r # cur[w]
  <2>1. Holding(r)' \subseteq Holding(r) /\ Executing(r)' \subseteq Executing(r)
    BY <1>2 DEF Holding, Executing
  <2>2. attempts'[r] = attempts[r] /\ starts'[r] = starts[r]
    BY <1>1, <1>2
  <2>3. QED
    BY <2>1, <2>2, PaidFrame
<1>3. CASE r = cur[w]
  <2>1. /\ Holding(r)' = Holding(r) \ {w} /\ w \in Holding(r)
        /\ Executing(r)' = Executing(r) \cup {w} /\ w \notin Executing(r)
    BY <1>3 DEF Holding, Executing
  <2>2. attempts'[r] = attempts[r] /\ starts'[r] = starts[r] + 1
    BY <1>3
  <2>3. /\ Cardinality(Holding(r)) \in Nat /\ Cardinality(Executing(r)) \in Nat
        /\ Cardinality(Holding(r)') = Cardinality(Holding(r)) - 1
        /\ Cardinality(Executing(r)') = Cardinality(Executing(r)) + 1
    <3>1. Holding(r) \in SUBSET Workers /\ Executing(r) \in SUBSET Workers
      BY DEF Holding, Executing
    <3>2. QED
      BY <2>1, <3>1, CrowdSize
  <2>4. QED
    BY <2>2, <2>3 DEF Paid
<1>4. QED
  BY <1>2, <1>3

LEMMA PaidStep ==
  ASSUME Inv, WorkerNext, NEW r \in Runs PROVE Paid(r)'
<1> USE DEF Inv, QueueInv, QueueTypeOK, WorkerInv, WorkerTypeOK, queueVars, localVars,
            runVars, Go
<1>0. Paid(r)
  BY DEF StartsPaidFor, ExecutorsStarted, Paid
<1>1. CASE \E s \in Runs : Submit(s) \/ HumanDecides(s) \/ LeaseEnds(s)
  <2>1. UNCHANGED <<attempts, starts, pc, cur>>
    BY <1>1 DEF Submit, HumanDecides, LeaseEnds, Enqueue, Decide, Unpark, LeaseRunsOut
  <2>2. QED
    BY <1>0, <2>1, PaidFrame DEF Holding, Executing
<1>2. ASSUME NEW w \in Workers, ProcessNext(w) PROVE Paid(r)'
  <2>1. CASE EndClaim(w)
    BY <1>0, <2>1, PaidEndClaim
  <2>2. CASE AskApproval(w)
    BY <1>0, <2>2, PaidAskApproval
  <2>3. CASE Execute(w)
    BY <1>0, <2>3, PaidExecute
  <2>4. CASE \/ Start(w) \/ BeginClaim(w) \/ FindNothing(w) \/ Reap(w)
             \/ FailUnknownAgent(w) \/ GateShut(w) \/ RecordOutcome(w) \/ SaveTags(w)
             \/ Conflict(w) \/ Beat(w) \/ BeatFails(w) \/ ExecutorReturns(w) \/ Crash(w)
    <3>1. UNCHANGED <<attempts, starts>>
      BY <2>4 DEF Start, BeginClaim, SelectPast, FindNothing, Reap, ReapPast,
         FailUnknownAgent, GateShut,
           RecordOutcome, SaveTags, Conflict, Beat, BeatFails, ExecutorReturns, Crash,
           ClaimSelect, ReapExpired, Finish, Heartbeat
    <3>2. \A v \in Workers :
             /\ v \in Holding(r)' => v \in Holding(r)
             /\ v \in Executing(r)' => v \in Executing(r)
      <4>1. CASE Start(w) \/ BeginClaim(w) \/ FindNothing(w) \/ Reap(w) \/ GateShut(w)
        BY <4>1 DEF Start, BeginClaim, SelectPast, FindNothing, Reap, ReapPast,
           GateShut, Holding, Executing
      <4>2. CASE FailUnknownAgent(w) \/ RecordOutcome(w) \/ SaveTags(w)
        BY <4>2 DEF FailUnknownAgent, RecordOutcome, SaveTags, Holding, Executing
      <4>3. CASE Conflict(w) \/ Crash(w)
        BY <4>3 DEF Conflict, Crash, Holding, Executing
      <4>4. CASE Beat(w) \/ BeatFails(w) \/ ExecutorReturns(w)
        BY <4>4 DEF Beat, BeatFails, ExecutorReturns, Holding, Executing
      <4>5. QED
        BY <2>4, <4>1, <4>2, <4>3, <4>4
    <3>3. Holding(r)' \subseteq Holding(r) /\ Executing(r)' \subseteq Executing(r)
      BY <3>2 DEF Holding, Executing
    <3>4. QED
      BY <1>0, <3>1, <3>3, PaidFrame
  <2>5. QED
    BY <1>2, <2>1, <2>2, <2>3, <2>4 DEF ProcessNext, Proceed
<1>3. QED
  BY <1>1, <1>2 DEF WorkerNext

\* Attempts are bounded, so starts are.
LEMMA PaidStarts ==
  ASSUME QueueInv', WorkerTypeOK', \A r \in Runs : Paid(r)'
  PROVE  StartsPaidFor' /\ ExecutorsStarted'
<1> SUFFICES ASSUME NEW r \in Runs
             PROVE  /\ starts'[r] + Cardinality(Holding(r)') <= attempts'[r]
                    /\ starts'[r] <= max_attempts'[r]
                    /\ Cardinality(Executing(r)') <= starts'[r]
  BY DEF StartsPaidFor, ExecutorsStarted
<1>1. Cardinality(Holding(r)') \in Nat
  BY CrowdSize DEF Holding
<1>2. /\ attempts'[r] <= max_attempts'[r] /\ starts'[r] \in Nat
      /\ attempts'[r] \in Nat /\ max_attempts'[r] \in Nat
  BY DEF QueueInv, QueueTypeOK, AttemptsAccounted, WorkerTypeOK
<1>3. QED
  BY <1>1, <1>2 DEF Paid

-----------------------------------------------------------------------------
\* Every step of the workers keeps the three invariants together.
LEMMA WorkerStepInv == Inv /\ [WorkerNext]_workerVars => Inv'
<1> SUFFICES ASSUME Inv, [WorkerNext]_workerVars PROVE Inv'
  OBVIOUS
<1>1. QueueInv' /\ ConsentInv'
  BY LowerInv
<1>2. CASE WorkerNext
  <2>1. WorkerTypeOK' /\ InHand' /\ ResultStands' /\ TagsMatchResult'
    BY <1>2, TypeStep, InHandStep, ResultStep
  <2>2. GateHonoured' /\ OwnersAtWork'
    BY <1>2, GateStep, OwnersStep
  <2>3. StartsPaidFor' /\ ExecutorsStarted'
    <3>1. \A r \in Runs : Paid(r)'
      BY <1>2, PaidStep
    <3>2. QED
      BY <1>1, <2>1, <3>1, PaidStarts
  <2>4. QED
    BY <1>1, <2>1, <2>2, <2>3 DEF Inv, WorkerInv
<1>3. CASE UNCHANGED workerVars
  <2> USE DEF Inv, WorkerInv, workerVars
  <2>1. WorkerTypeOK' /\ InHand'
    BY <1>3 DEF WorkerTypeOK, InHand
  <2>2. ResultStands' /\ TagsMatchResult'
    BY <1>3 DEF ResultStands, TagsMatchResult
  <2>3. \A r \in Runs : Holding(r)' = Holding(r) /\ Executing(r)' = Executing(r)
    BY <1>3 DEF Holding, Executing
  <2>4. StartsPaidFor' /\ ExecutorsStarted'
    BY <1>3, <2>3 DEF StartsPaidFor, ExecutorsStarted
  <2>5. GateHonoured'
    BY <1>3 DEF GateHonoured
  <2>6. OwnersAtWork'
    BY <1>3, <2>3 DEF OwnersAtWork, Owns
  <2>7. QED
    BY <1>1, <2>1, <2>2, <2>4, <2>5, <2>6
<1>4. QED
  BY <1>2, <1>3

LEMMA WorkerInitInv == WorkerInit => Inv
<1> SUFFICES ASSUME WorkerInit PROVE Inv
  OBVIOUS
<1> USE DEF WorkerInit, ConsentInit, QueueInit
<1>1. QueueInv
  BY QueueInitInv
<1>2. ConsentInv
  BY DEF ConsentInv, ConsentTypeOK, PendingIffParked, RejectionIsFinal
<1>3. \A r \in Runs : Holding(r) = {} /\ Executing(r) = {}
  BY DEF Holding, Executing
<1>4. StartsPaidFor /\ ExecutorsStarted
  <2>1. Cardinality({}) = 0
    BY FS_EmptySet
  <2>2. \A r \in Runs : starts[r] = 0 /\ attempts[r] = 0 /\ max_attempts[r] = 0
    OBVIOUS
  <2>3. \A r \in Runs : Cardinality(Holding(r)) = 0 /\ Cardinality(Executing(r)) = 0
    BY <1>3, <2>1
  <2>4. QED
    BY <2>2, <2>3 DEF StartsPaidFor, ExecutorsStarted
<1>5. WorkerTypeOK
  BY DEF WorkerTypeOK, PC, AgentKinds
<1>6. InHand /\ ResultStands /\ TagsMatchResult
  <2>1. InHand
    BY DEF InHand
  <2>2. ResultStands /\ TagsMatchResult
    BY DEF ResultStands, TagsMatchResult
  <2>3. QED
    BY <2>1, <2>2
<1>7. GateHonoured /\ OwnersAtWork
  BY WorkersAssumption DEF GateHonoured, OwnersAtWork, Owns
<1>8. QED
  BY <1>1, <1>2, <1>4, <1>5, <1>6, <1>7 DEF Inv, WorkerInv

\* The invariants of queue, gate and workers hold in every reachable state.
THEOREM WorkerInvariant == WorkerSafeSpec => []Inv
BY WorkerInitInv, WorkerStepInv, PTL DEF WorkerSafeSpec

\* process_once() is a correct caller: all that is proved of ConsentGate and
\* of RunQueue under arbitrary callers holds of the worker processes.
THEOREM WorkersImplementGate == WorkerSafeSpec => ConsentSpec
<1>1. WorkerInit => ConsentInit
  BY DEF WorkerInit
<1>2. Inv /\ [WorkerNext]_workerVars => [ConsentNext]_gateVars
  BY WorkerStepIsGateStep DEF Inv
<1>3. QED
  BY <1>1, <1>2, WorkerInvariant, PTL DEF WorkerSafeSpec, ConsentSpec

\* An executor is started for a run at most max_attempts times.
THEOREM ExecutionsBounded == WorkerSafeSpec => []StartsPaidFor
<1>1. Inv => StartsPaidFor
  BY DEF Inv, WorkerInv
<1>2. QED
  BY <1>1, WorkerInvariant, PTL

\* Two different members need two elements.
LEMMA LonelyCrowd ==
  ASSUME NEW S \in SUBSET Workers, Cardinality(S) <= 1, NEW v \in S, NEW w \in S
  PROVE  v = w
<1> SUFFICES ASSUME v # w PROVE FALSE
  OBVIOUS
<1>1. Cardinality(S \ {w}) = Cardinality(S) - 1 /\ Cardinality(S) \in Nat
  BY CrowdSize
<1>2. S \ {w} \in SUBSET Workers /\ v \in S \ {w}
  OBVIOUS
<1>3. /\ Cardinality((S \ {w}) \ {v}) = Cardinality(S \ {w}) - 1
      /\ Cardinality((S \ {w}) \ {v}) \in Nat
  BY <1>2, CrowdSize
<1>4. QED
  BY <1>1, <1>3

LEMMA InhabitedCrowd ==
  ASSUME NEW S \in SUBSET Workers, NEW v \in S
  PROVE  Cardinality(S) >= 1
<1>1. Cardinality(S \ {v}) = Cardinality(S) - 1 /\ Cardinality(S) \in Nat
  BY CrowdSize
<1>2. Cardinality(S \ {v}) \in Nat
  BY CrowdSize
<1>3. QED
  BY <1>1, <1>2

\* With the budget every caller in the repository uses, no two processes are
\* ever at work on one run, not even after a lost lease.
THEOREM OneExecutorPerRun == WorkerSafeSpec => []OneExecutor
<1>1. Inv => OneExecutor
  <2> SUFFICES ASSUME Inv, NEW r \in Runs, max_attempts[r] = 1,
                      NEW v \in Holding(r) \cup Executing(r),
                      NEW w \in Holding(r) \cup Executing(r)
               PROVE  v = w
    BY DEF OneExecutor
  <2>1. Holding(r) \in SUBSET Workers /\ Executing(r) \in SUBSET Workers
    BY DEF Holding, Executing
  <2> DEFINE h == Cardinality(Holding(r))
             e == Cardinality(Executing(r))
  <2>2. h \in Nat /\ e \in Nat
    BY <2>1, CrowdSize
  <2>3. h + e <= 1
    <3>1. /\ starts[r] + h <= attempts[r] /\ e <= starts[r]
          /\ attempts[r] <= 1
      BY DEF Inv, WorkerInv, StartsPaidFor, ExecutorsStarted, QueueInv,
         AttemptsAccounted
    <3>2. starts[r] \in Nat /\ attempts[r] \in Nat
      BY DEF Inv, WorkerInv, WorkerTypeOK, QueueInv, QueueTypeOK
    <3> HIDE DEF h, e
    <3>3. QED
      BY <2>2, <3>1, <3>2
  <2>4. CASE v \in Holding(r) /\ w \in Holding(r)
    <3>1. h <= 1
      <4> HIDE DEF h, e
      <4>1. QED
        BY <2>2, <2>3
    <3>2. QED
      BY <2>1, <2>4, <3>1, LonelyCrowd
  <2>5. CASE v \in Executing(r) /\ w \in Executing(r)
    <3>1. e <= 1
      <4> HIDE DEF h, e
      <4>1. QED
        BY <2>2, <2>3
    <3>2. QED
      BY <2>1, <2>5, <3>1, LonelyCrowd
  <2>6. CASE \/ v \in Holding(r) /\ w \in Executing(r)
             \/ w \in Holding(r) /\ v \in Executing(r)
    <3>1. h >= 1 /\ e >= 1
      BY <2>1, <2>6, InhabitedCrowd
    <3> HIDE DEF h, e
    <3>2. QED
      BY <2>2, <2>3, <3>1
  <2>7. QED
    BY <2>4, <2>5, <2>6
<1>2. QED
  BY <1>1, WorkerInvariant, PTL

\* A rejected run always has an unused attempt; with the default budget it
\* was never executed.
THEOREM RejectedRunsKeepAttempt == WorkerSafeSpec => []RejectedKeepsAttempt
<1>1. Inv => RejectedKeepsAttempt
  <2> SUFFICES ASSUME Inv, NEW r \in Runs, rejected[r] PROVE starts[r] < max_attempts[r]
    BY DEF RejectedKeepsAttempt
  <2>1. attempts[r] < max_attempts[r]
    BY DEF Inv, ConsentInv, RejectionIsFinal, QueueInv, AttemptsAccounted
  <2>2. starts[r] + Cardinality(Holding(r)) <= attempts[r]
    BY DEF Inv, WorkerInv, StartsPaidFor
  <2>3. /\ Cardinality(Holding(r)) \in Nat /\ starts[r] \in Nat
        /\ attempts[r] \in Nat /\ max_attempts[r] \in Nat
    BY CrowdSize DEF Holding, Inv, WorkerInv, WorkerTypeOK, QueueInv, QueueTypeOK
  <2>4. QED
    BY <2>1, <2>2, <2>3
<1>2. QED
  BY <1>1, WorkerInvariant, PTL

\* Nothing gated is executed without consent, tags go with results, and a
\* live owner has its run in hand.
THEOREM WorkersBehave == WorkerSafeSpec => [](GateHonoured /\ TagsMatchResult /\ OwnersAtWork)
<1>1. Inv => GateHonoured /\ TagsMatchResult /\ OwnersAtWork
  BY DEF Inv, WorkerInv
<1>2. QED
  BY <1>1, WorkerInvariant, PTL

\* The worker processes' state keeps its types: who is where in
\* process_once(), with which run.
THEOREM WorkerTypes == WorkerSafeSpec => []WorkerTypeOK
<1>1. Inv => WorkerTypeOK
  BY DEF Inv, WorkerInv
<1>2. QED
  BY <1>1, WorkerInvariant, PTL

\* The tags, a second transaction of process_once(), are written by whoever
\* wrote the result, however late.
THEOREM TagsAndResultsAgree == WorkerSafeSpec => []TagsMatchResult
<1>1. Inv => TagsMatchResult
  BY DEF Inv, WorkerInv
<1>2. QED
  BY <1>1, WorkerInvariant, PTL

\* No path through process_once() leaves a run running whose owner is not
\* at work on it, unless the owner ended.
THEOREM OwnersWork == WorkerSafeSpec => []OwnersAtWork
<1>1. Inv => OwnersAtWork
  BY DEF Inv, WorkerInv
<1>2. QED
  BY <1>1, WorkerInvariant, PTL

=============================================================================
