------------------------------- MODULE Worker -------------------------------
(***************************************************************************)
(* The worker processes: process_once() and the loop of main() in          *)
(* src/octo/worker/main.py, calling the queue and the consent gate, with   *)
(* the people and programs around them (the API that enqueues, the human   *)
(* who decides, the clock that lets leases run out, crashes).              *)
(*                                                                         *)
(* A process has a fresh identity (host name and uuid4) and is not         *)
(* restarted: compose.yml gives the worker no restart policy.              *)
(***************************************************************************)
EXTENDS ConsentGate

ASSUME FiniteWorkers == IsFiniteSet(Workers)

VARIABLES
    pc,         \* where the process is in its loop
    cur,        \* the run it holds in `run` / `run_id`
    hb,         \* its keep_lease task is still beating
    outcome,    \* ExecOutcome.status, once the executor returned
    agent,      \* what the registry says of the run's agent
    starts,     \* how often an executor was started for the run
    result_by,  \* the process whose finish() wrote the run's result
    tags_by     \* the process that wrote the run's final tags

localVars == <<pc, cur, hb, outcome>>
runVars == <<agent, starts, result_by, tags_by>>
workerVars == <<status, attempts, max_attempts, locked_by, lease,
                selected, trail, requeues, pending, approved, rejected,
                pc, cur, hb, outcome, agent, starts, result_by, tags_by>>

\* open: executes at once; gated: requires_approval; unknown: not in the
\* registry of the worker (another deployment enqueued it).
AgentKinds == {"open", "gated", "unknown"}

PC == {"unborn",   \* not started
       "poll",     \* top of the loop
       "claim",    \* inside claim(), holding a row lock
       "idle",     \* claim() returned None
       "claimed",  \* has a run, agent not looked up yet
       "request",  \* has_approved() returned no row
       "exec",     \* inside executor.execute()
       "finish",   \* the executor returned or raised
       "tags",     \* finish() committed, tags not written
       "conflict", \* ended by an uncaught IllegalTransition
       "dead"}     \* ended otherwise

Ended == {"conflict", "dead"}

WorkerInit ==
    /\ ConsentInit
    /\ pc = [w \in Workers |-> "unborn"]
    /\ cur = [w \in Workers |-> NoRun]
    /\ hb = [w \in Workers |-> FALSE]
    /\ outcome = [w \in Workers |-> "none"]
    /\ agent = [r \in Runs |-> "open"]
    /\ starts = [r \in Runs |-> 0]
    /\ result_by = [r \in Runs |-> NoWorker]
    /\ tags_by = [r \in Runs |-> NoWorker]

-----------------------------------------------------------------------------
\* Around the workers.

\* POST /agents/{name}/run, a schedule or the CLI.
Submit(r) ==
    /\ \E budget \in 1 .. MaxBudget : Enqueue(r, budget)
    /\ \E kind \in AgentKinds : agent' = [agent EXCEPT ![r] = kind]
    /\ UNCHANGED <<consentVars, localVars, starts, result_by, tags_by>>

\* POST /runs/{id}/approve and /reject.
HumanDecides(r) ==
    /\ \E approve \in BOOLEAN : Decide(r, approve)
    /\ UNCHANGED <<localVars, runVars>>

\* Possible at any time: a pause of the process, a lost connection or a
\* blocked event loop can hold heartbeats up for 15 minutes.
LeaseEnds(r) == LeaseRunsOut(r) /\ UNCHANGED <<consentVars, localVars, runVars>>

-----------------------------------------------------------------------------
\* The process.

Go(w, from, to) == pc[w] = from /\ pc' = [pc EXCEPT ![w] = to]

Start(w) ==
    /\ Go(w, "unborn", "poll")
    /\ UNCHANGED <<queueVars, consentVars, cur, hb, outcome, runVars>>

\* Rows that the other processes may have locked for a moment: their
\* executors record events, they heartbeat, finish, tag.
Touched(w) == {cur[v] : v \in Workers \ {w}} \cap Runs

SelectPast(w, busy) ==
    /\ Go(w, "poll", "claim")
    /\ ClaimSelect(w, busy)
    /\ UNCHANGED <<consentVars, cur, hb, outcome, runVars>>

BeginClaim(w) == \E busy \in SUBSET Touched(w) : SelectPast(w, busy)

\* claim() returns None: no queued run, or all of them locked by others.
FindNothing(w) ==
    /\ Go(w, "poll", "idle")
    /\ Claimable \subseteq Touched(w)
    /\ UNCHANGED <<queueVars, consentVars, cur, hb, outcome, runVars>>

\* Only after an empty poll does the loop of main() reap (and sleep).
ReapPast(w, busy) ==
    /\ Go(w, "idle", "poll")
    /\ ReapExpired(busy)
    /\ UNCHANGED <<consentVars, cur, hb, outcome, runVars>>

Reap(w) == \E busy \in SUBSET Touched(w) : ReapPast(w, busy)

EndClaim(w) ==
    /\ Go(w, "claim", "claimed")
    /\ \E r \in Runs : ClaimCommit(w, r) /\ cur' = [cur EXCEPT ![w] = r]
    /\ UNCHANGED <<consentVars, hb, outcome, runVars>>

\* registry.get() is None: process_once() fails the run and returns.
FailUnknownAgent(w) ==
    /\ Go(w, "claimed", "poll")
    /\ agent[cur[w]] = "unknown"
    /\ Finish(cur[w], "failed")
    /\ cur' = [cur EXCEPT ![w] = NoRun]
    /\ result_by' = [result_by EXCEPT ![cur[w]] = w]
    /\ UNCHANGED <<consentVars, hb, outcome, agent, starts, tags_by>>

\* Gated, and no approved row at the time of the query.
GateShut(w) ==
    /\ Go(w, "claimed", "request")
    /\ agent[cur[w]] = "gated" /\ ~HasApproved(cur[w])
    /\ UNCHANGED <<queueVars, consentVars, cur, hb, outcome, runVars>>

AskApproval(w) ==
    /\ Go(w, "request", "poll")
    /\ Request(cur[w])
    /\ cur' = [cur EXCEPT ![w] = NoRun]
    /\ UNCHANGED <<hb, outcome, runVars>>

\* keep_lease is started and the executor called.  The lease is not looked
\* at again: time may have passed since the claim.
Execute(w) ==
    /\ Go(w, "claimed", "exec")
    /\ \/ agent[cur[w]] = "open"
       \/ agent[cur[w]] = "gated" /\ HasApproved(cur[w])
    /\ hb' = [hb EXCEPT ![w] = TRUE]
    /\ starts' = [starts EXCEPT ![cur[w]] = @ + 1]
    /\ UNCHANGED <<queueVars, consentVars, cur, outcome, agent, result_by, tags_by>>

\* keep_lease: a lost lease ends the task with a warning.  The executor is
\* not told.
Beat(w) ==
    /\ pc[w] = "exec" /\ hb[w]
    /\ IF Owns(w, cur[w])
         THEN Heartbeat(w, cur[w]) /\ UNCHANGED hb
         ELSE hb' = [hb EXCEPT ![w] = FALSE] /\ UNCHANGED queueVars
    /\ UNCHANGED <<consentVars, pc, cur, outcome, runVars>>

\* heartbeat() raises (the database is away): nobody awaits the task, so it
\* ends unseen and the lease is never extended again.
BeatFails(w) ==
    /\ pc[w] = "exec" /\ hb[w]
    /\ hb' = [hb EXCEPT ![w] = FALSE]
    /\ UNCHANGED <<queueVars, consentVars, pc, cur, outcome, runVars>>

\* execute() returns, or raises and is taken for failed.
ExecutorReturns(w) ==
    /\ Go(w, "exec", "finish")
    /\ hb' = [hb EXCEPT ![w] = FALSE]
    /\ \E o \in {"completed", "failed"} : outcome' = [outcome EXCEPT ![w] = o]
    /\ UNCHANGED <<queueVars, consentVars, cur, runVars>>

\* Bug: the run is overwritten by id alone.
RecordOutcomeAnyway(w) ==
    /\ Go(w, "finish", "tags")
    /\ status' = [status EXCEPT ![cur[w]] = outcome[w]]
    /\ RecordChange(cur[w], "running", outcome[w])
    /\ ReleaseLease(cur[w])
    /\ result_by' = [result_by EXCEPT ![cur[w]] = w]
    /\ UNCHANGED <<attempts, max_attempts, selected, requeues>>
    /\ UNCHANGED <<consentVars, cur, hb, outcome, agent, starts, tags_by>>

\* finish() with what the executor returned; a conflict is below.
RecordOutcome(w) ==
    /\ Go(w, "finish", "tags")
    /\ Finish(cur[w], outcome[w])
    /\ result_by' = [result_by EXCEPT ![cur[w]] = w]
    /\ UNCHANGED <<consentVars, cur, hb, outcome, agent, starts, tags_by>>

\* A second transaction, whatever the run's status is by then.
SaveTags(w) ==
    /\ Go(w, "tags", "poll")
    /\ tags_by' = [tags_by EXCEPT ![cur[w]] = w]
    /\ cur' = [cur EXCEPT ![w] = NoRun]
    /\ outcome' = [outcome EXCEPT ![w] = "none"]
    /\ UNCHANGED <<queueVars, consentVars, hb, agent, starts, result_by>>

\* transition() finds the run not running: IllegalTransition leaves
\* process_once() and main(), which catch nothing; the process ends.
Conflict(w) ==
    /\ \/ pc[w] \in {"request", "finish"}
       \/ pc[w] = "claimed" /\ agent[cur[w]] = "unknown"
    /\ status[cur[w]] # "running"
    /\ pc' = [pc EXCEPT ![w] = "conflict"]
    /\ cur' = [cur EXCEPT ![w] = NoRun]
    /\ outcome' = [outcome EXCEPT ![w] = "none"]
    /\ UNCHANGED <<queueVars, consentVars, hb, runVars>>

\* Bug: the row lock of a claim survives the process.
CrashKeepsRowLock(w) ==
    /\ pc[w] \notin Ended \cup {"unborn"}
    /\ pc' = [pc EXCEPT ![w] = "dead"]
    /\ cur' = [cur EXCEPT ![w] = NoRun]
    /\ hb' = [hb EXCEPT ![w] = FALSE]
    /\ outcome' = [outcome EXCEPT ![w] = "none"]
    /\ UNCHANGED <<queueVars, consentVars, runVars>>

\* The process dies at any point, or a database error ends it: what it had
\* not committed is lost, its row locks go, its executor dies with it.
Crash(w) ==
    /\ pc[w] \notin Ended \cup {"unborn"}
    /\ pc' = [pc EXCEPT ![w] = "dead"]
    /\ cur' = [cur EXCEPT ![w] = NoRun]
    /\ hb' = [hb EXCEPT ![w] = FALSE]
    /\ outcome' = [outcome EXCEPT ![w] = "none"]
    /\ selected' = [selected EXCEPT ![w] = NoRun]
    /\ UNCHANGED <<status, attempts, max_attempts, locked_by, lease, trail, requeues>>
    /\ UNCHANGED <<consentVars, runVars>>

-----------------------------------------------------------------------------
\* What a live process does by itself and without waiting for an executor.
Proceed(w) ==
    \/ BeginClaim(w) \/ FindNothing(w) \/ Reap(w) \/ EndClaim(w)
    \/ FailUnknownAgent(w) \/ GateShut(w) \/ AskApproval(w) \/ Execute(w)
    \/ RecordOutcome(w) \/ SaveTags(w) \/ Conflict(w)

ProcessNext(w) ==
    \/ Start(w) \/ Proceed(w)
    \/ Beat(w) \/ BeatFails(w) \/ ExecutorReturns(w) \/ Crash(w)

WorkerNext ==
    \/ \E r \in Runs : Submit(r) \/ HumanDecides(r) \/ LeaseEnds(r)
    \/ \E w \in Workers : ProcessNext(w)

WorkerSafeSpec == WorkerInit /\ [][WorkerNext]_workerVars

\* Nobody is there to renew the lease: its end will come.
Unattended(r) == \A w \in Workers : ~(pc[w] = "exec" /\ hb[w] /\ Owns(w, r))
LeaseDue(r) == Unattended(r) /\ LeaseEnds(r)

\* The event loop keeps running a live process, time passes, and the
\* momentary locks of other processes are not there at every poll.  Nothing
\* is assumed of executors, humans, callers or of a process being started.
WorkerSpec ==
    /\ WorkerSafeSpec
    /\ \A w \in Workers : /\ WF_workerVars(Proceed(w))
                           /\ SF_workerVars(SelectPast(w, {}))
                           /\ SF_workerVars(ReapPast(w, {}))
    /\ \A r \in Runs : WF_workerVars(LeaseDue(r))

-----------------------------------------------------------------------------
WorkerTypeOK ==
    /\ pc \in [Workers -> PC]
    /\ cur \in [Workers -> Runs \cup {NoRun}]
    /\ hb \in [Workers -> BOOLEAN]
    /\ outcome \in [Workers -> {"none", "completed", "failed"}]
    /\ agent \in [Runs -> AgentKinds]
    /\ starts \in [Runs -> Nat]
    /\ result_by \in [Runs -> Workers \cup {NoWorker}]
    /\ tags_by \in [Runs -> Workers \cup {NoWorker}]

\* Workers that hold the run and have not started an executor for it, and
\* those whose executor runs or has returned.
Holding(r) == {w \in Workers : cur[w] = r /\ pc[w] \in {"claimed", "request"}}
Executing(r) == {w \in Workers : cur[w] = r /\ pc[w] \in {"exec", "finish"}}

\* Every start of an executor is paid for by an attempt, and so is every
\* claim still undecided: the executor of a run is started at most
\* max_attempts times, once with the budget every caller in src/ uses,
\* although park gives attempts back, zombies park runs they lost, and
\* nothing fences a worker whose lease is gone.
StartsPaidFor ==
    \A r \in Runs : /\ starts[r] + Cardinality(Holding(r)) <= attempts[r]
                    /\ starts[r] <= max_attempts[r]

\* With the default budget at most one process ever works on a run, with or
\* without a lease ("N workers never take the same run", queue.py).
OneExecutor ==
    \A r \in Runs : max_attempts[r] = 1 =>
        \A v, w \in Holding(r) \cup Executing(r) : v = w

\* A rejected run has an unused attempt: with the default budget it was
\* never executed at all (test_gate_reject_never_executes).
RejectedKeepsAttempt ==
    \A r \in Runs : rejected[r] => starts[r] < max_attempts[r]

\* No gated run is executed without consent and no run of an unknown agent
\* is executed at all, whoever decided what in which order.
GateHonoured ==
    \A r \in Runs : starts[r] > 0 =>
        agent[r] = "open" \/ (agent[r] = "gated" /\ approved[r])

\* The tags of a run are written by the process whose result stands, though
\* by then anything may have happened between its two transactions.
TagsMatchResult ==
    \A r \in Runs : tags_by[r] # NoWorker => tags_by[r] = result_by[r]

\* A process that owns a running run has it in hand and has yet to conclude
\* it, or has ended: no path through process_once() returns to the poll with
\* a run left running, which would cost it an attempt and 15 minutes.
OwnersAtWork ==
    \A r \in Runs : \A w \in Workers : Owns(w, r) =>
        pc[w] \in Ended \/ w \in Holding(r) \cup Executing(r)

\* What the proof of the above rests on besides: a process has a run in hand
\* exactly between claim() and the end of process_once(), a row lock exactly
\* inside claim(); the author of a result is the process about to tag it;
\* executors in progress were started.
InHand ==
    \A w \in Workers :
        /\ cur[w] # NoRun <=> pc[w] \in {"claimed", "request", "exec", "finish", "tags"}
        /\ selected[w] # NoRun <=> pc[w] = "claim"
        /\ pc[w] = "finish" => outcome[w] \in {"completed", "failed"}

ResultStands ==
    /\ \A r \in Runs : result_by[r] # NoWorker => status[r] \in {"completed", "failed"}
    /\ \A w \in Workers : pc[w] = "tags" => result_by[cur[w]] = w

ExecutorsStarted == \A r \in Runs : Cardinality(Executing(r)) <= starts[r]

WorkerInv == /\ WorkerTypeOK /\ InHand /\ ResultStands /\ TagsMatchResult
             /\ StartsPaidFor /\ ExecutorsStarted /\ GateHonoured /\ OwnersAtWork

\* A run whose owner ended.
Orphan(r) == status[r] = "running" /\ pc[locked_by[r]] \in Ended

\* Every live process is inside an executor, or there is none.
NobodyFree == \A w \in Workers : pc[w] \in {"unborn", "exec"} \cup Ended

\* A queued run is claimed, as long as some live worker is not kept busy by
\* an executor: the row locks of claims that die do not strand it.
QueuedIsClaimed ==
    \A r \in Runs : (status[r] = "queued") ~> (status[r] # "queued" \/ NobodyFree)

\* "leases + the reaper make crashed workers safe" (queue.py): a run whose
\* worker ended is taken off it, by the lease and a worker that found the
\* queue empty.
OrphanIsReaped ==
    \A r \in Runs : Orphan(r) ~> (~Orphan(r) \/ NobodyFree)

-----------------------------------------------------------------------------
\* What the repository's own words say of the program and the code does not
\* keep.

\* "someone else got there first - callers must treat that as a conflict"
\* (docstring of transition()): a lost race does not end the worker.
LostRaceSurvived == \A w \in Workers : pc[w] # "conflict"

\* "Combined with a lease column, a crashed worker's run is safely
\* re-claimed after its lease expires" (RFC-0001): no run fails because a
\* worker was lost.
LostRunReclaimed ==
    \A r \in Runs : status[r] = "failed" => result_by[r] # NoWorker

=============================================================================
