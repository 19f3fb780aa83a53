---------------------------- MODULE BusyWorkers ----------------------------
(***************************************************************************)
(* The worker processes while runs keep arriving: the place in Runs of a   *)
(* run that is over, and that no process has in hand, is taken by a new    *)
(* one, so the queue need never be empty.  Executors always return here.   *)
(* The order of Runs is then not that of arrival; nothing below rests on   *)
(* which of several queued runs is claimed first.                          *)
(***************************************************************************)
EXTENDS Worker

Over(r) == /\ status[r] \in {"completed", "failed", "rejected"}
           /\ \A w \in Workers : cur[w] # r

\* enqueue() of another run with the default budget, whose history begins.
Arrive(r) ==
    /\ Over(r)
    /\ status' = [status EXCEPT ![r] = "queued"]
    /\ RecordChange(r, "absent", "queued")
    /\ attempts' = [attempts EXCEPT ![r] = 0]
    /\ max_attempts' = [max_attempts EXCEPT ![r] = 1]
    /\ requeues' = [requeues EXCEPT ![r] = 0]
    /\ approved' = [approved EXCEPT ![r] = FALSE]
    /\ rejected' = [rejected EXCEPT ![r] = FALSE]
    /\ \E kind \in AgentKinds : agent' = [agent EXCEPT ![r] = kind]
    /\ starts' = [starts EXCEPT ![r] = 0]
    /\ result_by' = [result_by EXCEPT ![r] = NoWorker]
    /\ tags_by' = [tags_by EXCEPT ![r] = NoWorker]
    /\ UNCHANGED <<locked_by, lease, selected, pending, localVars>>

BusyNext == WorkerNext \/ \E r \in Runs : Arrive(r)

BusySpec ==
    /\ WorkerInit /\ [][BusyNext]_workerVars
    /\ \A w \in Workers : /\ WF_workerVars(Proceed(w))
                           /\ SF_workerVars(SelectPast(w, {}))
                           /\ SF_workerVars(ReapPast(w, {}))
                           /\ WF_workerVars(ExecutorReturns(w))
    /\ \A r \in Runs : WF_workerVars(LeaseDue(r))

-----------------------------------------------------------------------------
\* What RFC-0001 says of the queue: "a reaper re-queues expired leases".  As
\* long as one process lives, the run of one that ended is taken off it,
\* however much there is to do.
OrphanIsReapedUnderLoad ==
    \A r \in Runs :
        Orphan(r) ~> (~Orphan(r) \/ \A w \in Workers : pc[w] \in Ended \cup {"unborn"})

=============================================================================
