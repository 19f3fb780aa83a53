------------------------------ MODULE Executors ------------------------------
(***************************************************************************)
(* What an execution of an agent does (executor.py): OpenRouterExecutor,   *)
(* one chat completion whose answer is written to a file, and              *)
(* ClaudeSDKExecutor, a session whose messages are recorded.  Executions   *)
(* run in several worker processes at once, also of one agent: two runs of *)
(* it, or one run a second time after a lost lease.  They meet in the      *)
(* output directory, where a file is named by agent and day.               *)
(***************************************************************************)
EXTENDS Naturals, FiniteSets

CONSTANTS Executions,
          Sessions,         \* those by ClaudeSDKExecutor
          Agents, AgentOf,  \* manifest.name
          Days,             \* bound: days that pass
          MaxEvents         \* bound: events of a session

ASSUME ExecutorsAssumption ==
    /\ Sessions \subseteq Executions
    /\ AgentOf \in [Executions -> Agents]
    /\ Days \in Nat /\ MaxEvents \in Nat

VARIABLES
    today,
    files,      \* by agent and day: whose bytes a file has, "no" without one
    phase,      \* "new", "log", "call", "open", "write", "tell", "return", "ended";
                \* of a session: "new", "talk", "ended"
    day,        \* of the file an execution writes
    outcome,    \* status, and cost_usd: "zero", "some" or "null"
    freely,     \* the model that answered is a :free one
    events      \* events recorded

execVars == <<today, files, phase, day, outcome, freely, events>>

Outcome(status, cost) == [status |-> status, cost_usd |-> cost]
NoFile == [there |-> FALSE, by |-> {}]

ExecInit ==
    /\ today = 0
    /\ files = [f \in Agents \X (0 .. Days) |-> NoFile]
    /\ phase = [x \in Executions |-> "new"]
    /\ day = [x \in Executions |-> 0]
    /\ outcome = [x \in Executions |-> Outcome("none", "null")]
    /\ freely = [x \in Executions |-> FALSE]
    /\ events = [x \in Executions |-> 0]

Midnight == today < Days /\ today' = today + 1
            /\ UNCHANGED <<files, phase, day, outcome, freely, events>>

Moves(x, from, to) == phase[x] = from /\ phase' = [phase EXCEPT ![x] = to]
Returns(x, o) == phase' = [phase EXCEPT ![x] = "ended"] /\ outcome' = [outcome EXCEPT ![x] = o]
Fails(x) == Returns(x, Outcome("failed", "null"))
RecordEvent(x) == events' = [events EXCEPT ![x] = @ + 1]
FileOf(x) == <<AgentOf[x], day[x]>>

\* The provider, the disk and on_event() may raise, on_event() also once it has
\* committed the event; the worker takes it for a failed execution.
Raises(x) ==
    /\ phase[x] \in {"log", "call", "open", "write", "tell", "return", "talk"}
    /\ Fails(x)
    /\ UNCHANGED <<today, files, day, freely, events>>

\* The worker process is killed, the file as far as it got.
Killed(x) ==
    /\ phase[x] \notin {"new", "ended"}
    /\ Returns(x, Outcome("killed", "null"))
    /\ UNCHANGED <<today, files, day, freely, events>>

-----------------------------------------------------------------------------
\* OpenRouterExecutor.

\* Without a key, or with a model the cost guard refuses, it ends at once.
Check(x) ==
    /\ phase[x] = "new" /\ x \notin Sessions
    /\ (Moves(x, "new", "log") /\ UNCHANGED outcome) \/ Fails(x)
    /\ UNCHANGED <<today, files, day, freely, events>>

AnnounceUnheard(x) ==   \* on_event() is not awaited
    /\ Moves(x, "log", "call")
    /\ UNCHANGED <<today, files, day, outcome, freely, events>>

Announce(x) ==
    /\ Moves(x, "log", "call") /\ RecordEvent(x)
    /\ UNCHANGED <<today, files, day, outcome, freely>>

\* 429, another status, an embedded error, or an answer of some model: the
\* router may have picked it, free models only; a model asked for by name is
\* not always the one that is reported back.
Complete(x) ==
    /\ phase[x] = "call"
    /\ \/ Fails(x) /\ UNCHANGED <<freely, day>>
       \/ /\ Moves(x, "call", "open")
          /\ \E free \in BOOLEAN : freely' = [freely EXCEPT ![x] = free]
          /\ day' = [day EXCEPT ![x] = today]
          /\ UNCHANGED outcome
    /\ UNCHANGED <<today, files, events>>

\* write_text(): the file is opened, which empties it, and written.  What
\* another execution wrote in between may be longer, and its end stays.
OpenFile(x) ==
    /\ Moves(x, "open", "write")
    /\ files' = [files EXCEPT ![FileOf(x)] = [there |-> TRUE, by |-> {}]]
    /\ UNCHANGED <<today, day, outcome, freely, events>>

WriteFile(x) ==
    /\ Moves(x, "write", "tell")
    /\ \E left \in {{}, files[FileOf(x)].by} :
          files' = [files EXCEPT ![FileOf(x)].by = left \cup {x}]
    /\ UNCHANGED <<today, day, outcome, freely, events>>

Cost(x) == IF freely[x] THEN "zero" ELSE "null"

\* The message is committed to the audit trail; execute() returns after that.
Tell(x) ==
    /\ Moves(x, "tell", "return") /\ RecordEvent(x)
    /\ UNCHANGED <<today, files, day, outcome, freely>>

ReturnCompleted(x) ==
    /\ phase[x] = "return"
    /\ Returns(x, Outcome("completed", Cost(x)))
    /\ UNCHANGED <<today, files, day, freely, events>>

-----------------------------------------------------------------------------
\* ClaudeSDKExecutor; its agent writes what files it likes.
NoResultIsFine == Outcome("completed", "null")
NoResult == Outcome("failed", "null")

StartSession(x) ==
    /\ x \in Sessions
    /\ Moves(x, "new", "talk")
    /\ outcome' = [outcome EXCEPT ![x] = NoResult]
    /\ UNCHANGED <<today, files, day, freely, events>>

\* A text or a tool use, recorded; or a result, the last of which counts.
Message(x) ==
    /\ phase[x] = "talk"
    /\ \/ events[x] < MaxEvents /\ RecordEvent(x) /\ UNCHANGED outcome
       \/ /\ \E o \in {"completed", "failed"} :
                outcome' = [outcome EXCEPT ![x] = Outcome(o, "some")]
          /\ UNCHANGED events
    /\ UNCHANGED <<today, files, phase, day, freely>>

EndSession(x) ==
    /\ Moves(x, "talk", "ended")
    /\ UNCHANGED <<today, files, day, outcome, freely, events>>

ExecNext ==
    \/ Midnight
    \/ \E x \in Executions :
          \/ Check(x) \/ Announce(x) \/ Complete(x) \/ OpenFile(x) \/ WriteFile(x)
          \/ Tell(x) \/ ReturnCompleted(x)
          \/ StartSession(x) \/ Message(x) \/ EndSession(x)
          \/ Raises(x) \/ Killed(x)

ExecSpec == ExecInit /\ [][ExecNext]_execVars

-----------------------------------------------------------------------------
Document(x) == files[FileOf(x)]

\* The document of x is there, with bytes in it unless another execution
\* opened the same file and has not written it.
OnDisk(x) ==
    /\ Document(x).there
    /\ Document(x).by = {} =>
          \E y \in Executions \ (Sessions \cup {x}) :
             /\ FileOf(y) = FileOf(x)
             /\ phase[y] = "write" \/ outcome[y].status \in {"killed", "failed"}

\* An execution is completed only with what makes it so: the answer of a
\* session, or a document that is on disk.
CompletedIsEarned ==
    \A x \in Executions : phase[x] = "ended" /\ outcome[x].status = "completed" =>
        IF x \in Sessions THEN outcome[x].cost_usd = "some" ELSE OnDisk(x)

\* The audit trail tells what is on disk, whatever became of the execution:
\* what is in a document is of executions whose start is recorded; a completed
\* one has its start and its message recorded; and where the message is, the
\* document is too, also when the execution failed or was killed after that.
TrailTellsDocuments ==
    \A x \in Executions \ Sessions :
        /\ x \in Document(x).by => events[x] > 0
        /\ outcome[x].status = "completed" => events[x] = 2
        /\ events[x] = 2 => OnDisk(x)

\* What the executor says of a completed execution: the model is told that
\* its document will be saved, the result that it was written to the file.
OutputIsKept ==
    \A x \in Executions \ Sessions :
        outcome[x].status = "completed" => Document(x).by = {x}

=============================================================================
