# agentic-octopus: specification and proofs

agentic-octopus is an orchestration service ("the spine"): an API and a cron
scheduler put *runs* of declared agents into a Postgres table, worker processes
take them from there and execute them, some only after a human consented, and a
chat service keeps conversations in the same database and answers them with
models of several providers. The processes share nothing but the database and a
directory, so what is hard about the system is what its transactions may do to
each other when workers race, stall, lose their leases and die, and what is left
of a conversation when somebody goes away in the middle of it. The modules here
model both halves: queue, consent, workers and scheduler; chat service, context,
streams, model routing, executors and migrations.

Paths below are relative to the repository (`src/octo/...`).

## Inventory

| Component (source) | State | Operations | Interacts with | What makes it correct |
|---|---|---|---|---|
| run states (`models.py`) | `runs.status`, `run_events` | `transition()` | everything that moves a run | only legal moves, each with its event |
| run queue (`queue.py`) | `runs`: status, attempts, max_attempts, locked_by, lease_expires_at; row locks of open claims | enqueue, claim, heartbeat, finish, park, reap_expired | workers, API, scheduler, approvals | no run claimed twice; leases and owners exactly on running rows; the budget of attempts; a gapless trail |
| approvals (`approvals.py`) | `approvals.status` | request, has_approved, decide | parks and unparks runs | one pending row per parked run; a rejection is final |
| worker (`worker/main.py`) | the run in hand, the keep_lease task, the outcome | process_once, keep_lease, the loop of main | queue, approvals, executors | executions within the budget, consent honoured, crashed work recovered |
| scheduler (`worker/scheduler.py`, `scheduler_loop`) | `schedules`: enabled, next_run_at; row locks of an open tick | tick, sync_from_registry, compute_next | inserts runs; routes change the same rows | each occurrence fires once; what is off stays off; what is due fires |
| API routes (`api/routes.py`) | none of its own | run, approve, reject, create/sync/toggle schedule, reads | queue, approvals, scheduler | a conflict is a 409, a missing approval a 404 |
| API application, auth (`api/main.py`, `api/auth.py`) | pool, registry | lifespan, health, two token checks | all routes | - |
| chat service (`chat.py`) | `conversations`, `messages` | create, delete, send, send_stream, tool rounds, build_context | providers, web tools | every answer follows its question; a bounded number of tool rounds; no tool call shown to the user; partial answers kept |
| chat routes (`api/chat_routes.py`) | none | maps exceptions to statuses, frames the stream | chat service | an error after the headers ends the stream readably |
| OpenAI shim (`api/openai_compat.py`) | `chat_completions` (metadata) | chat_completions, list_models | routing, providers | passes the stream through unchanged but for one prefix; logs each request once |
| routing, providers (`providers/`) | two model-list caches | route_chat_model, enforce_free, complete, stream, list_models | external HTTP | octo names nothing billable without opt-in; caches expire |
| web tools (`tools/web.py`) | none | web_search, fetch_page | external HTTP | failures are results |
| executors (`executor.py`) | one output file per agent and day | execute | external | completed only with a document on disk or a result of the session; the trail agrees |
| database (`db.py`) | `schema_migrations` | upgrade | every process at start-up | each file takes effect once, in order, whoever starts beside whom |
| registry, config, telemetry, CLI | files, settings, spans | load, HTTP requests | - | - |

Hard behaviours, by kind: **races** between claims (SKIP LOCKED), between a
worker and the reaper, between two decisions, between ticks and routes;
**crashes** inside the claim transaction, between claim and finish, between
finish and tags, with a tick open; **timeouts**: a lease that runs out under a
worker that is alive and goes on; **retries**: a run executed again after a lost
lease; **stale reads**: consent read before it is used, a row selected before it
is updated, two clocks that disagree. And in the
chat half: senders that **interleave** on one conversation, deletion and
disconnection between any two awaits, text that is **cut anywhere** on its way,
caches that several requests fill at once, an output file that two executions
share. `PROJECT.json` lists them at their lines with the properties that cover
them.

## Modules

| Module | Models | Composes |
|---|---|---|
| `RunStates` | statuses and legal moves of `models.py` | |
| `RunLifecycle` | abstract: the life of one run, with a budget of claims | `RunStates` |
| `RunQueue` | `queue.py`, `transition()` | `RunStates`; implements `RunLifecycle` once per run |
| `ConsentGate` | `approvals.py` | extends `RunQueue` |
| `Worker` | `worker/main.py` and what surrounds the workers | extends `ConsentGate` |
| `Scheduler` | `worker/scheduler.py`, `scheduler_loop`, schedule routes | stands alone |
| `BusyWorkers` | workers under arrivals that never end | extends `Worker` |
| `Dialogue` | abstract: the message log of one conversation | |
| `ChatService` | `chat.py`, message route of `api/chat_routes.py` | implements `Dialogue` once per conversation |
| `HoldBack` | one streamed round of `send_stream()`, `parse_tool_call()` | refines a choice of `ChatService` |
| `ContextWindow` | `build_context()` over the life of a conversation | refines a choice of `ChatService` |
| `StreamShim` | `api/openai_compat.py` | stands alone |
| `ModelRouting` | `route_chat_model()`, cost guard, fallback array, a client's own `models` array, the executor's guard | stands alone |
| `ModelCatalog` | the model lists behind their caches | stands alone |
| `Executors` | `executor.py` | refines `ExecutorReturns` of `Worker` |
| `Migrations` | `upgrade()` of `db.py` | stands alone |
| `QueueProofs` | theorems and proofs about `RunQueue` and `ConsentGate` | extends `ConsentGate` |
| `WorkerProofs` | theorems and proofs about `Worker` | extends `Worker` and `QueueProofs` |
| `RepliesProofs` | theorems and proofs about `HoldBack`, `ContextWindow`, `StreamShim` | extends the three |
| `ProvidersProofs` | theorems and proofs about `ModelRouting`, `ModelCatalog` | extends the two |
| `SchedulerProofs`, `ChatServiceProofs`, `ExecutorsProofs`, `MigrationsProofs` | theorems and proofs | extend their module |
| `MCRunQueue`, `MCWorker`, `MCScheduler`, `MCChatService`, `MCBusyWorkers`, `MCExecutors` | instances for TLC | extend their module |
| `MCReplies` | `HoldBack`, `ContextWindow`, `StreamShim` side by side | extends the three |
| `MCServices` | `ModelRouting`, `ModelCatalog`, `Executors`, `Migrations` side by side | extends the four |

Each layer takes the one below with **arbitrary callers** and restricts them:
in `RunQueue` anybody may call any function for any run at any time, in
`ConsentGate` only `request()` parks, in `Worker` the callers are processes that
do what `process_once()` does. What is shown of a lower layer holds of the
higher, because the higher is shown to implement it (`GateImplementsQueue`,
`WorkersImplementGate`).

### RunQueue

A column of `runs` is a function from `Runs`: `status`, `attempts`,
`max_attempts`, `locked_by`, and `lease`, which is `lease_expires_at` reduced to
what the code tells apart: `none` (NULL), `live`, `expired`. `Runs` are numbers,
and the smaller is the older (`ORDER BY created_at`). A row that has not been
inserted has status `absent`. `trail` is the newest `status_change` event of a
run and `requeues` counts the events that say `lease_expired -> queued`; the
older events are never read by the program.

A function of `queue.py` opens one connection and is one transaction, so it is
one action: `Enqueue`, `Heartbeat`, `Finish`, `Park`, `ReapExpired`. `claim()`
is two, `ClaimSelect` and `ClaimCommit`, because the row lock of its sub-select
(`selected`) is visible to other claims, which skip it, before its update is;
`ClaimAbort` is the loss of the connection between them. `ClaimSelect` and
`ReapExpired` take the rows, `busy`, that SKIP LOCKED passes over for another
reason: some other transaction, an event insert for one, has them locked for a
moment. In `RunQueue` these may be any rows. `Transition` is
`models.transition()`; it is not enabled exactly when the code raises
`IllegalTransition`. As in the code, `ClaimCommit` and `ReapExpired` write
status and event themselves, `ClaimCommit` does not look at the budget, and
`Finish` does not compare `locked_by`. `LeaseRunsOut` is the database's clock.

Two functions are reachable only by what calls them: `Park` is
`park_awaiting_approval()`, which nothing in the repository calls, and the same
update in `approvals.request()`, which the worker does call.

### ConsentGate

Approval rows of a run are what the code reads of them: the number `pending`,
whether one is `approved`, whether one is `rejected`. `Request` inserts the row
and parks the run in one transaction; `Decide` takes all pending rows and moves
the run. `LookupError` (404) and `IllegalTransition` (409) are the guards.

### Worker

`pc` is where a process is: `poll -> claim -> claimed -> exec -> finish -> tags
-> poll`, with `idle` (queue empty: reap, sleep), `request` (consent missing),
`conflict` (ended by an uncaught `IllegalTransition`) and `dead`. `cur` is its
run, `hb` whether its `keep_lease` task still beats, `outcome` what the executor
returned. Executors, humans, callers and the clock are nondeterministic: an
executor may return at any time or never, a human may decide either way or
never, any lease may run out under a live worker (a pause, a lost connection).
`BeatFails` is the exception in `keep_lease` that nobody awaits. `Touched(w)` are
the rows that other processes may have locked for a moment (executor events,
heartbeats, `finish()`, tags): a poll or a reap of `w` passes over any of them. A process has a
fresh id at each start, so a restarted process is another member of `Workers`.
`agent` is what the worker's registry says of the run's agent: `open`, `gated`
(requires approval) or `unknown`.

`starts`, `result_by` and `tags_by` are history: executor starts per run, whose
`finish()` wrote the result, who wrote the tags.

### Scheduler

Time is a bounded number, `now`, the database's clock; `Skew` is what each
process's clock is off. `TickBegin` is the `SELECT ... FOR UPDATE SKIP LOCKED`
of `tick()` and `TickCommit` the rest of it with the commit. Any failure in
between is `TickFails` (`scheduler_loop` logs it and goes on) or `LoopEnds` (the
process ends and its locks go). `Create`, `Sync` and `Toggle` are the routes,
`Sync` also the start of a worker; those that change an existing row wait for
its lock. `NextAfter` stands for croniter, of which only "later than the time it
is given" is assumed. `fired` is the occurrence the newest run of a schedule was
due at.

### ChatService and Dialogue

A member of `Requests` is one POST of a message, plain (`send()`) or, in
`Streams`, streaming (`send_stream()`). `pc` is the await it is at: `route ->
ask -> read -> call -> wait | stream -> ... -> save | final -> ended`. Every
database function is a transaction of its own, hence an action: `Ask` commits
the question, `Read` is `get_messages()`, `ToolRound` and `Save` commit rows,
`Final` is the finally block of a stream. `_append()` is two: `Insert` is its
INSERT, where the row takes its id from the sequence (`ticket`), and `AppendRow`,
in the four actions above, is the commit, before which the transaction updates
the conversation and may wait for another sender's. So rows can become visible in
another order than that of their ids, and an id may be lost with a transaction
that is rolled back. `Insert` is enabled only while the conversation is open, as
the foreign key has it, and holds off a deletion until the transaction ends;
where the conversation is not open, `Breaks` is the exception. `Create` and `Delete` are the routes, the latter with its
cascade. `Request` leaves for the provider and counts: `calls` is `round_no +
1`, and `BudgetLeft` is `round_no < chat_max_tool_calls`. `Breaks` may happen at
any await, in the finally block too, and `Disconnect` at any await of a stream.
Text is counted in pieces: `parts` is how many were put into `parts`, `shown`
how many the client took, which differ while a yield is under way.

`Dialogue` is what the log of ONE conversation promises: a question once, the
rows of each request in the order of their ids, tool
rows for requests of their own and within the budget, one answer, no change of
what is there, no entry after deletion. `Thread(c)` is its instance over the
rows of conversation `c`; `EveryThreadIsDialogue` says that each conversation
behaves like one, whatever its senders do.

### HoldBack and ContextWindow

What `ChatService` leaves to choice, decided as the code does. A reply of
`HoldBack` is a sequence of pieces (the halves of the marker, a payload that is
a call, one that makes `dict()` raise, white space, anything else) and the
provider may cut it between any two. `Delta` is one turn of the loop, `End` what
follows it (a decided plain round yields nothing more; one that is undecided, or
whose marked reply is not executed, yields the whole text), and `SendCalls` what `send()` would do with the same text.
`ContextWindow` walks back through the rows as the loop does, one row per
action, so that the loop's own condition, negative remainders and the newest
message that goes anyway are there to go wrong. The charges are produced by the
turns before it: an answer's `prompt_tokens` is none, or what its own request
contained and, after a tool round, up to some `Extra` more.

### StreamShim

An event is the set of what the code looks for in it, and its bytes are two
halves, so a chunk may end inside one. `Chunk` fills the buffer, `Peek` looks
into the next whole event, whose usage is merged into that of the events before
it and whose model replaces theirs, and `Pass` yields it, with the prefix. An
`odd` event is one that `.get()` fails on after that: `Choke`, in which the event
is not passed on and what it said is kept. `Close`, `Fail`
and `Disconnect` end the stream, `Log` is the row written in the finally block,
or before a plain answer is returned. `pool` is the database: absent since
start-up, there, or gone.

### ModelRouting and ModelCatalog

`settings` are those the cost guard reads; `Restart` is the process started with
another `.env`, so the model of a conversation or manifest may have been written
under others. `RouteLocal`, `RouteClaude`, `RouteGuarded` and `RouteAgent` are
the branches of `route_chat_model()` and of `OpenRouterExecutor.execute()`,
`Send` what leaves: the fields `model` and `models` of the payload, from the
client's body on `/v1` (`asked[q].models`), with the fallback array of
`route_payload()` for `octo/auto`, and without the array for Anthropic. `Local`,
`Claude` and `Free` are the name patterns. The cost guard checks one name, that in
`model`; what it promises is checked as far as it goes (`OnlyPaidIfAllowed`:
the names octo puts into a request, and that it names none only when no preferred
model is free). It does not check a client's array, and a request that names no
model leaves the choice to OpenRouter: `OnlyFreeUnlessOptedIn` says that neither
happens, and does not hold (see the divergences).

`ModelCatalog` is `list_models()` of OpenRouter (`HasDefault = TRUE`) and
`installed_tags()` of Ollama (`FALSE`): read the cache, await a fetch, write the
cache, by several callers at once, each for as long as it takes: the client's
timeouts are of single reads. A listing is known by the time it was made; `told`
is how old it was when somebody was given it, and how long its fetch had taken.

### Executors and Migrations

An execution writes the file of its agent and day. Opening the file empties it
and is a step of its own, and so is the commit of the last event (`Tell`), before
`execute()` returns (`ReturnCompleted`); `Raises` is any exception, `Killed` the end of the
process, both possible between the two. Sessions are `ClaudeSDKExecutor`, with the outcome that stands when no
result message comes.

`Migrations` has one connection per process: the table is found or made, the
list read, and each file executed, recorded and committed. A process waits for
another that has the same version uncommitted, by the table it makes or by the
primary key, and fails if that one commits. `Rerunnable` are the files whose SQL
may run twice (`IF NOT EXISTS`), `Has` the files of the image a process was
started from. `times` is history: how often a file took effect.

### BusyWorkers

`Worker` with endless arrivals on a bounded number of places: one whose run is
over, and which no process has in hand, is taken by a new run.

## Runs

| Run | Instance | Distinct states | Shows |
|---|---|---|---|
| `queue` | 3 runs, 3 workers, budget 2 | 40,699 | the queue's inductive invariant, the gapless trail, the refinement of `RunLifecycle` for every run, under arbitrary callers |
| `worker` | 2 runs, 2 workers, budget 2 | 226,312 | executions paid for, consent honoured, parked runs moved by decisions only, tags and results agree; the processes implement `ConsentSpec` |
| `worker_live` | 2 runs, 2 workers, budget 1 | 30,169 | queued runs are claimed and orphans reaped while some live worker is free |
| `scheduler` | 2 schedules, 2 loops, clock 0..5, one clock ahead by 1 | 2,478 | no double firing, disabled schedules rest, due ones fire |
| `chat` | 1 plain and 1 streaming sender on one conversation, 1 tool call, 2 deltas | 352,742 | of two senders at least one has read the other's question, usage, saved and marked answers, each log a dialogue, every request ends |
| `replies` | replies of up to 5 pieces in every cut; histories of up to 4 rows of lengths 0, 12, 40 with a budget of 8, prompts reported as sent or larger by 2; replies of up to 3 events in every chunking | 1,954,491 | what is shown, sent and passed on is whole, in order and once |
| `services` | 1 request, 6 models, 2 preference lists, 2 arrays of a client, all settings; 2 callers, clock 0..6; 3 executions of one agent; 3 upgrades of 3 files, one from an older image | 2,086,869 | octo names nothing billable unasked, local stays local, listings recent, outcomes earned, the trail true of the documents, migrations once |
| `lost_race` | 1 run, 2 workers, budget 1 | | **violation**: see findings |
| `lost_run` | 1 run, 2 workers, budget 1 | | **violation**: see findings |
| `clock_behind` | as `scheduler`, one clock behind by 1 | | **violation**: see findings |
| `chat_tool_raises` | 1 streaming sender, 1 tool call, 1 delta | | **violation**: see findings |
| `hold_back_shown` | replies of up to 4 pieces | | **violation**: see findings |

`replies` and `services` each check several modules that have no state in
common. In them one module at a time moves and the others stay at a fixed
initial state, so the states add up instead of multiplying, and a property of
one module is checked exactly as in a run of its own.

**Bounds.** `MaxBudget` bounds `max_attempts`; the callers in `src/` use 1 and a
test uses 2. Two attempts are the least at which a run is claimed again while
its first worker still executes, which is the case everything in `Worker` turns
on; budget 0 is excluded because no caller passes it. Two workers and two runs
are the least for a race and for a claim that skips a locked row; `queue` has
three of each, so that two claims can be in flight while a third run is old. No
counter needs another bound: attempts, starts and requeues are bounded by the
budget (that is proved), time in the scheduler by `Horizon`, which is long
enough for two occurrences of each schedule and a tick across them.

In `chat` two senders are the least that can interleave, and they meet
everything that deletion, disconnection and failure do to either; two deltas are
the least of which one may be held back and one shown; one tool call gives a
round with the budget left and one without (a second was checked on this
instance as well). Five pieces in `replies` are the least for a line before the
marker, both its halves and a payload; the other bounds have a message that
fits, one that does not, and one of no length; four rows are two turns, or one
after two of another sender. A catalog with a `TTL` of 2 and a clock up to 6 lets a
fetch begin before an expiry and end after the next; `HasDefault = TRUE` is the
provider that caches more, its default too, and the theorem is of both. One array
with a billable model is what a `/v1` client needs to go past the guard.
`SettingsSettled` leaves out restarts after which nothing is sent any more. The
older image of `Migrations` lacks the last file. The proofs remove these bounds
from every safety property of a passing run.

**Symmetry.** `queue` declares the workers symmetric. They are compared only for
equality, and no property of the run is a liveness property (TLC's warning is
about those); the action properties hold of a step if and only if they hold of
its permutations.

**Deadlock** is not checked: all runs may be terminal in `queue`, all processes
ended in `worker`, all requests in `chat`, replies end, and clocks have bounds.
What could really block, a row lock nobody releases or a request nobody answers,
is `QueuedIsClaimed`, `DueFires` and `RequestsEnd`.

**Fairness** (`WorkerSpec`): weak fairness of `Proceed(w)`, what a live process
does by itself: its loop has no other waits, and between them the event loop and
the database get to it. Nothing is assumed of `ExecutorReturns`, humans, callers,
heartbeats or of a process being started. Weak fairness of `LeaseDue(r)`: time
passes, so a lease that nobody renews runs out; for a lease that somebody does
renew nothing is assumed. Strong fairness of `SelectPast(w, {})` and
`ReapPast(w, {})`: momentary locks last for a statement, so they are not there
at every poll. Hence both liveness properties except the case that
every live worker is inside an executor, or none is left: the workers are the
only reapers. They also hold only because runs are finite in number: a worker
reaps after an empty poll only, so endless arrivals may postpone it for ever,
which is what `BusyWorkers` shows.
(`SchedSpec`): weak fairness of `TickBegin`, as a loop ticks every 30 seconds
until it ends; strong fairness of `TickCommit`: the database does not fail every
tick of a loop. (`ChatSpec`): weak fairness of `Handle(q) \/ Breaks(q)`: an arrived request goes
on or breaks. httpx limits each read, a row lock is held to the next commit only,
a lost connection is noticed, and a row the foreign key refuses raises. This is
an assumption about providers and clients as well as about the code: the limits
of httpx are of single operations, so a provider that sends a byte now and then
could hold a request for ever, psycopg has no time limit on a statement, and a
client that stays and never reads is taken to break its connection at some time.
Nothing is assumed of a request's going well.

**What `SavedCoversShown` leaves out.** The row of a stream is saved in a finally
block, which awaits the database. A cancellation that reaches that await, as the
framework's at a disconnection may, is a failed saving (`unsaved`), like a
database that is away, and there may be no row then. The property is about every
other end of a stream.

## Findings

- `lost_race`: an `IllegalTransition` in `finish()` or `request()` ends the
  worker process (`worker/main.py` lines 42, 48, 90), although the docstring of
  `transition()` tells callers to treat it as a conflict. It happens to a worker
  that lost its lease during execution. The scheduler loop goes with it, and
  `docker-compose.yml` gives the worker no restart policy.
- `lost_run`: the RFC says a crashed worker's run is re-claimed after its lease
  expires. With `max_attempts = 1`, which every caller uses, the reaper fails it.
- `clock_behind`: "exactly once" of `tick()` needs that no worker's clock is
  behind the database's; `NoLag` states it, `SchedulesFireOnce` proves that it
  suffices, and the run shows that it is needed.
- `chat_tool_raises`: `tools/web.py` promises that a tool's failure is data and
  never ends a chat. A result of more than 4000 characters is cut and parsed as
  JSON again, which raises, and so does `int()` of a `max_results` that is none.
- `hold_back_shown`: `send_stream()` says a round that starts with `TOOL_CALL` is
  never shown. A newline decides the hold-back before the marker can be complete.

### Divergences outside the listed runs

These were met while modelling, and TLC finds each by hand: `tlc -config
<cfg> <module>`.

| Config, module, property | What a document or comment says, and what the code does |
|---|---|
| `MCBusyWorkers.cfg`, `MCBusyWorkers`, `OrphanIsReapedUnderLoad` | "leases + the reaper make crashed workers safe" (`queue.py:4`); `main()` reaps only after a poll that found nothing (`worker/main.py:135`), so under arrivals that never pause a crashed worker's run stays running for ever |
| `MCChatQuietError.cfg`, `MCChatService`, `ErrorsSurface` | `CHANGELOG.md:59` says upstream errors mid-stream surface as readable events; `_iter_sse_deltas()` (`chat.py:361`) skips an event that has an error, and the stream ends with done |
| `MCContextClaim.cfg`, `ContextWindow`, `MostRecentThatFit` | "the most recent messages that fit" (`chat.py:166`); an answer is charged the prompt of its whole request (`chat.py:175`), so messages that fit are left out |
| `MCShimNoDatabase.cfg`, `StreamShim`, `AnswersWithoutDatabase` | "the shim still answers without a DB" (`openai_compat.py:37`); only if there was none at start-up, else a paid answer becomes a 500 or a cut stream |
| `MCCatalogLost.cfg`, `ModelCatalog`, `ListedUntilExpiry` | "cached ~1h; falls back to the configured default" (`openrouter.py:126`); the fallback is stored over a good listing by a slower fetch that failed |
| `MCRoutingClaim.cfg`, `MCServices`, `OnlyFreeUnlessOptedIn` | "only :free models unless the operator explicitly opted into paid" (`openrouter.py:73`); only the name in `model` is checked: `route_payload()` passes the `models` array of a `/v1` body on (`openrouter.py:65`), and `octo/auto` without a free preferred model sends an empty array and no model |
| `MCExecutorsKept.cfg`, `MCExecutors`, `OutputIsKept` | the model is told its document "will be saved" (`executor.py:139`); the second execution of an agent on a day overwrites the first, and both are completed |

The module docstring of `openrouter.py` and a comment in `config.py` also
mention a cooldown of models; no code implements one.

With `max_attempts = 2`, which no caller passes, a rejected run may have been
executed once before: a worker that read "not approved", lost the run and woke
up late can park it after another worker executed it. `RejectedKeepsAttempt`
states what does hold: a rejected run has an attempt left, hence with the
default budget it was never executed.

## Theorems

Every invariant and action property of a passing run is proved. The proofs are
for every set of runs and of workers (finite, in `Worker`), every budget of at
least 1, every set of schedules, loops and crons, of requests, conversations,
models, settings, callers, processes and executions, and for replies, histories
and streams of any length and any way to cut them. `HoldInv`, `WindowInv`,
`ShimInv` and `ExecInv` were checked by TLC on the instances of `replies` and
`services` before they were proved. The type invariants, and
the parts of inductive invariants that no run lists by itself (`LeaseShape`,
`TrailCurrent`, `RejectionIsFinal`, `OwnersAtWork`, `TicksExclusive`,
`NextIsLater`, `AppliedInOrder`), are theorems too. The assumptions are the
`ASSUME`s of the modules and, for `NextIsLater` and `NeverDoubleFires`, `NoLag`.

**QueueProofs.** `QueueInv`, the conjunction of `QueueTypeOK`,
`ClaimsExclusive`, `LeaseShape`, `AttemptsAccounted` and `TrailCurrent`, is
inductive: one lemma per transaction. The parts need each other. That `claim()`
stays within the budget without looking at it rests on `AttemptsAccounted`,
whose conjunct about queued rows applies to the row a claim holds because of
`ClaimsExclusive`; parking may take an attempt back because a running row has
one. `TrailHasNoGaps` follows from `TrailCurrent` step by step, and
`QueueImplementsLife` from `AttemptsAccounted`: under `claims_left =
max_attempts - attempts` each transaction is a step or a stutter of each run's
`RunLifecycle`.

`GateImplementsQueue` gives the queue's invariant, with
which `ConsentInv` is inductive: `Request` needs that the run was running, hence
had nothing pending.

**WorkerProofs.** `WorkersImplementGate` and, with it, `WorkerInv`. The
invariant behind `StartsPaidFor` counts: starts plus the workers that hold a
claim and have not started are at most `attempts`. A claim adds one to both
sides. Parking takes one from both, because a worker about to park holds a
claim, **whichever** worker's claim it undoes; so the sum survives a worker that
parks a run it lost. `ExecutorsStarted` (executors in progress are at most the
starts) adds `OneExecutor` for a budget of 1, and `ConsentInv` with
`AttemptsAccounted` gives `RejectedKeepsAttempt`. Sets of workers are counted
with two lemmas on cardinality.

**SchedulerProofs.** `SchedTypeOK` and `TicksExclusive` are inductive without
any assumption on clocks (`TicksAreExclusive`), which gives `OffSchedulesRest`.
With `NoLag`, `NextIsLater` is inductive as well: a row that fires is due, so its
next time, later than the firing process's clock and hence than the database's,
is later than the occurrence it fires for. `Unfired` covers rows not yet there.

**ChatServiceProofs.** `ChatInv` has, besides the types, six parts. `LocalOK` ties a request's own
variables to its `pc`; `RowsOK` ties the rows to the counters of the request
that wrote them (a row's `nth` is at most `calls`, an answer has `parts` pieces);
`CountedOnce` says that no provider request is counted twice; `LogOK` says which
rows must exist while the conversation is open. `ReadersMeet` is
`NobodyWritesBlind` for requests that have read but not yet asked the model,
which is where it is decided: a question is committed before its sender reads, so
the later of two readers finds the other's question, whatever their ids.
`TicketsOK` says of open inserts that their ids are of their own, below the
sequence and above those of the same request's rows, which is the order that is
left when rows of two senders are committed the other way round.
`LogsAreDialogues` follows step by step: `Ask`, `ToolRound`, `Save` and `Final`
map to entries of `Dialogue`, `Create` and `Delete` to birth and erasure, and
everything else stutters.

**ProvidersProofs.** `RoutingInv` carries the guard from the place it is
checked to the place the request leaves: what is routed to OpenRouter was
allowed by the settings of that moment, and a restart sends everything in flight
back to the start.

That the fallback array of a preference list with a free model is not empty
(`NoCandidateNoneFree`) is shown of the first free one.

`AnswersAreRecent` needs that a listing is made while its fetch is under way
(`FetchTimed`) and hence stored no later than that fetch took (`StoredSoon`).

**MigrationsProofs.** `ProcessOK`: a process works behind a gapless prefix of
recorded files. `PairOK`: no two processes are about to commit the same one. With
them `AppliedOnce` and `AppliedInOrder` survive each commit, whatever breaks.

**RepliesProofs**, *a streamed round.* `HoldInv` adds to the two properties
`AllOrNothing`: while the reply arrives everything received is shown or nothing
is, according to what was decided when some `n` pieces had arrived
(`DecidedAt(n)`). What makes it enough is about the texts themselves: of a
reply that leads with the marker, as the prompt asks, no beginning is enough to
decide on before it contains the marker (`EnoughShowsMarker`). This is where the
length the hold-back waits for is compared with the length of the
marker, pieces, halves of the marker and leading white space counted.

*The context window.* `Walked` describes the walk at every row: what is kept is
everything said after it, in order, and `remaining` is the room less the charges.
`Stopped` says why it stopped there. Since charges are not negative, a row that
does not fit ends all longer windows too (`StoppedAtLongest`), which gives
`WindowIsLongest`; the newest message is kept whatever it costs, which gives
`OwnQuestionSent`. Charges are sums over finite sets of rows, for which the
community modules have a definition and no proved facts; the section on sums
proves those needed (empty, one element more, monotone) by a smallest
counterexample, since the proof system cannot apply the induction theorems.

*The shim.* `MetadataRead` says that model and usage are those of the events passed
on so far or, once the stream broke on an event, of that one too, `Peeked` that the
prefix is that of the first text passed on, `Told` how far the client was told how its stream ends,
`Logged` when the row is written. `LoggedAsRead` needs that nothing passes after
the row, and `NeverJustStops` that a stream which neither ended nor failed is not
in its last phase.

**ExecutorsProofs.** `Own(x)` is about one execution alone: what it has recorded
by the time it is where it is; that both events are recorded says that it wrote its
document, and not that it completed, since it may be killed before it returns. `Kept(x)` ties it to the others: a document that was
written and has no bytes is explained by **another** execution, not a session, of
the same agent on the same day, which has opened the file and is still to write it
or has failed. The explanation survives every step: when that execution writes, the
document has bytes again, and one that fails stays failed.

Proving changed two definitions. Choices in `HoldBack` that were written as a `CASE`
with overlapping conditions, of which TLC takes the first and the logic any, are
disjoint now. `CompletedIsEarned` let a session explain an empty document;
sessions write no file, and the witness is now another execution that does.

**Only model-checked**: `QueuedIsClaimed`, `OrphanIsReaped`, `DueFires` and
`RequestsEnd`, since liveness under fairness is beyond the proof system, and the
properties of the runs that expect a violation. That `HoldBack`, `ContextWindow`
and `Executors` refine the choices that `ChatService` and `Worker` leave open is
said informally: those choices are free, so there is nothing to discharge.

## Not modelled

Reads (`get_run`, `list_runs`, `list_events`, the GET routes) change nothing.
`available_at` is never set by a caller and `cancelled` is never entered: the
moves into it are in `ALLOWED_TRANSITIONS`, and no code makes them. Result,
error, cost, session id and payloads are data no control depends on. The tags of
a run are modelled by who wrote them. Authentication, telemetry, configuration,
registry validation and the CLI keep no state that steps interleave on. The HTTP
calls of executors, providers and tools are external, and of a tool only whether
its result fits, is too long or raises. The translation of payloads and events
between the OpenAI and the Anthropic shape (`providers/claude.py`) keeps no state
and is left out; so are the extra fields of a `/v1` body, which are passed on
unread, but for the `models` array, and `/v1/models`, a read over `ModelCatalog`. An Ollama name that several
installed tags match is taken as one. What a model writes, and when it calls a
tool, is a free choice.

## What is left

- `providers/claude.py`: the translation of a stream, checked against the shape
  of its input over short event sequences.
- `Executors` under `Worker`: the two are composed by hand here (`Worker` assumes
  that an executor returns or raises at any time or never); an instance in which
  a stale executor writes the file of its run's second attempt would join them.
- `octo run --follow`, a poll that reads until the run is terminal.
