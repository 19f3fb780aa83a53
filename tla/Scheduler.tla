----------------------------- MODULE Scheduler -----------------------------
(***************************************************************************)
(* Cron schedules: src/octo/worker/scheduler.py, scheduler_loop() of       *)
(* src/octo/worker/main.py and the schedule routes of                      *)
(* src/octo/api/routes.py.  Every worker process runs a scheduler loop.    *)
(*                                                                         *)
(* Two clocks are involved and the model keeps them apart: a schedule is   *)
(* due by the database's now(), its next time is computed from the clock   *)
(* of the process that fires it.                                           *)
(***************************************************************************)
EXTENDS Integers

CONSTANTS
    Schedules,          \* (agent, cron_expr) pairs
    Loops,              \* processes with a scheduler loop
    Api,                \* the API process
    Skew,               \* each process's clock minus the database's
    NextAfter(_, _),    \* croniter: first occurrence of a cron after a time
    Horizon             \* bound on the database clock

Processes == Loops \cup {Api}
MaxSkew == 2            \* bound on the skews considered

ASSUME ApiAssumption == Api \notin Loops
ASSUME HorizonAssumption == Horizon \in Nat
ASSUME SkewAssumption == Skew \in [Processes -> -MaxSkew .. MaxSkew]
ASSUME NextAssumption ==
    \A s \in Schedules : \A t \in -MaxSkew .. Horizon + MaxSkew :
        NextAfter(s, t) \in Nat /\ NextAfter(s, t) > t

VARIABLES
    now,            \* the database clock
    enabled,        \* schedules.enabled, or absent
    next_run_at,    \* schedules.next_run_at
    held,           \* rows that a loop's open tick() transaction has locked
    live,           \* loops that run: their worker process has not ended
    runs,           \* number of runs with this schedule_id
    fired           \* the occurrence the newest of them was due at, -1: none

rowVars == <<enabled, next_run_at, runs, fired>>
schedVars == <<now, enabled, next_run_at, held, live, runs, fired>>

SchedInit ==
    /\ now = 0
    /\ enabled = [s \in Schedules |-> "absent"]
    /\ next_run_at = [s \in Schedules |-> 0]
    /\ held = [l \in Loops |-> {}]
    /\ live = Loops
    /\ runs = [s \in Schedules |-> 0]
    /\ fired = [s \in Schedules |-> -1]

-----------------------------------------------------------------------------
\* compute_next(): from datetime.now() of the calling process.
compute_next(p, s) == NextAfter(s, now + Skew[p])

Locked(s) == \E l \in Loops : s \in held[l]

Due == {s \in Schedules : enabled[s] = "on" /\ next_run_at[s] <= now}

\* Rows FOR UPDATE SKIP LOCKED does not skip.
Free == {s \in Schedules : ~Locked(s)}

\* tick(): the SELECT ... FOR UPDATE SKIP LOCKED of the due rows.
TickBegin(l) ==
    /\ l \in live /\ held[l] = {} /\ Due \cap Free # {}
    /\ held' = [held EXCEPT ![l] = Due \cap Free]
    /\ UNCHANGED <<now, rowVars, live>>

\* Bug: the transaction moves no row on.
TickInsertsOnly(l) ==
    /\ l \in live /\ held[l] # {}
    /\ runs' = [s \in Schedules |-> IF s \in held[l] THEN runs[s] + 1 ELSE runs[s]]
    /\ fired' = [s \in Schedules |-> IF s \in held[l] THEN next_run_at[s] ELSE fired[s]]
    /\ held' = [held EXCEPT ![l] = {}]
    /\ UNCHANGED <<now, enabled, next_run_at, live>>

\* A run for each of them, its next time, and the commit of it all.
TickCommit(l) ==
    /\ l \in live /\ held[l] # {}
    /\ runs' = [s \in Schedules |-> IF s \in held[l] THEN runs[s] + 1 ELSE runs[s]]
    /\ fired' = [s \in Schedules |-> IF s \in held[l] THEN next_run_at[s] ELSE fired[s]]
    /\ next_run_at' = [s \in Schedules |->
                          IF s \in held[l] THEN compute_next(l, s) ELSE next_run_at[s]]
    /\ held' = [held EXCEPT ![l] = {}]
    /\ UNCHANGED <<now, enabled, live>>

\* Any of it raises: everything rolls back, scheduler_loop() logs it and
\* ticks again 30 seconds later.
TickFails(l) ==
    /\ l \in live /\ held[l] # {}
    /\ held' = [held EXCEPT ![l] = {}]
    /\ UNCHANGED <<now, rowVars, live>>

\* Bug: the row locks survive the process.
LoopEndsLocked(l) ==
    /\ l \in live
    /\ live' = live \ {l}
    /\ UNCHANGED <<now, rowVars, held>>

\* The worker process ends, by a crash or by an exception in its run loop;
\* main() then cancels the scheduler task.
LoopEnds(l) ==
    /\ l \in live
    /\ live' = live \ {l}
    /\ held' = [held EXCEPT ![l] = {}]
    /\ UNCHANGED <<now, rowVars>>

\* Bug: the manifest's default overwrites the row.
SyncOverwrites(p, s) ==
    /\ ~Locked(s)
    /\ enabled' = [enabled EXCEPT ![s] = "on"]
    /\ next_run_at' = [next_run_at EXCEPT ![s] = compute_next(p, s)]
    /\ UNCHANGED <<now, held, live, runs, fired>>

\* sync_from_registry(): ON CONFLICT DO NOTHING, by a worker that starts or
\* by POST /schedules/sync.
Sync(p, s) ==
    /\ enabled[s] = "absent"
    /\ enabled' = [enabled EXCEPT ![s] = "on"]
    /\ next_run_at' = [next_run_at EXCEPT ![s] = compute_next(p, s)]
    /\ UNCHANGED <<now, held, live, runs, fired>>

\* POST /schedules: a new row, or an old one enabled and otherwise left as
\* it was.  It waits for the lock of a tick.
Create(s) ==
    /\ ~Locked(s)
    /\ enabled' = [enabled EXCEPT ![s] = "on"]
    /\ next_run_at' = IF enabled[s] = "absent"
                        THEN [next_run_at EXCEPT ![s] = compute_next(Api, s)]
                        ELSE next_run_at
    /\ UNCHANGED <<now, held, live, runs, fired>>

\* POST /schedules/{id}/toggle: enabled = NOT enabled, next_run_at is kept.
Toggle(s) ==
    /\ enabled[s] # "absent" /\ ~Locked(s)
    /\ enabled' = [enabled EXCEPT ![s] = IF @ = "on" THEN "off" ELSE "on"]
    /\ UNCHANGED <<now, next_run_at, held, live, runs, fired>>

TimePasses ==
    /\ now < Horizon
    /\ now' = now + 1
    /\ UNCHANGED <<rowVars, held, live>>

SchedNext ==
    \/ TimePasses
    \/ \E l \in Loops : TickBegin(l) \/ TickCommit(l) \/ TickFails(l) \/ LoopEnds(l)
    \/ \E s \in Schedules : \/ Create(s) \/ Toggle(s)
                            \/ \E p \in live \cup {Api} : Sync(p, s)

SchedSafeSpec == SchedInit /\ [][SchedNext]_schedVars

\* A loop that lives keeps ticking, and the database does not fail every
\* transaction of it.
SchedSpec ==
    /\ SchedSafeSpec
    /\ \A l \in Loops : WF_schedVars(TickBegin(l)) /\ SF_schedVars(TickCommit(l))

-----------------------------------------------------------------------------
SchedTypeOK ==
    /\ now \in 0 .. Horizon
    /\ enabled \in [Schedules -> {"absent", "on", "off"}]
    /\ next_run_at \in [Schedules -> Nat]
    /\ held \in [Loops -> SUBSET Schedules]
    /\ live \in SUBSET Loops
    /\ runs \in [Schedules -> Nat]
    /\ fired \in [Schedules -> Nat \cup {-1}]
    /\ \A l \in Loops \ live : held[l] = {}

\* Two ticks in flight never hold the same schedule, and what they hold is
\* still due when they commit, though routes may have run in between.
TicksExclusive ==
    \A k, l \in Loops : \A s \in held[l] :
        /\ s \in Due
        /\ s \in held[k] => k = l

\* A schedule waits for an occurrence later than every one it fired at.
NextIsLater == \A s \in Schedules : enabled[s] # "absent" => fired[s] < next_run_at[s]

\* What the proof needs besides: a schedule without a row has not fired.
Unfired == \A s \in Schedules : enabled[s] = "absent" => fired[s] = -1

\* No process's clock is behind the database's.
NoLag == \A p \in Processes : Skew[p] >= 0

SchedInv == SchedTypeOK /\ TicksExclusive /\ NextIsLater /\ Unfired

\* "Fire every due, enabled schedule exactly once" (tick()), "atomic, so N
\* workers never double-fire" (RFC-0001): each new run of a schedule is for
\* a later occurrence than the run before it.
NeverDoubleFires ==
    [][\A s \in Schedules : runs'[s] # runs[s] =>
          runs'[s] = runs[s] + 1 /\ fired'[s] > fired[s]]_schedVars

\* "Existing rows are left untouched (the DB row is the operator's knob)"
\* (sync_from_registry()): what an operator turned off stays off through
\* restarts and syncs until a create or a toggle, and never fires meanwhile.
\* A step that enables a row moves neither its next time nor its runs.
OffMeansOff ==
    [][\A s \in Schedules : enabled[s] = "off" =>
          /\ runs'[s] = runs[s] /\ next_run_at'[s] = next_run_at[s]
          /\ enabled'[s] = "off" \/ Create(s) \/ Toggle(s)]_schedVars

\* A due schedule fires, is turned off, or no loop is left.
DueFires ==
    \A s \in Schedules : \A n \in 0 .. Horizon :
        (enabled[s] = "on" /\ next_run_at[s] = n /\ n <= now)
            ~> (next_run_at[s] # n \/ enabled[s] = "off" \/ live = {})

=============================================================================
