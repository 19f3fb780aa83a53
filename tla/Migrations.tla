----------------------------- MODULE Migrations -----------------------------
(***************************************************************************)
(* upgrade() of db.py, run by several processes at once: the migrate       *)
(* container, `make db-migrate`, another deployment of an older image.     *)
(* Each applies the migrations of its image that schema_migrations does    *)
(* not list, in one transaction each; the first also creates that table    *)
(* and read it.  Postgres decides the races: a name or a key that an open  *)
(* transaction has inserted makes others wait, and fail if it commits.     *)
(***************************************************************************)
EXTENDS Naturals

CONSTANTS Processes,
          Last,         \* the newest migration
          Has,          \* of each process: its image has migrations 1 .. Has[p]
          Rerunnable    \* migrations that could be executed a second time

ASSUME MigrationsAssumption ==
    /\ Last \in Nat
    /\ Has \in [Processes -> 0 .. Last]
    /\ Rerunnable \subseteq 1 .. Last

Versions == 1 .. Last

VARIABLES
    table,      \* schema_migrations is there
    recorded,   \* its rows
    times,      \* how often each migration took effect
    at,         \* "new", "create", "read", "next", "execute", "record",
                \* "commit", "done" or "failed"
    creates,    \* the open transaction of a process created the table
    already,    \* the rows it read
    version,    \* the migration it is at, or did last
    applied_now \* those it will return

migrationVars == <<table, recorded, times, at, creates, already, version, applied_now>>
Active == {"new", "create", "read", "next", "execute", "record", "commit"}

MigrationsInit ==
    /\ table = FALSE /\ recorded = {}
    /\ times = [m \in Versions |-> 0]
    /\ at = [p \in Processes |-> "new"]
    /\ creates = [p \in Processes |-> FALSE]
    /\ already = [p \in Processes |-> {}]
    /\ version = [p \in Processes |-> 0]
    /\ applied_now = [p \in Processes |-> {}]

Goto(p, from, to) == at[p] = from /\ at' = [at EXCEPT ![p] = to]

\* A statement that fails, or the end of the process, rolls back.
Fail(p) ==
    /\ at' = [at EXCEPT ![p] = "failed"]
    /\ creates' = [creates EXCEPT ![p] = FALSE]

\* CREATE TABLE IF NOT EXISTS finds the table,
FindTable(p) ==
    /\ Goto(p, "new", IF table THEN "read" ELSE "create")
    /\ UNCHANGED <<table, recorded, times, creates, already, version, applied_now>>

\* or makes it, when nobody else's transaction has or has committed it.
CreateTable(p) ==
    /\ at[p] = "create"
    /\ \A q \in Processes : ~creates[q]
    /\ IF table THEN Fail(p)
       ELSE Goto(p, "create", "read") /\ creates' = [creates EXCEPT ![p] = TRUE]
    /\ UNCHANGED <<table, recorded, times, already, version, applied_now>>

Read(p) ==
    /\ Goto(p, "read", "next")
    /\ already' = [already EXCEPT ![p] = recorded]
    /\ UNCHANGED <<table, recorded, times, creates, version, applied_now>>

Pending(p) == {m \in 1 .. Has[p] : m > version[p] /\ m \notin already[p]}
IsNext(p, m) == m \in Pending(p) /\ \A n \in Pending(p) : m <= n

\* The next file, in the order of their names.
Begin(p, m) ==
    /\ Goto(p, "next", "execute")
    /\ IsNext(p, m)
    /\ version' = [version EXCEPT ![p] = m]
    /\ UNCHANGED <<table, recorded, times, creates, already, applied_now>>

\* Its SQL.  One that makes or alters a table waits for a transaction that
\* did the same, and fails if that was, or is, committed.
Execute(p) ==
    LET m == version[p]
        Same == {q \in Processes : version[q] = m /\ at[q] \in {"record", "commit"}}
    IN /\ at[p] = "execute"
       /\ m \notin Rerunnable => Same = {}
       /\ IF times[m] > 0 /\ m \notin Rerunnable THEN Fail(p)
          ELSE Goto(p, "execute", "record") /\ UNCHANGED creates
       /\ UNCHANGED <<table, recorded, times, already, version, applied_now>>

\* The row, whose key others wait for.
ListedNoKey(m) == FALSE         \* the version is no primary key
Listed(m) == m \in recorded

Record(p) ==
    LET m == version[p]
    IN /\ at[p] = "record"
       /\ \A q \in Processes : ~(version[q] = m /\ at[q] = "commit")
       /\ IF Listed(m) THEN Fail(p)
          ELSE Goto(p, "record", "commit") /\ UNCHANGED creates
       /\ UNCHANGED <<table, recorded, times, already, version, applied_now>>

Commit(p) ==
    LET m == version[p]
    IN /\ Goto(p, "commit", "next")
       /\ recorded' = recorded \cup {m}
       /\ times' = [times EXCEPT ![m] = @ + 1]
       /\ table' = TRUE
       /\ creates' = [creates EXCEPT ![p] = FALSE]
       /\ applied_now' = [applied_now EXCEPT ![p] = @ \cup {m}]
       /\ UNCHANGED <<already, version>>

\* Nothing pending: leaving the connection's block commits.
Return(p) ==
    /\ Goto(p, "next", "done")
    /\ Pending(p) = {}
    /\ table' = TRUE
    /\ creates' = [creates EXCEPT ![p] = FALSE]
    /\ UNCHANGED <<recorded, times, already, version, applied_now>>

Break(p) ==
    /\ at[p] \in Active
    /\ Fail(p)
    /\ UNCHANGED <<table, recorded, times, already, version, applied_now>>

\* It is run again, with the same image.
Again(p) ==
    /\ Goto(p, "failed", "new")
    /\ version' = [version EXCEPT ![p] = 0]
    /\ applied_now' = [applied_now EXCEPT ![p] = {}]
    /\ UNCHANGED <<table, recorded, times, creates, already>>

MigrationsNext ==
    \E p \in Processes :
        \/ FindTable(p) \/ CreateTable(p) \/ Read(p) \/ (\E m \in Versions : Begin(p, m))
        \/ Execute(p) \/ Record(p) \/ Commit(p) \/ Return(p) \/ Break(p) \/ Again(p)

MigrationsSpec == MigrationsInit /\ [][MigrationsNext]_migrationVars

-----------------------------------------------------------------------------
\* However upgrades race, break and are repeated: a migration takes effect
\* once, those of them that could be executed twice as well, and exactly
\* those that did are listed.
AppliedOnce == \A m \in Versions : times[m] = IF m \in recorded THEN 1 ELSE 0

\* Migrations take effect in their order, also when images differ.
AppliedInOrder == \A m \in recorded : 1 .. m \subseteq recorded

\* What upgrade() returns is true: it lists what this process did, nobody
\* else says the same, and its image finds all it needs.
ReturnsTruth ==
    \A p \in Processes : at[p] = "done" =>
        /\ 1 .. Has[p] \subseteq recorded
        /\ \A q \in Processes \ {p} :
              at[q] = "done" => applied_now[p] \cap applied_now[q] = {}

=============================================================================
