---------------------------- MODULE MCScheduler ----------------------------
(* Scheduler on small instances: crons that fire every second or third      *)
(* instant, seen by processes whose clocks agree with the database or not.  *)
EXTENDS Scheduler

CONSTANTS l1, l2, api, every2, every3

PeriodOf(s) == IF s = every2 THEN 2 ELSE 3

EveryPeriod(s, t) == ((t \div PeriodOf(s)) + 1) * PeriodOf(s)

InStep == [p \in {l1, l2, api} |-> 0]
Ahead == [p \in {l1, l2, api} |-> IF p = l1 THEN 1 ELSE 0]
Behind == [p \in {l1, l2, api} |-> IF p = l1 THEN -1 ELSE 0]

=============================================================================
