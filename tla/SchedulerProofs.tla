-------------------------- MODULE SchedulerProofs --------------------------
(***************************************************************************)
(* Proofs about Scheduler.  That two ticks never share a row needs no      *)
(* assumption about clocks; that a schedule is never fired twice for one   *)
(* occurrence needs NoLag.                                                 *)
(***************************************************************************)
EXTENDS Scheduler, TLAPS

Safe == SchedTypeOK /\ TicksExclusive

\* What croniter returns on the times that compute_next() asks it for.
LEMMA NextIsFuture ==
    ASSUME now \in 0 .. Horizon, NEW p \in Processes, NEW s \in Schedules
    PROVE  /\ compute_next(p, s) \in Nat
           /\ compute_next(p, s) > now + Skew[p]
<1>1. now + Skew[p] \in -MaxSkew .. Horizon + MaxSkew
  BY SkewAssumption, HorizonAssumption DEF MaxSkew
<1> QED
  BY <1>1, NextAssumption DEF compute_next

LEMMA SafeInit == SchedInit => Safe
  BY HorizonAssumption DEF SchedInit, Safe, SchedTypeOK, TicksExclusive

\* A step keeps the types.
LEMMA TypeStep ==
    ASSUME SchedTypeOK, [SchedNext]_schedVars
    PROVE  SchedTypeOK'
<1> USE DEF SchedTypeOK
<1>1. CASE TimePasses
  BY <1>1, HorizonAssumption DEF TimePasses, rowVars
<1>2. ASSUME NEW l \in Loops, TickBegin(l)
      PROVE  SchedTypeOK'
  BY <1>2 DEF TickBegin, rowVars, Due, Free
<1>3. ASSUME NEW l \in Loops, TickCommit(l)
      PROVE  SchedTypeOK'
  <2>1. \A s \in Schedules : compute_next(l, s) \in Nat
    BY NextIsFuture DEF Processes
  <2>2. next_run_at' \in [Schedules -> Nat]
    BY <1>3, <2>1 DEF TickCommit
  <2>3. runs' \in [Schedules -> Nat] /\ fired' \in [Schedules -> Nat \cup {-1}]
    BY <1>3 DEF TickCommit
  <2>4. held' \in [Loops -> SUBSET Schedules] /\ \A k \in Loops \ live' : held'[k] = {}
    BY <1>3 DEF TickCommit
  <2> QED
    BY <1>3, <2>2, <2>3, <2>4 DEF TickCommit
<1>4. ASSUME NEW l \in Loops, TickFails(l) \/ LoopEnds(l)
      PROVE  SchedTypeOK'
  BY <1>4 DEF TickFails, LoopEnds, rowVars
<1>5. ASSUME NEW s \in Schedules, NEW p \in live \cup {Api}, Sync(p, s)
      PROVE  SchedTypeOK'
  <2>1. compute_next(p, s) \in Nat
    BY NextIsFuture DEF Processes
  <2> QED
    BY <1>5, <2>1 DEF Sync
<1>6. ASSUME NEW s \in Schedules, Create(s)
      PROVE  SchedTypeOK'
  <2>1. compute_next(Api, s) \in Nat
    BY NextIsFuture DEF Processes
  <2> QED
    BY <1>6, <2>1 DEF Create
<1>7. ASSUME NEW s \in Schedules, Toggle(s)
      PROVE  SchedTypeOK'
  BY <1>7 DEF Toggle
<1>8. CASE UNCHANGED schedVars
  BY <1>8 DEF schedVars
<1> QED
  BY <1>1, <1>2, <1>3, <1>4, <1>5, <1>6, <1>7, <1>8 DEF SchedNext

\* A step keeps ticks apart and what they hold due: the routes that would
\* change a due row wait for its lock, and sync touches no row there is.
LEMMA ExclusiveStep ==
    ASSUME SchedTypeOK, TicksExclusive, [SchedNext]_schedVars
    PROVE  TicksExclusive'
<1> USE DEF SchedTypeOK, TicksExclusive, Due
<1>1. CASE TimePasses
  BY <1>1 DEF TimePasses, rowVars
<1>2. ASSUME NEW l \in Loops, TickBegin(l)
      PROVE  TicksExclusive'
  <2>1. /\ held'[l] = Due \cap Free
        /\ \A k \in Loops \ {l} : held'[k] = held[k]
    BY <1>2 DEF TickBegin
  <2>2. \A s \in held'[l] : s \in Due /\ \A k \in Loops : s \notin held[k]
    BY <2>1 DEF Free, Locked
  <2> HIDE DEF Due
  <2>3. \A k \in Loops : \A s \in held'[k] : s \in Due
    BY <2>1, <2>2
  <2>4. \A j, k \in Loops : \A s \in held'[k] : s \in held'[j] => j = k
    BY <2>1, <2>2
  <2>5. Due' = Due
    BY <1>2 DEF TickBegin, rowVars, Due
  <2> QED
    BY <2>3, <2>4, <2>5
<1>3. ASSUME NEW l \in Loops, TickCommit(l)
      PROVE  TicksExclusive'
  BY <1>3 DEF TickCommit
<1>4. ASSUME NEW l \in Loops, TickFails(l) \/ LoopEnds(l)
      PROVE  TicksExclusive'
  BY <1>4 DEF TickFails, LoopEnds, rowVars
<1>5. ASSUME NEW s \in Schedules, NEW p \in live \cup {Api}, Sync(p, s)
      PROVE  TicksExclusive'
  BY <1>5 DEF Sync
<1>6. ASSUME NEW s \in Schedules, Create(s)
      PROVE  TicksExclusive'
  BY <1>6 DEF Create, Locked
<1>7. ASSUME NEW s \in Schedules, Toggle(s)
      PROVE  TicksExclusive'
  BY <1>7 DEF Toggle, Locked
<1>8. CASE UNCHANGED schedVars
  BY <1>8 DEF schedVars
<1> QED
  BY <1>1, <1>2, <1>3, <1>4, <1>5, <1>6, <1>7, <1>8 DEF SchedNext

\* "tick() claims due schedule rows with FOR UPDATE SKIP LOCKED, so N
\* workers never double-fire": whatever the clocks say, two ticks in flight
\* never hold the same row, and what a tick holds is due when it commits.
THEOREM TicksAreExclusive == SchedSafeSpec => [](SchedTypeOK /\ TicksExclusive)
<1>1. Safe /\ [SchedNext]_schedVars => Safe'
  BY TypeStep, ExclusiveStep DEF Safe
<1> QED
  BY <1>1, SafeInit, PTL DEF SchedSafeSpec, Safe

\* The schedules and the loops keep their types, whatever the clocks say: what
\* a loop has locked is a set of schedules, also after the loop ended.
THEOREM SchedulerTypes == SchedSafeSpec => []SchedTypeOK
BY TicksAreExclusive, PTL

\* A step keeps the next time of a schedule later than what it fired at.
LEMMA LaterStep ==
    ASSUME NoLag, SchedInv, [SchedNext]_schedVars
    PROVE  NextIsLater' /\ Unfired'
<1> USE DEF SchedInv, SchedTypeOK, NextIsLater, Unfired
<1>1. ASSUME TimePasses \/ \E l \in Loops : TickBegin(l) \/ TickFails(l) \/ LoopEnds(l)
      PROVE  NextIsLater' /\ Unfired'
  BY <1>1 DEF TimePasses, TickBegin, TickFails, LoopEnds, rowVars
<1>2. ASSUME NEW l \in Loops, TickCommit(l)
      PROVE  NextIsLater' /\ Unfired'
  <2>1. \A s \in held[l] : enabled[s] = "on" /\ next_run_at[s] <= now
    BY DEF TicksExclusive, Due
  <2>2. \A s \in Schedules : compute_next(l, s) > now
    <3>1. Skew[l] \in Int /\ Skew[l] >= 0
      BY SkewAssumption DEF NoLag, Processes, MaxSkew
    <3>2. \A s \in Schedules : compute_next(l, s) \in Nat /\ compute_next(l, s) > now + Skew[l]
      BY NextIsFuture DEF Processes
    <3> QED
      BY <3>1, <3>2
  <2>3. \A s \in Schedules : compute_next(l, s) \in Nat
    BY NextIsFuture DEF Processes
  <2>4. \A s \in held[l] : fired'[s] = next_run_at[s] /\ next_run_at'[s] = compute_next(l, s)
    BY <1>2 DEF TickCommit
  <2>5. \A s \in Schedules \ held[l] :
           fired'[s] = fired[s] /\ next_run_at'[s] = next_run_at[s]
    BY <1>2 DEF TickCommit
  <2> QED
    BY <1>2, <2>1, <2>2, <2>3, <2>4, <2>5 DEF TickCommit
<1>3. ASSUME NEW s \in Schedules, NEW p \in live \cup {Api}, Sync(p, s)
      PROVE  NextIsLater' /\ Unfired'
  <2>1. compute_next(p, s) \in Nat
    BY NextIsFuture DEF Processes
  <2> QED
    BY <1>3, <2>1 DEF Sync
<1>4. ASSUME NEW s \in Schedules, Create(s)
      PROVE  NextIsLater' /\ Unfired'
  <2>1. compute_next(Api, s) \in Nat
    BY NextIsFuture DEF Processes
  <2> QED
    BY <1>4, <2>1 DEF Create
<1>5. ASSUME NEW s \in Schedules, Toggle(s)
      PROVE  NextIsLater' /\ Unfired'
  BY <1>5 DEF Toggle
<1>6. CASE UNCHANGED schedVars
  BY <1>6 DEF schedVars
<1> QED
  BY <1>1, <1>2, <1>3, <1>4, <1>5, <1>6 DEF SchedNext

LEMMA SchedInvInductive ==
    ASSUME NoLag
    PROVE  /\ SchedInit => SchedInv
           /\ SchedInv /\ [SchedNext]_schedVars => SchedInv'
<1>1. SchedInit => SchedInv
  BY SafeInit DEF Safe, SchedInit, SchedInv, NextIsLater, Unfired
<1>2. SchedInv /\ [SchedNext]_schedVars => SchedInv'
  BY TypeStep, ExclusiveStep, LaterStep DEF SchedInv
<1> QED
  BY <1>1, <1>2

\* With no clock behind the database's, a schedule always waits for an
\* occurrence later than any it fired at.
THEOREM NextTimesAdvance ==
    ASSUME NoLag
    PROVE  SchedSafeSpec => [](SchedTypeOK /\ TicksExclusive /\ NextIsLater)
<1>1. SchedInv => SchedTypeOK /\ TicksExclusive /\ NextIsLater
  BY DEF SchedInv
<1> QED
  BY <1>1, SchedInvInductive, PTL DEF SchedSafeSpec

\* Only a tick's commit adds a run, one for each row it holds.
LEMMA OnlyTicksFire ==
    ASSUME SchedTypeOK, TicksExclusive, [SchedNext]_schedVars,
           NEW s \in Schedules, runs'[s] # runs[s]
    PROVE  /\ enabled[s] = "on"
           /\ runs'[s] = runs[s] + 1
           /\ fired'[s] = next_run_at[s]
<1>1. PICK l \in Loops : TickCommit(l)
  BY DEF SchedNext, TimePasses, TickBegin, TickFails, LoopEnds, Sync, Create, Toggle,
         rowVars, schedVars
<1>2. s \in held[l] /\ runs'[s] = runs[s] + 1 /\ fired'[s] = next_run_at[s]
  BY <1>1 DEF TickCommit, SchedTypeOK
<1> QED
  BY <1>2 DEF TicksExclusive, Due

\* tick() fires each due schedule "exactly once": no two runs of a schedule
\* are for the same occurrence, provided that no process's clock is behind
\* the database's.
THEOREM SchedulesFireOnce ==
    ASSUME NoLag
    PROVE  SchedSafeSpec => NeverDoubleFires
<1>1. SchedInv /\ [SchedNext]_schedVars =>
         [\A s \in Schedules : runs'[s] # runs[s] =>
             runs'[s] = runs[s] + 1 /\ fired'[s] > fired[s]]_schedVars
  <2> SUFFICES ASSUME SchedInv, [SchedNext]_schedVars,
                      NEW s \in Schedules, runs'[s] # runs[s]
               PROVE  runs'[s] = runs[s] + 1 /\ fired'[s] > fired[s]
    OBVIOUS
  <2>1. enabled[s] = "on" /\ runs'[s] = runs[s] + 1 /\ fired'[s] = next_run_at[s]
    BY OnlyTicksFire DEF SchedInv
  <2> QED
    BY <2>1 DEF SchedInv, NextIsLater, SchedTypeOK
<1> QED
  BY <1>1, SchedInvInductive, PTL DEF SchedSafeSpec, NeverDoubleFires

\* The schedule an operator turned off neither fires nor moves, and only the
\* routes turn it on again, whatever workers sync at their start.
THEOREM OffSchedulesRest == SchedSafeSpec => OffMeansOff
<1>1. Safe /\ [SchedNext]_schedVars => Safe'
  BY TypeStep, ExclusiveStep DEF Safe
<1>2. Safe /\ [SchedNext]_schedVars =>
         [\A s \in Schedules : enabled[s] = "off" =>
             /\ runs'[s] = runs[s] /\ next_run_at'[s] = next_run_at[s]
             /\ enabled'[s] = "off" \/ Create(s) \/ Toggle(s)]_schedVars
  <2> SUFFICES ASSUME Safe, SchedNext, NEW s \in Schedules, enabled[s] = "off"
               PROVE  /\ runs'[s] = runs[s] /\ next_run_at'[s] = next_run_at[s]
                      /\ enabled'[s] = "off" \/ Create(s) \/ Toggle(s)
    OBVIOUS
  <2> USE DEF Safe, SchedTypeOK
  <2>1. runs'[s] = runs[s]
    BY OnlyTicksFire
  <2>2. CASE TimePasses \/ \E l \in Loops : TickBegin(l) \/ TickFails(l) \/ LoopEnds(l)
    BY <2>2 DEF TimePasses, TickBegin, TickFails, LoopEnds, rowVars
  <2>3. ASSUME NEW l \in Loops, TickCommit(l)
        PROVE  next_run_at'[s] = next_run_at[s] /\ enabled'[s] = "off"
    <3>1. s \notin held[l]
      BY DEF TicksExclusive, Due
    <3> QED
      BY <2>3, <3>1 DEF TickCommit
  <2>4. ASSUME NEW t \in Schedules, NEW p \in live \cup {Api}, Sync(p, t)
        PROVE  next_run_at'[s] = next_run_at[s] /\ enabled'[s] = "off"
    BY <2>4 DEF Sync
  <2>5. ASSUME NEW t \in Schedules, Create(t)
        PROVE  next_run_at'[s] = next_run_at[s] /\ (t = s \/ enabled'[s] = "off")
    BY <2>5 DEF Create
  <2>6. ASSUME NEW t \in Schedules, Toggle(t)
        PROVE  next_run_at'[s] = next_run_at[s] /\ (t = s \/ enabled'[s] = "off")
    BY <2>6 DEF Toggle
  <2> QED
    BY <2>1, <2>2, <2>3, <2>4, <2>5, <2>6 DEF SchedNext
<1> QED
  BY <1>1, <1>2, SafeInit, PTL DEF SchedSafeSpec, OffMeansOff

=============================================================================
