-------------------------- MODULE MigrationsProofs --------------------------
(***************************************************************************)
(* Racing upgrades apply every migration once and in order, for any number *)
(* of processes and of migrations and any mixture of images.               *)
(***************************************************************************)
EXTENDS Migrations, TLAPS

MigrationsTypes ==
    /\ recorded \subseteq Versions
    /\ times \in [Versions -> Nat]
    /\ at \in [Processes -> Active \cup {"done", "failed"}]
    /\ version \in [Processes -> 0 .. Last]
    /\ already \in [Processes -> SUBSET Versions]
    /\ applied_now \in [Processes -> SUBSET Versions]

\* What a process knows is true, and it works behind a gapless prefix.
ProcessOK(p) ==
    /\ already[p] \subseteq recorded
    /\ applied_now[p] \subseteq recorded
    /\ at[p] \in {"new", "create", "read"} => version[p] = 0
    /\ at[p] = "next" => 1 .. version[p] \subseteq recorded
    /\ at[p] \in {"execute", "record", "commit"} =>
          version[p] > 0 /\ 1 .. (version[p] - 1) \subseteq recorded
    /\ at[p] = "commit" => version[p] \notin recorded
    /\ at[p] = "done" => 1 .. Has[p] \subseteq recorded

\* No two are about to commit, or have committed, the same migration.
PairOK(p, q) ==
    /\ at[p] = "commit" /\ at[q] = "commit" => version[p] # version[q]
    /\ applied_now[p] \cap applied_now[q] = {}

MigrationsInv ==
    /\ MigrationsTypes
    /\ AppliedOnce
    /\ AppliedInOrder
    /\ \A p \in Processes : ProcessOK(p)
    /\ \A p \in Processes : \A q \in Processes \ {p} : PairOK(p, q)

LEMMA InitHasInv == MigrationsInit => MigrationsInv
    BY MigrationsAssumption DEF MigrationsInit, MigrationsInv, MigrationsTypes, AppliedOnce,
       AppliedInOrder, ProcessOK, PairOK, Active, Versions

\* Steps that commit nothing and stay before the execution of a migration.
LEMMA QuietKeepsInv ==
    ASSUME MigrationsInv, NEW p \in Processes,
           FindTable(p) \/ CreateTable(p) \/ Read(p) \/ Return(p) \/ Break(p) \/ Again(p)
    PROVE  MigrationsInv'
<1> USE MigrationsAssumption DEF MigrationsInv
<1>1. /\ UNCHANGED <<recorded, times>>
      /\ \E to \in Active \cup {"done", "failed"} : at' = [at EXCEPT ![p] = to]
      /\ at'[p] \notin {"execute", "record", "commit"}
      /\ \A q \in Processes \ {p} : UNCHANGED <<at[q], version[q], already[q], applied_now[q]>>
    BY DEF FindTable, CreateTable, Read, Return, Break, Again, Goto, Fail, Active, MigrationsTypes
<1>2. /\ version' \in [Processes -> 0 .. Last]
      /\ already' \in [Processes -> SUBSET Versions]
      /\ applied_now' \in [Processes -> SUBSET Versions]
    <2>1. CASE FindTable(p) \/ CreateTable(p) \/ Return(p) \/ Break(p)
        BY <2>1 DEF FindTable, CreateTable, Return, Break, MigrationsTypes
    <2>2. CASE Read(p)
        BY <2>2 DEF Read, MigrationsTypes
    <2>3. CASE Again(p)
        BY <2>3 DEF Again, MigrationsTypes
    <2> QED
        BY <2>1, <2>2, <2>3
<1>3. MigrationsTypes' /\ AppliedOnce' /\ AppliedInOrder'
    <2>1. at' \in [Processes -> Active \cup {"done", "failed"}]
        BY <1>1 DEF MigrationsTypes
    <2>2. MigrationsTypes'
        BY <1>1, <1>2, <2>1 DEF MigrationsTypes
    <2> QED
        BY <1>1, <2>2 DEF AppliedOnce, AppliedInOrder
<1>4. ProcessOK(p)'
    <2>1. CASE FindTable(p) \/ CreateTable(p) \/ Break(p)
        BY <2>1 DEF FindTable, CreateTable, Break, Goto, Fail, ProcessOK, MigrationsTypes
    <2>2. CASE Read(p)
        BY <2>2 DEF Read, Goto, ProcessOK, MigrationsTypes
    <2>3. CASE Again(p)
        BY <2>3 DEF Again, Goto, ProcessOK, MigrationsTypes
    <2>4. CASE Return(p)
        <3>1. ASSUME NEW m \in 1 .. Has[p]
              PROVE  m \in recorded
            BY <2>4 DEF Return, Goto, Pending, ProcessOK, MigrationsTypes
        <3> QED
            BY <2>4, <3>1 DEF Return, Goto, ProcessOK, MigrationsTypes
    <2> QED
        BY <2>1, <2>2, <2>3, <2>4
<1>5. \A q \in Processes \ {p} : ProcessOK(q)'
    BY <1>1 DEF ProcessOK
<1>6. applied_now'[p] \subseteq applied_now[p]
    BY DEF FindTable, CreateTable, Read, Return, Break, Again, MigrationsTypes
<1>7. \A r \in Processes : \A q \in Processes \ {r} : PairOK(r, q)'
    BY <1>1, <1>6 DEF PairOK
<1> QED
    BY <1>3, <1>4, <1>5, <1>7

\* The next file is preceded by what is applied already.
LEMMA BeginKeepsInv ==
    ASSUME MigrationsInv, NEW p \in Processes, NEW m \in Versions, Begin(p, m)
    PROVE  MigrationsInv'
<1> USE MigrationsAssumption DEF MigrationsInv
<1>1. /\ UNCHANGED <<recorded, times, already, applied_now>>
      /\ at[p] = "next" /\ at' = [at EXCEPT ![p] = "execute"]
      /\ version' = [version EXCEPT ![p] = m]
      /\ IsNext(p, m)
    BY DEF Begin, Goto
<1>2. 1 .. (m - 1) \subseteq recorded
    <2> SUFFICES ASSUME NEW n \in 1 .. (m - 1)
                 PROVE  n \in recorded
        OBVIOUS
    <2>1. /\ n \in Nat /\ m \in Nat /\ m <= Has[p] /\ Has[p] \in Nat
          /\ version[p] \in Nat
        BY <1>1 DEF IsNext, Pending, MigrationsTypes, Versions
    <2>2. n \in 1 .. Has[p] /\ n < m
        BY <2>1
    <2>3. n <= version[p] \/ n \in already[p]
        BY <1>1, <2>1, <2>2 DEF IsNext, Pending
    <2> QED
        BY <1>1, <2>1, <2>3 DEF ProcessOK
<1>3. MigrationsTypes' /\ AppliedOnce' /\ AppliedInOrder'
    BY <1>1 DEF MigrationsTypes, AppliedOnce, AppliedInOrder, Active, Versions
<1>4. ProcessOK(p)'
    BY <1>1, <1>2 DEF ProcessOK, MigrationsTypes, Versions
<1>5. \A q \in Processes \ {p} : ProcessOK(q)'
    BY <1>1 DEF ProcessOK, MigrationsTypes
<1>6. \A r \in Processes : \A q \in Processes \ {r} : PairOK(r, q)'
    BY <1>1 DEF PairOK, MigrationsTypes
<1> QED
    BY <1>3, <1>4, <1>5, <1>6

LEMMA ExecuteKeepsInv ==
    ASSUME MigrationsInv, NEW p \in Processes, Execute(p)
    PROVE  MigrationsInv'
<1> USE DEF MigrationsInv
<1>1. /\ UNCHANGED <<recorded, times, already, version, applied_now>>
      /\ at[p] = "execute"
      /\ at' = [at EXCEPT ![p] = "failed"] \/ at' = [at EXCEPT ![p] = "record"]
    BY DEF Execute, Goto, Fail
<1>2. MigrationsTypes' /\ AppliedOnce' /\ AppliedInOrder'
    BY <1>1 DEF MigrationsTypes, AppliedOnce, AppliedInOrder, Active
<1>3. \A q \in Processes : ProcessOK(q)'
    BY <1>1 DEF ProcessOK, MigrationsTypes
<1>4. \A r \in Processes : \A q \in Processes \ {r} : PairOK(r, q)'
    BY <1>1 DEF PairOK, MigrationsTypes
<1> QED
    BY <1>2, <1>3, <1>4

\* The key of the row lets one process through.
LEMMA RecordKeepsInv ==
    ASSUME MigrationsInv, NEW p \in Processes, Record(p)
    PROVE  MigrationsInv'
<1> USE DEF MigrationsInv
<1>1. /\ UNCHANGED <<recorded, times, already, version, applied_now>>
      /\ at[p] = "record"
      /\ \A q \in Processes : ~(version[q] = version[p] /\ at[q] = "commit")
      /\ \/ at' = [at EXCEPT ![p] = "failed"]
         \/ at' = [at EXCEPT ![p] = "commit"] /\ version[p] \notin recorded
    BY DEF Record, Goto, Fail, Listed
<1>2. MigrationsTypes' /\ AppliedOnce' /\ AppliedInOrder'
    BY <1>1 DEF MigrationsTypes, AppliedOnce, AppliedInOrder, Active
<1>3. \A q \in Processes : ProcessOK(q)'
    BY <1>1 DEF ProcessOK, MigrationsTypes
<1>4. \A r \in Processes : \A q \in Processes \ {r} : PairOK(r, q)'
    BY <1>1 DEF PairOK, MigrationsTypes
<1> QED
    BY <1>2, <1>3, <1>4

LEMMA CommitKeepsInv ==
    ASSUME MigrationsInv, NEW p \in Processes, Commit(p)
    PROVE  MigrationsInv'
<1> USE DEF MigrationsInv
<1> DEFINE m == version[p]
<1>1. /\ at[p] = "commit" /\ at' = [at EXCEPT ![p] = "next"]
      /\ recorded' = recorded \cup {m}
      /\ times' = [times EXCEPT ![m] = @ + 1]
      /\ applied_now' = [applied_now EXCEPT ![p] = @ \cup {m}]
      /\ UNCHANGED <<already, version>>
    BY DEF Commit, Goto
<1>2. /\ m \in Versions /\ m \notin recorded
      /\ 1 .. (m - 1) \subseteq recorded
    BY <1>1 DEF ProcessOK, MigrationsTypes, Versions
<1>3. 1 .. m \subseteq recorded \cup {m}
    BY <1>2 DEF Versions
<1> HIDE DEF m
<1>4. MigrationsTypes'
    BY <1>1, <1>2 DEF MigrationsTypes, Active
<1>5. AppliedOnce'
    BY <1>1, <1>2 DEF AppliedOnce, MigrationsTypes
<1>6. AppliedInOrder'
    BY <1>1, <1>3 DEF AppliedInOrder
<1>7. ProcessOK(p)'
    BY <1>1, <1>3 DEF ProcessOK, MigrationsTypes, m
<1>8. ASSUME NEW q \in Processes \ {p}
      PROVE  ProcessOK(q)'
    <2>1. at'[q] = at[q] /\ applied_now'[q] = applied_now[q]
        BY <1>1 DEF MigrationsTypes
    <2>2. at[q] = "commit" => version[q] # m
        BY <1>1 DEF PairOK, m
    <2> QED
        BY <1>1, <2>1, <2>2 DEF ProcessOK
<1>9. ASSUME NEW r \in Processes, NEW q \in Processes \ {r}
      PROVE  PairOK(r, q)'
    <2>1. \A s \in Processes : m \notin applied_now[s]
        BY <1>2 DEF ProcessOK
    <2> QED
        BY <1>1, <2>1 DEF PairOK, MigrationsTypes
<1> QED
    BY <1>4, <1>5, <1>6, <1>7, <1>8, <1>9

\* Migrations run behind a gapless prefix, one committer each.
THEOREM MigrationsInvariant == MigrationsSpec => []MigrationsInv
<1>1. MigrationsInv /\ [MigrationsNext]_migrationVars => MigrationsInv'
    <2> SUFFICES ASSUME MigrationsInv, [MigrationsNext]_migrationVars
                 PROVE  MigrationsInv'
        OBVIOUS
    <2>1. CASE MigrationsNext
        BY <2>1, QuietKeepsInv, BeginKeepsInv, ExecuteKeepsInv, RecordKeepsInv, CommitKeepsInv
        DEF MigrationsNext
    <2>2. CASE UNCHANGED migrationVars
        BY <2>2 DEF migrationVars, MigrationsInv, MigrationsTypes, AppliedOnce, AppliedInOrder,
           ProcessOK, PairOK
    <2> QED
        BY <2>1, <2>2
<1> QED
    BY <1>1, InitHasInv, PTL DEF MigrationsSpec

\* Every migration takes effect at most once, those that could run twice as
\* well, and is listed if and only if it did (db.upgrade()).
THEOREM MigrationsApplyOnce == MigrationsSpec => []AppliedOnce
    BY MigrationsInvariant, PTL DEF MigrationsInv

\* Migrations take effect in their order, whatever images race.
THEOREM MigrationsApplyInOrder == MigrationsSpec => []AppliedInOrder
    BY MigrationsInvariant, PTL DEF MigrationsInv

\* What upgrade() returns is what this process, and no other, applied.
THEOREM UpgradeReturnsTruth == MigrationsSpec => []ReturnsTruth
<1>1. MigrationsInv => ReturnsTruth
    BY DEF MigrationsInv, ReturnsTruth, ProcessOK, PairOK
<1> QED
    BY <1>1, MigrationsInvariant, PTL

=============================================================================
