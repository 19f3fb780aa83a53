--------------------------- MODULE ExecutorsProofs ---------------------------
(***************************************************************************)
(* Proofs about Executors, for any number of executions, sessions, agents  *)
(* and days: what a completed execution has to show for itself, and that   *)
(* the recorded events tell which documents are on disk.                   *)
(*                                                                         *)
(* Own(x) is about an execution alone; the rest ties the files to those    *)
(* who write them.  Its hard part is Kept(x): a document without bytes is  *)
(* explained by another execution that has opened it and is still to write *)
(* it, or has failed, and an execution that has failed stays so.           *)
(***************************************************************************)
EXTENDS Executors, TLAPS

Phases == {"new", "log", "call", "open", "write", "tell", "return", "talk", "ended"}
Files == Agents \X (0 .. Days)
Outcomes == [status : {"none", "completed", "failed", "killed"},
             cost_usd : {"zero", "some", "null"}]

ExecTypes ==
    /\ today \in 0 .. Days
    /\ files \in [Files -> [there : BOOLEAN, by : SUBSET Executions]]
    /\ phase \in [Executions -> Phases]
    /\ day \in [Executions -> 0 .. Days]
    /\ outcome \in [Executions -> Outcomes]
    /\ freely \in [Executions -> BOOLEAN]
    /\ events \in [Executions -> Nat]

Done(x) == outcome[x].status = "completed"
Failed(x) == outcome[x].status \in {"killed", "failed"}

\* What an execution has recorded by the time it is where it is.
OwnCompletion(x) ==
    /\ phase[x] # "talk"
    /\ phase[x] \in {"new", "log"} => events[x] = 0
    /\ phase[x] \in {"call", "open", "write", "tell"} => events[x] = 1
    /\ phase[x] # "ended" => ~Done(x) /\ ~Failed(x)
    /\ phase[x] = "return" => events[x] = 2
    /\ events[x] = 2 => phase[x] \in {"return", "ended"}
    /\ Done(x) => events[x] = 2

OwnSession(x) ==
    /\ phase[x] \in {"new", "talk", "ended"}
    /\ Done(x) => outcome[x].cost_usd = "some"

Own(x) == IF x \in Sessions THEN OwnSession(x) ELSE OwnCompletion(x)

\* The bytes of a file are those of executions that wrote it.
Wrote(f, x) ==
    /\ x \notin Sessions /\ FileOf(x) = f
    /\ phase[x] \in {"tell", "return", "ended"} /\ events[x] > 0

\* Why the document of an execution may have no bytes.
Emptied(x, y) ==
    /\ y # x /\ FileOf(y) = FileOf(x)
    /\ phase[y] = "write" \/ Failed(y)

Kept(x) ==
    /\ phase[x] = "write" => Document(x).there
    /\ phase[x] = "tell" \/ events[x] = 2 =>
          /\ Document(x).there
          /\ Document(x).by = {} => \E y \in Executions \ Sessions : Emptied(x, y)

ExecInv ==
    /\ ExecTypes
    /\ \A x \in Executions : Own(x)
    /\ \A f \in Files : \A x \in files[f].by : Wrote(f, x)
    /\ \A x \in Executions \ Sessions : Kept(x)

Step(x) ==
    \/ Check(x) \/ Announce(x) \/ Complete(x) \/ OpenFile(x) \/ WriteFile(x)
    \/ Tell(x) \/ ReturnCompleted(x) \/ StartSession(x) \/ Message(x) \/ EndSession(x)
    \/ Raises(x) \/ Killed(x)

LEMMA ExecInitHolds == ExecInit => ExecInv
<1> SUFFICES ASSUME ExecInit
             PROVE  ExecInv
    OBVIOUS
<1>1. ExecTypes
    BY ExecutorsAssumption DEF ExecInit, ExecTypes, Files, NoFile, Phases, Outcomes, Outcome
<1>2. \A x \in Executions : Own(x) /\ Kept(x)
    BY DEF ExecInit, Own, OwnSession, OwnCompletion, Kept, Done, Failed, Outcome
<1>3. \A f \in Files : files[f].by = {}
    BY DEF ExecInit, Files, NoFile
<1> QED
    BY <1>1, <1>2, <1>3 DEF ExecInv

LEMMA FileTyped ==
    ASSUME ExecTypes, NEW x \in Executions
    PROVE  FileOf(x) \in Files
    BY ExecutorsAssumption DEF ExecTypes, FileOf, Files

LEMMA StepTyped ==
    ASSUME ExecTypes, NEW x \in Executions, Step(x)
    PROVE  ExecTypes'
<1> USE DEF Step
<1>1. today' \in 0 .. Days
    BY DEF ExecTypes, Check, Announce, Complete, OpenFile, WriteFile, Tell, ReturnCompleted,
       StartSession, Message, EndSession, Raises, Killed
<1>2. files' \in [Files -> [there : BOOLEAN, by : SUBSET Executions]]
    <2>1. CASE OpenFile(x)
        BY <2>1 DEF OpenFile, ExecTypes
    <2>2. CASE WriteFile(x)
        <3>1. PICK left \in {{}, files[FileOf(x)].by} :
                  files' = [files EXCEPT ![FileOf(x)].by = left \cup {x}]
            BY <2>2 DEF WriteFile
        <3>2. files[FileOf(x)] \in [there : BOOLEAN, by : SUBSET Executions]
            BY FileTyped DEF ExecTypes
        <3>3. left \cup {x} \in SUBSET Executions
            BY <3>2
        <3>4. [files[FileOf(x)] EXCEPT !.by = left \cup {x}]
                  \in [there : BOOLEAN, by : SUBSET Executions]
            BY <3>2, <3>3
        <3>5. files' = [files EXCEPT ![FileOf(x)] =
                           [files[FileOf(x)] EXCEPT !.by = left \cup {x}]]
            BY <3>1
        <3> QED
            BY <3>4, <3>5 DEF ExecTypes
    <2>3. CASE UNCHANGED files
        BY <2>3 DEF ExecTypes
    <2> QED
        BY <2>1, <2>2, <2>3 DEF Check, Announce, Complete, Tell, ReturnCompleted,
           StartSession, Message, EndSession, Raises, Killed
<1>3. phase' \in [Executions -> Phases]
    BY DEF ExecTypes, Phases, Check, Announce, Complete, OpenFile, WriteFile, Tell, ReturnCompleted,
       StartSession, Message, EndSession, Raises, Killed, Moves, Fails, Returns
<1>4. day' \in [Executions -> 0 .. Days]
    BY DEF ExecTypes, Check, Announce, Complete, OpenFile, WriteFile, Tell, ReturnCompleted,
       StartSession, Message, EndSession, Raises, Killed
<1>5. outcome' \in [Executions -> Outcomes]
    <2>1. \A s \in {"none", "completed", "failed", "killed"}, c \in {"zero", "some", "null"} :
              Outcome(s, c) \in Outcomes
        BY DEF Outcome, Outcomes
    <2>2. outcome' = outcome \/ \E o \in Outcomes : outcome' = [outcome EXCEPT ![x] = o]
        BY <2>1 DEF Check, Announce, Complete, OpenFile, WriteFile, Tell, ReturnCompleted, Cost,
           StartSession, Message, EndSession, Raises, Killed, Fails, Returns, NoResult
    <2> QED
        BY <2>2 DEF ExecTypes
<1>6. freely' \in [Executions -> BOOLEAN]
    BY DEF ExecTypes, Check, Announce, Complete, OpenFile, WriteFile, Tell, ReturnCompleted,
       StartSession, Message, EndSession, Raises, Killed
<1>7. events' \in [Executions -> Nat]
    BY DEF ExecTypes, Check, Announce, Complete, OpenFile, WriteFile, Tell, ReturnCompleted,
       StartSession, Message, EndSession, Raises, Killed, RecordEvent
<1> QED
    BY <1>1, <1>2, <1>3, <1>4, <1>5, <1>6, <1>7 DEF ExecTypes

\* An execution moves only itself.
LEMMA OthersStay ==
    ASSUME ExecTypes, NEW x \in Executions, Step(x), NEW z \in Executions, z # x
    PROVE  /\ phase'[z] = phase[z] /\ day'[z] = day[z]
           /\ outcome'[z] = outcome[z] /\ events'[z] = events[z]
    BY DEF ExecTypes, Step, Check, Announce, Complete, OpenFile, WriteFile, Tell, ReturnCompleted,
       StartSession, Message, EndSession, Raises, Killed, Moves, Fails, Returns, RecordEvent

LEMMA OwnHolds ==
    ASSUME ExecTypes, NEW x \in Executions, Step(x), Own(x)
    PROVE  Own(x)'
<1>1. CASE x \in Sessions
    <2> SUFFICES OwnSession(x)'
        BY <1>1 DEF Own
    <2>1. OwnSession(x)
        BY <1>1 DEF Own
    <2>2. CASE StartSession(x) \/ Message(x) \/ EndSession(x) \/ Raises(x) \/ Killed(x)
        BY <2>1, <2>2 DEF ExecTypes, OwnSession, Done, StartSession, Message,
           EndSession, Raises, Killed, Moves, Fails, Returns, Outcome, NoResult
    <2>3. CASE ~(StartSession(x) \/ Message(x) \/ EndSession(x) \/ Raises(x) \/ Killed(x))
        BY <1>1, <2>1, <2>3 DEF Step, OwnSession, Check, Announce, Complete, OpenFile,
           WriteFile, Tell, ReturnCompleted, Moves
    <2> QED
        BY <2>2, <2>3
<1>2. CASE x \notin Sessions
    <2> SUFFICES OwnCompletion(x)'
        BY <1>2 DEF Own
    <2>1. OwnCompletion(x) /\ events[x] \in Nat
        BY <1>2 DEF Own, ExecTypes
    <2>2. CASE Check(x)
        BY <2>1, <2>2 DEF ExecTypes, OwnCompletion, Done, Failed, Check, Moves, Fails,
           Returns, Outcome
    <2>3. CASE Announce(x)
        BY <2>1, <2>3 DEF ExecTypes, OwnCompletion, Done, Failed, Announce, Moves, RecordEvent
    <2>4. CASE Complete(x)
        BY <2>1, <2>4 DEF ExecTypes, OwnCompletion, Done, Failed, Complete, Moves, Fails,
           Returns, Outcome
    <2>5. CASE OpenFile(x) \/ WriteFile(x)
        BY <2>1, <2>5 DEF ExecTypes, OwnCompletion, Done, Failed, OpenFile, WriteFile, Moves
    <2>6. CASE Tell(x)
        BY <2>1, <2>6 DEF ExecTypes, OwnCompletion, Done, Failed, Tell, Moves, RecordEvent
    <2>9. CASE ReturnCompleted(x)
        BY <2>1, <2>9 DEF ExecTypes, OwnCompletion, ReturnCompleted, Returns
    <2>7. CASE Raises(x) \/ Killed(x)
        <3>1. phase'[x] = "ended" /\ events'[x] = events[x] /\ ~Done(x)'
            BY <2>7 DEF ExecTypes, Done, Raises, Killed, Fails, Returns, Outcome
        <3> QED
            BY <2>1, <3>1 DEF OwnCompletion
    <2>8. ~(StartSession(x) \/ Message(x) \/ EndSession(x))
        BY <1>2, <2>1 DEF OwnCompletion, StartSession, Message, EndSession, Moves
    <2> QED
        BY <2>2, <2>3, <2>4, <2>5, <2>6, <2>7, <2>8, <2>9 DEF Step
<1> QED
    BY <1>1, <1>2

\* An execution has its file from the answer on, and an end is an end.
LEMMA FileStays ==
    ASSUME ExecTypes, NEW x \in Executions, Step(x)
    PROVE  /\ phase[x] # "call" => FileOf(x)' = FileOf(x)
           /\ phase[x] # "ended"
           /\ events'[x] >= events[x] /\ events[x] \in Nat
<1>1. /\ phase[x] # "call" => day'[x] = day[x]
      /\ phase[x] # "ended"
    BY DEF ExecTypes, Step, Check, Announce, Complete, OpenFile, WriteFile, Tell, ReturnCompleted,
       StartSession, Message, EndSession, Raises, Killed, Moves
<1>2. events'[x] >= events[x] /\ events[x] \in Nat
    BY DEF ExecTypes, Step, Check, Announce, Complete, OpenFile, WriteFile, Tell, ReturnCompleted,
       StartSession, Message, EndSession, Raises, Killed, RecordEvent
<1> QED
    BY <1>1, <1>2 DEF FileOf

LEMMA OthersFiles ==
    ASSUME ExecTypes, NEW x \in Executions, Step(x), NEW z \in Executions, z # x
    PROVE  /\ FileOf(z)' = FileOf(z)
           /\ Failed(z)' = Failed(z)
           /\ Own(z)' = Own(z)
<1>1. /\ phase'[z] = phase[z] /\ day'[z] = day[z]
      /\ outcome'[z] = outcome[z] /\ events'[z] = events[z]
    BY OthersStay
<1> QED
    BY <1>1 DEF FileOf, Failed, Done, Own, OwnSession, OwnCompletion

\* What x does to the files.
LEMMA FilesMove ==
    ASSUME ExecInv, NEW x \in Executions, Step(x)
    PROVE  \/ /\ files' = files
              /\ phase'[x] \notin {"write", "tell"}
              /\ phase[x] = "write" => phase'[x] = "ended" /\ Failed(x)'
              /\ x \notin Sessions /\ events'[x] = 2 => phase[x] = "tell" \/ events[x] = 2
              /\ phase[x] = "tell" => phase'[x] \in {"return", "ended"}
              /\ phase[x] = "return" => phase'[x] = "ended"
           \/ /\ OpenFile(x) /\ phase[x] = "open" /\ phase'[x] = "write"
              /\ files' = [files EXCEPT ![FileOf(x)] = [there |-> TRUE, by |-> {}]]
              /\ events'[x] # 2 /\ x \notin Sessions
           \/ /\ WriteFile(x) /\ phase[x] = "write" /\ phase'[x] = "tell"
              /\ \E left \in {{}, files[FileOf(x)].by} :
                    files' = [files EXCEPT ![FileOf(x)].by = left \cup {x}]
              /\ events'[x] # 2 /\ x \notin Sessions
<1>1. Own(x) /\ ExecTypes
    BY DEF ExecInv
<1>2. CASE OpenFile(x)
    BY <1>1, <1>2 DEF ExecTypes, OpenFile, Moves, Own, OwnSession, OwnCompletion, Done
<1>3. CASE WriteFile(x)
    BY <1>1, <1>3 DEF ExecTypes, WriteFile, Moves, Own, OwnSession, OwnCompletion, Done
<1>4. CASE Check(x) \/ Announce(x) \/ Complete(x)
    <2>1. x \notin Sessions /\ phase[x] \in {"new", "log", "call"}
        BY <1>1, <1>4 DEF Check, Announce, Complete, Moves, Own, OwnSession
    <2>2. events'[x] \in {0, 1}
        BY <1>1, <1>4, <2>1 DEF ExecTypes, Own, OwnCompletion, Check, Announce, Complete,
           Moves, RecordEvent
    <2> QED
        BY <1>1, <1>4, <2>1, <2>2 DEF ExecTypes, Check, Announce, Complete, Moves, Fails, Returns
<1>7. CASE Tell(x) \/ ReturnCompleted(x)
    <2>1. x \notin Sessions
        BY <1>1, <1>7 DEF Tell, ReturnCompleted, Moves, Own, OwnSession
    <2> QED
        BY <1>1, <1>7, <2>1 DEF ExecTypes, Own, OwnCompletion, Tell, ReturnCompleted, Moves, Returns
<1>5. CASE StartSession(x) \/ Message(x) \/ EndSession(x)
    BY <1>1, <1>5 DEF ExecTypes, StartSession, Message, EndSession, Moves,
       Outcome, NoResult, Own, OwnSession, OwnCompletion, Done, Failed
<1>6. CASE Raises(x) \/ Killed(x)
    BY <1>1, <1>6 DEF ExecTypes, Raises, Killed, Fails, Returns,
       Outcome, Own, OwnSession, OwnCompletion, Done, Failed
<1> QED
    BY <1>2, <1>3, <1>4, <1>5, <1>6, <1>7 DEF Step

\* What the files say after a step of x.
LEMMA BytesHold ==
    ASSUME ExecInv, NEW x \in Executions, Step(x)
    PROVE  \A f \in Files : \A z \in files'[f].by : Wrote(f, z)'
<1> SUFFICES ASSUME NEW f \in Files, NEW z \in files'[f].by
             PROVE  Wrote(f, z)'
    OBVIOUS
<1>1. ExecTypes /\ Own(x) /\ FileOf(x) \in Files
    BY FileTyped DEF ExecInv
<1>2. \/ z \in files[f].by
      \/ z = x /\ f = FileOf(x) /\ WriteFile(x) /\ x \notin Sessions
    <2>1. CASE files' = files
        BY <2>1
    <2>2. CASE files' = [files EXCEPT ![FileOf(x)] = [there |-> TRUE, by |-> {}]]
        BY <1>1, <2>2 DEF ExecTypes
    <2>3. CASE WriteFile(x) /\ x \notin Sessions
        <3>1. PICK left \in {{}, files[FileOf(x)].by} :
                  files' = [files EXCEPT ![FileOf(x)].by = left \cup {x}]
            BY <2>3 DEF WriteFile
        <3>2. CASE f = FileOf(x)
            <4>1. files[f] \in [there : BOOLEAN, by : SUBSET Executions]
                BY DEF ExecInv, ExecTypes
            <4>2. files'[f].by = left \cup {x}
                BY <1>1, <3>1, <3>2, <4>1 DEF ExecTypes
            <4> QED
                BY <2>3, <3>1, <3>2, <4>2
        <3>3. CASE f # FileOf(x)
            BY <1>1, <3>1, <3>3 DEF ExecTypes
        <3> QED
            BY <3>2, <3>3
    <2> QED
        BY <2>1, <2>2, <2>3, FilesMove
<1>3. CASE z \in files[f].by
    <2>1. Wrote(f, z) /\ z \in Executions
        <3>1. files[f] \in [there : BOOLEAN, by : SUBSET Executions]
            BY DEF ExecInv, ExecTypes
        <3> QED
            BY <1>3, <3>1 DEF ExecInv
    <2>2. CASE z = x
        <3>1. phase[x] \in {"tell", "return"} /\ events[x] > 0 /\ x \notin Sessions /\ FileOf(x) = f
            BY <1>1, <2>1, <2>2, FileStays DEF Wrote
        <3>2. phase'[x] \in {"return", "ended"}
            BY <3>1, FilesMove
        <3>3. FileOf(x)' = f /\ events'[x] >= events[x] /\ events[x] \in Nat
            BY <1>1, <3>1, FileStays
        <3>4. events'[x] > 0
            <4>1. events'[x] \in Nat
                BY <1>1, StepTyped DEF ExecTypes
            <4> QED
                BY <3>1, <3>3, <4>1
        <3> QED
            BY <2>2, <3>1, <3>2, <3>3, <3>4 DEF Wrote
    <2>3. CASE z # x
        <3>1. /\ phase'[z] = phase[z] /\ events'[z] = events[z]
              /\ FileOf(z)' = FileOf(z)
            BY <1>1, <2>1, <2>3, OthersStay, OthersFiles
        <3> QED
            BY <2>1, <3>1 DEF Wrote
    <2> QED
        BY <2>2, <2>3
<1>4. CASE z = x /\ f = FileOf(x) /\ WriteFile(x) /\ x \notin Sessions
    <2>1. phase[x] = "write" /\ phase'[x] = "tell" /\ events'[x] = events[x]
        BY <1>1, <1>4 DEF WriteFile, Moves, ExecTypes
    <2>2. events[x] = 1 /\ FileOf(x)' = FileOf(x)
        BY <1>1, <1>4, <2>1, FileStays DEF Own, OwnCompletion
    <2> QED
        BY <1>4, <2>1, <2>2 DEF Wrote
<1> QED
    BY <1>2, <1>3, <1>4

\* An execution that has emptied a file goes on to write it, or fails.
LEMMA EmptiedStays ==
    ASSUME ExecInv, NEW x \in Executions, Step(x), files' = files,
           NEW z \in Executions \ Sessions, FileOf(z)' = FileOf(z),
           NEW y \in Executions \ Sessions, Emptied(z, y)
    PROVE  Emptied(z, y)'
<1>1. ExecTypes /\ Own(y)
    BY DEF ExecInv
<1>2. phase[y] # "call"
    BY <1>1 DEF Emptied, Own, OwnCompletion
<1>3. CASE y = x
    <2>1. phase[x] # "ended"
        BY <1>1, FileStays
    <2>2. phase[x] = "write"
        BY <1>1, <1>3, <2>1 DEF Emptied, Own, OwnCompletion
    <2>3. Failed(x)'
        <3>1. ~OpenFile(x) /\ (WriteFile(x) => phase'[x] = "tell")
            BY <2>2 DEF OpenFile, WriteFile, Moves, ExecInv, ExecTypes
        <3>2. ~WriteFile(x)
            <4> SUFFICES ASSUME WriteFile(x)
                         PROVE  FALSE
                OBVIOUS
            <4>1. PICK left \in {{}, files[FileOf(x)].by} :
                      files' = [files EXCEPT ![FileOf(x)].by = left \cup {x}]
                BY DEF WriteFile
            <4>2. FileOf(x) \in Files
                BY <1>1, FileTyped
            <4>3. files[FileOf(x)] \in [there : BOOLEAN, by : SUBSET Executions]
                BY <1>1, <4>2 DEF ExecTypes
            <4>4. files'[FileOf(x)].by = left \cup {x}
                BY <1>1, <4>1, <4>2, <4>3 DEF ExecTypes
            <4>5. x \in files[FileOf(x)].by
                BY <4>4
            <4>6. phase[x] \in {"tell", "return", "ended"}
                BY <4>2, <4>5 DEF ExecInv, Wrote
            <4> QED
                BY <2>2, <4>6
        <3> QED
            BY <2>2, <3>1, <3>2, FilesMove
    <2>4. FileOf(y)' = FileOf(y)
        BY <1>1, <1>2, <1>3, FileStays
    <2> QED
        BY <1>3, <2>3, <2>4 DEF Emptied
<1>4. CASE y # x
    <2>1. phase'[y] = phase[y] /\ FileOf(y)' = FileOf(y) /\ Failed(y)' = Failed(y)
        BY <1>1, <1>4, OthersStay, OthersFiles
    <2> QED
        BY <2>1 DEF Emptied
<1> QED
    BY <1>3, <1>4

\* Of another execution, whose file x leaves alone.
LEMMA KeptElsewhere ==
    ASSUME ExecInv, NEW x \in Executions, Step(x),
           NEW z \in Executions \ Sessions, z # x,
           FileOf(z) # FileOf(x), phase[x] # "call", Document(z)' = Document(z)
    PROVE  Kept(z)'
<1>1. ExecTypes /\ Kept(z)
    BY DEF ExecInv
<1>2. phase'[z] = phase[z] /\ FileOf(z)' = FileOf(z) /\ events'[z] = events[z]
    BY <1>1, OthersStay, OthersFiles
<1>3. ASSUME NEW y \in Executions \ Sessions, Emptied(z, y)
      PROVE  Emptied(z, y)'
    <2>1. y # x
        BY <1>3 DEF Emptied
    <2>2. phase'[y] = phase[y] /\ FileOf(y)' = FileOf(y) /\ Failed(y)' = Failed(y)
        BY <1>1, <2>1, OthersStay, OthersFiles
    <2> QED
        BY <1>2, <1>3, <2>2 DEF Emptied
<1> QED
    BY <1>1, <1>2, <1>3 DEF Kept

LEMMA KeptHolds ==
    ASSUME ExecInv, NEW x \in Executions, Step(x), NEW z \in Executions \ Sessions
    PROVE  Kept(z)'
<1>1. ExecTypes /\ Kept(z) /\ FileOf(x) \in Files /\ FileOf(z) \in Files
    BY FileTyped DEF ExecInv
<1>2. z # x => /\ phase'[z] = phase[z] /\ FileOf(z)' = FileOf(z)
               /\ events'[z] = events[z]
    BY <1>1, OthersStay, OthersFiles
<1>3. phase[x] # "call" => FileOf(x)' = FileOf(x)
    BY <1>1, FileStays
<1>4. CASE /\ files' = files
           /\ phase'[x] \notin {"write", "tell"}
           /\ x \notin Sessions /\ events'[x] = 2 => phase[x] = "tell" \/ events[x] = 2
    <2> SUFFICES ASSUME phase'[z] \in {"write", "tell"} \/ events'[z] = 2
                 PROVE  Kept(z)'
        BY DEF Kept
    <2>1. /\ FileOf(z)' = FileOf(z)
          /\ phase'[z] = "write" => phase[z] = "write"
          /\ phase'[z] = "tell" \/ events'[z] = 2 => phase[z] = "tell" \/ events[z] = 2
        <3>1. CASE z = x
            <4>1. phase[x] # "call"
                BY <1>4, <3>1 DEF ExecInv, Own, OwnCompletion
            <4> QED
                BY <1>3, <1>4, <3>1, <4>1
        <3>2. CASE z # x
            BY <1>2, <3>2
        <3> QED
            BY <3>1, <3>2
    <2>2. Document(z)' = Document(z)
        BY <1>4, <2>1 DEF Document
    <2>3. ASSUME NEW y \in Executions \ Sessions, Emptied(z, y)
          PROVE  Emptied(z, y)'
        BY <1>4, <2>1, <2>3, EmptiedStays
    <2> QED
        BY <1>1, <2>1, <2>2, <2>3 DEF Kept
<1>5. CASE /\ OpenFile(x) /\ phase[x] = "open" /\ phase'[x] = "write"
           /\ files' = [files EXCEPT ![FileOf(x)] = [there |-> TRUE, by |-> {}]]
           /\ events'[x] # 2 /\ x \notin Sessions
    <2>1. files'[FileOf(x)] = [there |-> TRUE, by |-> {}]
        BY <1>1, <1>5 DEF ExecTypes
    <2>2. FileOf(x)' = FileOf(x)
        BY <1>3, <1>5
    <2>3. CASE z = x
        <3>1. Document(z)'.there
            BY <2>1, <2>2, <2>3 DEF Document
        <3> QED
            BY <1>5, <2>3, <3>1 DEF Kept
    <2>4. CASE z # x /\ FileOf(z) = FileOf(x)
        <3>1. Document(z)'.there
            BY <1>2, <2>1, <2>4 DEF Document
        <3>2. Emptied(z, x)'
            BY <1>2, <1>5, <2>2, <2>4 DEF Emptied
        <3> QED
            BY <1>5, <3>1, <3>2 DEF Kept
    <2>5. CASE z # x /\ FileOf(z) # FileOf(x)
        <3>1. Document(z)' = Document(z)
            BY <1>1, <1>2, <1>5, <2>5 DEF Document, ExecTypes
        <3> QED
            BY <1>5, <2>5, <3>1, KeptElsewhere
    <2> QED
        BY <2>3, <2>4, <2>5
<1>6. CASE /\ WriteFile(x) /\ phase[x] = "write" /\ phase'[x] = "tell"
           /\ \E left \in {{}, files[FileOf(x)].by} :
                 files' = [files EXCEPT ![FileOf(x)].by = left \cup {x}]
           /\ events'[x] # 2 /\ x \notin Sessions
    <2>1. PICK left \in {{}, files[FileOf(x)].by} :
              files' = [files EXCEPT ![FileOf(x)].by = left \cup {x}]
        BY <1>6
    <2>2. files[FileOf(x)] \in [there : BOOLEAN, by : SUBSET Executions]
        BY <1>1 DEF ExecTypes
    <2>3. /\ files'[FileOf(x)].by = left \cup {x}
          /\ files'[FileOf(x)].there = files[FileOf(x)].there
        BY <1>1, <2>1, <2>2 DEF ExecTypes
    <2>4. FileOf(x)' = FileOf(x) /\ files[FileOf(x)].there
        BY <1>3, <1>6 DEF ExecInv, Kept, Document
    <2>5. CASE FileOf(z) = FileOf(x)
        <3>1. FileOf(z)' = FileOf(x)
            BY <1>2, <2>4, <2>5
        <3>2. Document(z)'.there /\ Document(z)'.by # {}
            BY <2>3, <2>4, <3>1 DEF Document
        <3> QED
            BY <3>2 DEF Kept
    <2>6. CASE FileOf(z) # FileOf(x)
        <3>1. z # x
            BY <2>6
        <3>2. Document(z)' = Document(z)
            BY <1>1, <1>2, <2>1, <2>6, <3>1 DEF Document, ExecTypes
        <3> QED
            BY <1>6, <2>6, <3>1, <3>2, KeptElsewhere
    <2> QED
        BY <2>5, <2>6
<1> QED
    BY <1>4, <1>5, <1>6, FilesMove

\* What executions have to show for themselves, and what files for theirs.
THEOREM ExecInvariant == ExecSpec => []ExecInv
<1>1. ExecInv /\ [ExecNext]_execVars => ExecInv'
    <2> SUFFICES ASSUME ExecInv, [ExecNext]_execVars
                 PROVE  ExecInv'
        OBVIOUS
    <2>1. ASSUME NEW x \in Executions, Step(x)
          PROVE  ExecInv'
        <3>1. ExecTypes'
            BY <2>1, StepTyped DEF ExecInv
        <3>2. \A z \in Executions : Own(z)'
            <4> SUFFICES ASSUME NEW z \in Executions
                         PROVE  Own(z)'
                OBVIOUS
            <4>1. CASE z = x
                BY <2>1, <4>1, OwnHolds DEF ExecInv
            <4>2. CASE z # x
                BY <2>1, <4>2, OthersFiles DEF ExecInv
            <4> QED
                BY <4>1, <4>2
        <3>3. \A f \in Files : \A z \in files'[f].by : Wrote(f, z)'
            BY <2>1, BytesHold
        <3>4. \A z \in Executions \ Sessions : Kept(z)'
            BY <2>1, KeptHolds
        <3> QED
            BY <3>1, <3>2, <3>3, <3>4 DEF ExecInv, Files
    <2>2. CASE Midnight \/ UNCHANGED execVars
        <3>1. UNCHANGED <<files, phase, day, outcome, freely, events>>
            BY <2>2 DEF Midnight, execVars
        <3>2. ExecTypes'
            <4>1. today' \in 0 .. Days
                BY <2>2, ExecutorsAssumption DEF Midnight, execVars, ExecInv, ExecTypes
            <4> QED
                BY <3>1, <4>1 DEF ExecInv, ExecTypes
        <3> QED
            BY <3>1, <3>2 DEF ExecInv, Own, OwnSession, OwnCompletion, Wrote, Kept, Emptied,
               Document, FileOf, Done, Failed
    <2> QED
        BY <2>1, <2>2 DEF ExecNext, Step
<1> QED
    BY <1>1, ExecInitHolds, PTL DEF ExecSpec

LEMMA DocumentKept ==
    ASSUME ExecInv, NEW x \in Executions \ Sessions, events[x] = 2
    PROVE  OnDisk(x)
    BY DEF ExecInv, Kept, OnDisk, Emptied, Failed

\* A completed execution has the answer of its session, or a document on disk,
\* which another execution has emptied if nothing is in it.
THEOREM CompletionIsEarned == ExecSpec => []CompletedIsEarned
<1>1. ExecInv => CompletedIsEarned
    <2> SUFFICES ASSUME ExecInv, NEW x \in Executions,
                        phase[x] = "ended", outcome[x].status = "completed"
                 PROVE  IF x \in Sessions THEN outcome[x].cost_usd = "some" ELSE OnDisk(x)
        BY DEF CompletedIsEarned
    <2>1. CASE x \in Sessions
        BY <2>1 DEF ExecInv, Own, OwnSession, Done
    <2>2. CASE x \notin Sessions
        <3>1. events[x] = 2
            BY <2>2 DEF ExecInv, Own, OwnCompletion, Done
        <3> QED
            BY <2>2, <3>1, DocumentKept
    <2> QED
        BY <2>1, <2>2
<1> QED
    BY <1>1, ExecInvariant, PTL

\* What is in a document is of executions whose start is recorded, a completed
\* one has both its events, and one whose message is recorded has its document,
\* also when it failed or was killed before it returned.
THEOREM TrailIsTrue == ExecSpec => []TrailTellsDocuments
<1>1. ExecInv => TrailTellsDocuments
    <2> SUFFICES ASSUME ExecInv, NEW x \in Executions \ Sessions
                 PROVE  /\ x \in Document(x).by => events[x] > 0
                        /\ outcome[x].status = "completed" => events[x] = 2
                        /\ events[x] = 2 => OnDisk(x)
        BY DEF TrailTellsDocuments
    <2>1. ASSUME x \in Document(x).by
          PROVE  events[x] > 0
        <3>1. FileOf(x) \in Files
            BY FileTyped DEF ExecInv
        <3> QED
            BY <2>1, <3>1 DEF ExecInv, Wrote, Document
    <2>2. outcome[x].status = "completed" => events[x] = 2
        BY DEF ExecInv, Own, OwnCompletion, Done
    <2> QED
        BY <2>1, <2>2, DocumentKept
<1> QED
    BY <1>1, ExecInvariant, PTL

=============================================================================
