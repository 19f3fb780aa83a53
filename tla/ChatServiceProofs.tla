------------------------- MODULE ChatServiceProofs -------------------------
(***************************************************************************)
(* Proofs about ChatService, for any number of conversations and requests, *)
(* any budget of tool calls and replies of any length.                     *)
(***************************************************************************)
EXTENDS ChatService, TLAPS

-----------------------------------------------------------------------------
\* The inductive invariant.

Before == {"new", "route", "ask", "read"}

\* A reply is being received or dealt with, and has no row yet.
Talking == {"wait", "save", "tool", "stream", "yield", "last"}

HasRead(q) == calls[q] > 0 \/ pc[q] = "call"

\* Where a request is, and what it has in hand there.
LocalOK ==
    \A q \in Requests :
        /\ pc[q] \in Before => calls[q] = 0
        /\ pc[q] \in Before \cup {"call", "tool", "wait", "save"} => parts[q] = 0
        /\ pc[q] = "stream" /\ verdict[q] # "plain" => parts[q] = 0
        /\ pc[q] = "yield" => verdict[q] = "plain"
        /\ pc[q] \in Talking \/ parts[q] > 0 \/ outcome[q] = "ok" => calls[q] >= 1
        /\ pc[q] \in {"call", "tool"} => calls[q] <= MaxToolCalls
        /\ pc[q] \in {"wait", "save"} => q \notin Streams
        /\ pc[q] \in {"stream", "yield", "last", "final"} => q \in Streams
        /\ parts[q] \in {shown[q], shown[q] + 1}
        /\ pc[q] \in {"yield", "last"} => parts[q] = shown[q] + 1
        /\ pc[q] \notin {"yield", "last", "final", "ended"} \/ outcome[q] = "ok"
               => parts[q] = shown[q]
        /\ pc[q] \notin {"final", "ended"} => outcome[q] = "pending"
        /\ pc[q] \in Active \/ calls[q] > 0 => life[Of[q]] # "unborn"

\* What a row says of the request behind it.
RowOK(m) ==
    /\ m.id < serial
    /\ IsOpen(m.req)
    /\ pc[m.req] \notin {"new", "route", "ask"}
    /\ m.nth <= calls[m.req]
    /\ m.role = "user" => m.nth = 0
    /\ m.role = "tool" =>
          /\ m.nth \in 1 .. MaxToolCalls
          /\ pc[m.req] \in Talking \/ parts[m.req] > 0 => m.nth < calls[m.req]
    /\ m.role = "assistant" =>
          /\ pc[m.req] = "ended"
          /\ m.nth = calls[m.req] /\ m.nth >= 1
          /\ m.pieces = parts[m.req]
          /\ m.cut <=> outcome[m.req] # "ok"

RowsOK == \A m \in messages : RowOK(m)

\* No request to the provider has two rows.
CountedOnce ==
    \A m, n \in messages :
        m.req = n.req /\ m.role # "user" /\ n.role # "user" /\ m.nth = n.nth => m = n

Logged(q, k) == \A n \in 1 .. k : \E m \in Counted(q) : m.nth = n

\* What must be in the log of a request while the conversation is there.
Complete(q) ==
    /\ pc[q] \in {"read", "call", "final"} \cup Talking \/ calls[q] > 0
           => Question(q) # {}
    /\ pc[q] = "call" => Logged(q, calls[q])
    /\ pc[q] \in Talking \/ (pc[q] = "final" /\ outcome[q] = "ok")
           => Logged(q, calls[q] - 1)
    /\ pc[q] = "ended" /\ outcome[q] = "ok" => Logged(q, calls[q])
    /\ q \in Streams /\ pc[q] = "ended" /\ parts[q] > 0 /\ outcome[q] # "unsaved"
           => AnswerTo(q) # {}

LogOK == \A q \in Requests : IsOpen(q) => Complete(q)

ReadersMeet ==
    \A p, q \in Requests :
        Of[p] = Of[q] /\ IsOpen(p) /\ HasRead(p) /\ HasRead(q)
        => \/ \E m \in Question(p) : m.id \in history[q]
           \/ \E m \in Question(q) : m.id \in history[p]

\* An open insert has an id of its own, above those of the request's rows.
TicketsOK ==
    \A q \in Requests : ticket[q] # 0 =>
        /\ ticket[q] < serial
        /\ IsOpen(q)
        /\ \A p \in Requests \ {q} : ticket[p] # ticket[q]
        /\ \A m \in messages : m.id # ticket[q] /\ (m.req = q => m.id < ticket[q])

ChatInv == /\ ChatTypeOK /\ LocalOK /\ RowsOK
           /\ CountedOnce /\ TicketsOK /\ LogOK /\ ReadersMeet

-----------------------------------------------------------------------------

LEMMA ChatInitInv == ChatInit => ChatInv
BY ChatAssumption
   DEF ChatInit, ChatInv, ChatTypeOK, LocalOK, RowsOK, CountedOnce, TicketsOK, LogOK,
       ReadersMeet, Complete, Before, Talking, Active, InTry, Outcomes, Failures, Message,
       Conversation, HasRead, IsOpen

\* What a request does without changing what others can see of the database.
Quiet(q) == \/ Insert(q) \/ Open(q) \/ Route(q) \/ Read(q) \/ Request(q) \/ Reply(q)
            \/ Delta(q) \/ ErrorEvent(q) \/ Taken(q) \/ EndPlain(q) \/ EndTool(q)
            \/ EndHeld(q) \/ Breaks(q) \/ Disconnect(q)

\* The handler is left, by way of the finally block or not.
LEMMA LeaveTypes ==
    ASSUME ChatTypeOK, NEW q \in Requests, NEW o \in Outcomes,
           Leave(q, o) \/ LeaveUnsaved(q, o)
    PROVE  /\ pc' \in [Requests -> {"new", "ended"} \cup Active]
           /\ outcome' \in [Requests -> Outcomes]
<1>1. pc \in [Requests -> {"new", "ended"} \cup Active] /\ outcome \in [Requests -> Outcomes]
  BY DEF ChatTypeOK
<1> QED
  BY <1>1 DEF Leave, LeaveUnsaved, Active

LEMMA TypeStep ==
    ASSUME ChatTypeOK, LocalOK, [ChatNext]_chatVars
    PROVE  ChatTypeOK'
<1> USE ChatAssumption DEF ChatTypeOK, dbVars, textVars, EndTransaction
<1>1. ASSUME NEW c \in Conversations, Create(c) \/ Delete(c)
      PROVE  ChatTypeOK'
  BY <1>1 DEF Create, Delete, Conversation
<1>12. ASSUME NEW q \in Requests, Insert(q)
       PROVE  ChatTypeOK'
  BY <1>12 DEF Insert
<1>2. ASSUME NEW q \in Requests, Open(q) \/ Route(q) \/ Reply(q) \/ EndPlain(q)
                                 \/ EndTool(q) \/ Breaks(q) \/ Disconnect(q)
      PROVE  ChatTypeOK'
  <2>1. \A o \in Failures \cup {"not_found", "refused", "ok", "gone", "unsaved", "internal"} :
           o \in Outcomes
    BY DEF Outcomes, Failures
  <2>2. CASE \E to \in Active : Goto(q, pc[q], to) /\ UNCHANGED outcome
    BY <2>2, <1>2 DEF Goto, Open, Route, Reply, EndPlain, EndTool, Breaks, Disconnect
  <2>3. CASE \E o \in Outcomes : Leave(q, o) \/ LeaveUnsaved(q, o)
    BY <2>3, <1>2, LeaveTypes
       DEF Open, Route, Reply, EndPlain, EndTool, Breaks, Disconnect
  <2>4. CASE Open(q) \/ Route(q) \/ Reply(q) \/ EndTool(q)
    <3>1. \/ \E to \in {"route", "ask", "save", "tool"} :
                Goto(q, pc[q], to) /\ UNCHANGED outcome
          \/ \E o \in Outcomes : Leave(q, o)
      BY <2>4, <2>1 DEF Open, Route, Reply, EndTool, Goto
    <3> QED
      BY <3>1, <2>2, <2>3 DEF Active, InTry
  <2>5. CASE EndPlain(q) \/ Breaks(q) \/ Disconnect(q)
    BY <2>5, <2>1, <2>3 DEF EndPlain, Breaks, Disconnect
  <2> QED
    BY <1>2, <2>4, <2>5
<1>3. ASSUME NEW q \in Requests, Read(q)
      PROVE  ChatTypeOK'
  <2>1. {m.id : m \in {n \in Conversation(Of[q]) : n.role # "tool"}} \in SUBSET Nat
    BY DEF Conversation, Message
  <2> QED
    BY <1>3, <2>1 DEF Read, Goto, Active, InTry
<1>4. ASSUME NEW q \in Requests, Request(q)
      PROVE  ChatTypeOK'
  BY <1>4 DEF Request, Goto, Leave, Active, InTry, Outcomes, Failures, LocalOK
<1>5. ASSUME NEW q \in Requests, Delta(q) \/ ErrorEvent(q) \/ Taken(q) \/ EndHeld(q)
      PROVE  ChatTypeOK'
  <2>1. CASE Delta(q)
    BY <2>1 DEF Delta, Goto, Emit, Active, InTry
  <2>2. CASE ErrorEvent(q)
    BY <2>2 DEF ErrorEvent
  <2>3. CASE Taken(q)
    BY <2>3, LeaveTypes DEF Taken, Goto, Active, InTry, Outcomes
  <2>4. CASE EndHeld(q)
    BY <2>4 DEF EndHeld, Goto, Emit, Active, InTry
  <2> QED
    BY <1>5, <2>1, <2>2, <2>3, <2>4
<1>6. ASSUME NEW q \in Requests, NEW role \in {"user", "tool", "assistant"},
             NEW cut \in BOOLEAN, AppendRow(q, role, cut)
      PROVE  /\ messages' \subseteq Message /\ ticket' \in [Requests -> Nat]
             /\ UNCHANGED <<life, serial>>
  BY <1>6 DEF AppendRow, Message
<1>7. ASSUME NEW q \in Requests, Ask(q)
      PROVE  ChatTypeOK'
  BY <1>7, <1>6 DEF Ask, Goto, Active, InTry
<1>8. ASSUME NEW q \in Requests, NEW result \in ToolResults, ToolRound(q, result)
      PROVE  ChatTypeOK'
  BY <1>8, <1>6 DEF ToolRound, Goto, Leave, Active, InTry, Outcomes, Failures
<1>9. ASSUME NEW q \in Requests, Save(q)
      PROVE  ChatTypeOK'
  BY <1>9, <1>6 DEF Save, Leave, Active, InTry, Outcomes
<1>10. ASSUME NEW q \in Requests, Final(q)
       PROVE  ChatTypeOK'
  BY <1>10, <1>6 DEF Final, LeaveUnsaved, Outcomes
<1>11. CASE UNCHANGED chatVars
  BY <1>11 DEF chatVars
<1> QED
  BY <1>1, <1>2, <1>3, <1>4, <1>5, <1>7, <1>8, <1>9, <1>10, <1>11, <1>12 DEF ChatNext, Handle

-----------------------------------------------------------------------------

LEMMA LocalStep ==
    ASSUME ChatTypeOK, LocalOK, [ChatNext]_chatVars
    PROVE  LocalOK'
<1> USE ChatAssumption DEF LocalOK, dbVars, textVars
<1>1. ASSUME NEW c \in Conversations, Create(c) \/ Delete(c)
      PROVE  LocalOK'
  BY <1>1 DEF Create, Delete, ChatTypeOK
<1>2. ASSUME NEW q \in Requests, Open(q)
      PROVE  LocalOK'
  BY <1>2 DEF Open, Goto, Leave, Before, Talking, Active, InTry, ChatTypeOK, IsOpen
<1>3. ASSUME NEW q \in Requests, Route(q)
      PROVE  LocalOK'
  BY <1>3 DEF Route, Goto, Leave, Before, Talking, Active, InTry, ChatTypeOK
<1>4. ASSUME NEW q \in Requests, Ask(q)
      PROVE  LocalOK'
  BY <1>4 DEF Ask, AppendRow, Goto, Before, Talking, Active, InTry, ChatTypeOK
<1>5. ASSUME NEW q \in Requests, Read(q)
      PROVE  LocalOK'
  BY <1>5 DEF Read, Goto, Before, Talking, Active, InTry, ChatTypeOK
<1>6. ASSUME NEW q \in Requests, Request(q)
      PROVE  LocalOK'
  BY <1>6 DEF Request, Goto, Leave, Before, Talking, Active, InTry, ChatTypeOK, Failures
<1>7. ASSUME NEW q \in Requests, Reply(q)
      PROVE  LocalOK'
  BY <1>7 DEF Reply, Goto, Leave, Before, Talking, Active, InTry, ChatTypeOK, Failures, BudgetLeft
<1>8. ASSUME NEW q \in Requests, NEW result \in ToolResults, ToolRound(q, result)
      PROVE  LocalOK'
  BY <1>8 DEF ToolRound, AppendRow, Goto, Leave, Before, Talking, Active, InTry, ChatTypeOK
<1>9. ASSUME NEW q \in Requests, Save(q)
      PROVE  LocalOK'
  BY <1>9 DEF Save, AppendRow, Leave, Before, Talking, Active, InTry, ChatTypeOK
<1>10. ASSUME NEW q \in Requests, Delta(q)
       PROVE  LocalOK'
  BY <1>10 DEF Delta, Goto, Emit, Before, Talking, Active, InTry, ChatTypeOK
<1>11. ASSUME NEW q \in Requests, ErrorEvent(q)
       PROVE  LocalOK'
  BY <1>11 DEF ErrorEvent
<1>12. ASSUME NEW q \in Requests, Taken(q)
       PROVE  LocalOK'
  BY <1>12 DEF Taken, Goto, Leave, Before, Talking, Active, InTry, ChatTypeOK
<1>13. ASSUME NEW q \in Requests, EndPlain(q)
       PROVE  LocalOK'
  BY <1>13 DEF EndPlain, Leave, Before, Talking, Active, InTry, ChatTypeOK
<1>14. ASSUME NEW q \in Requests, EndTool(q)
       PROVE  LocalOK'
  BY <1>14 DEF EndTool, Undecided, BudgetLeft, Goto, Before, Talking, Active, InTry, ChatTypeOK
<1>15. ASSUME NEW q \in Requests, EndHeld(q)
       PROVE  LocalOK'
  BY <1>15 DEF EndHeld, Undecided, Emit, Goto, Before, Talking, Active, InTry, ChatTypeOK
<1>16. ASSUME NEW q \in Requests, Final(q)
       PROVE  LocalOK'
  BY <1>16 DEF Final, AppendRow, LeaveUnsaved, Before, Talking, Active, InTry, ChatTypeOK
<1>17. ASSUME NEW q \in Requests, Breaks(q)
       PROVE  LocalOK'
  BY <1>17 DEF Breaks, Leave, LeaveUnsaved, Before, Talking, Active, InTry, ChatTypeOK
<1>18. ASSUME NEW q \in Requests, Disconnect(q)
       PROVE  LocalOK'
  BY <1>18 DEF Disconnect, Leave, Before, Talking, Active, InTry, ChatTypeOK
<1>19. CASE UNCHANGED chatVars
  BY <1>19 DEF chatVars
<1>20. ASSUME NEW q \in Requests, Insert(q)
       PROVE  LocalOK'
  BY <1>20 DEF Insert
<1> QED
  BY <1>1, <1>2, <1>3, <1>4, <1>5, <1>6, <1>7, <1>8, <1>9, <1>10, <1>11, <1>12,
     <1>13, <1>14, <1>15, <1>16, <1>17, <1>18, <1>19, <1>20 DEF ChatNext, Handle

-----------------------------------------------------------------------------
\* Rows.  A quiet step touches none; an appended row is new in its place.

LEMMA QuietRows ==
    ASSUME ChatTypeOK, LocalOK, RowsOK, NEW q \in Requests, Quiet(q)
    PROVE  /\ RowsOK'
           /\ UNCHANGED <<life, messages>>
<1> USE ChatAssumption DEF RowsOK, RowOK, LocalOK, dbVars, textVars, ChatTypeOK, Message,
        IsOpen, Talking, Active, InTry
<1>1. CASE Open(q)
  BY <1>1 DEF Open, Goto, Leave
<1>2. CASE Route(q)
  BY <1>2 DEF Route, Goto, Leave
<1>3. CASE Read(q)
  BY <1>3 DEF Read, Goto
<1>4. CASE Request(q)
  BY <1>4 DEF Request, Goto, Leave
<1>5. CASE Reply(q)
  BY <1>5 DEF Reply, Goto, Leave
<1>6. CASE Delta(q)
  BY <1>6 DEF Delta, Goto, Emit
<1>7. CASE ErrorEvent(q)
  BY <1>7 DEF ErrorEvent
<1>8. CASE Taken(q)
  BY <1>8 DEF Taken, Goto, Leave
<1>9. CASE EndPlain(q)
  BY <1>9 DEF EndPlain, Leave
<1>10. CASE EndTool(q)
  BY <1>10 DEF EndTool, Undecided, Goto
<1>11. CASE EndHeld(q)
  BY <1>11 DEF EndHeld, Undecided, Goto, Emit
<1>12. CASE Breaks(q)
  BY <1>12 DEF Breaks, Leave, LeaveUnsaved
<1>13. CASE Disconnect(q)
  BY <1>13 DEF Disconnect, Leave
<1>14. CASE Insert(q)
  BY <1>14 DEF Insert
<1> QED
  BY <1>1, <1>2, <1>3, <1>4, <1>5, <1>6, <1>7, <1>8, <1>9, <1>10, <1>11, <1>12, <1>13, <1>14
     DEF Quiet

\* The row that a request appends.
RowOf(q, role, cut) == [id |-> ticket[q], req |-> q, role |-> role, nth |-> calls[q],
                        cut |-> cut, pieces |-> parts[q]]

LEMMA AppendRows ==
    ASSUME ChatTypeOK, LocalOK, RowsOK, CountedOnce,
           NEW q \in Requests, NEW role, NEW cut, AppendRow(q, role, cut),
           role # "user" => pc[q] \in Talking \/ parts[q] > 0,
           role # "user" => pc[q] # "ended"
    PROVE  CountedOnce'
<1>1. messages' = messages \cup {RowOf(q, role, cut)}
  BY DEF AppendRow, RowOf
<1>2. /\ RowOf(q, role, cut).req = q
      /\ RowOf(q, role, cut).role = role
      /\ RowOf(q, role, cut).nth = calls[q]
  BY DEF RowOf
<1>3. ASSUME role # "user"
      PROVE  \A m \in messages : m.req = q /\ m.role # "user" => m.nth # calls[q]
  <2>1. calls[q] \in Nat
    BY DEF ChatTypeOK
  <2>2. \A m \in messages : m.role \in {"user", "tool", "assistant"}
    BY DEF ChatTypeOK, Message
  <2> QED
    BY <1>3, <2>1, <2>2 DEF RowsOK, RowOK
<1> QED
  BY <1>1, <1>2, <1>3 DEF CountedOnce

LEMMA RowsStep ==
    ASSUME ChatTypeOK, LocalOK, RowsOK, CountedOnce, TicketsOK, [ChatNext]_chatVars
    PROVE  RowsOK' /\ CountedOnce'
<1> USE ChatAssumption DEF ChatTypeOK, Message, IsOpen, Active, InTry, Talking, dbVars, textVars
<1>1. ASSUME NEW c \in Conversations, Create(c)
      PROVE  RowsOK' /\ CountedOnce'
  BY <1>1 DEF Create, RowsOK, RowOK, CountedOnce
<1>2. ASSUME NEW c \in Conversations, Delete(c)
      PROVE  RowsOK' /\ CountedOnce'
  BY <1>2 DEF Delete, Conversation, RowsOK, RowOK, CountedOnce
<1>3. ASSUME NEW q \in Requests, Quiet(q)
      PROVE  RowsOK' /\ CountedOnce'
  BY <1>3, QuietRows DEF CountedOnce
<1>4. ASSUME NEW q \in Requests, Ask(q)
      PROVE  RowsOK' /\ CountedOnce'
  <2>1. CountedOnce'
    BY <1>4, AppendRows DEF Ask
  <2>2. /\ messages' = messages \cup {RowOf(q, "user", FALSE)}
        /\ UNCHANGED <<serial, life>> /\ IsOpen(q) /\ ticket[q] < serial
        /\ pc[q] = "ask" /\ pc' = [pc EXCEPT ![q] = "read"]
        /\ UNCHANGED <<outcome, calls, parts>>
    BY <1>4 DEF Ask, AppendRow, Goto, RowOf, TicketsOK
  <2>3. RowsOK'
    BY <2>2 DEF RowOf, RowsOK, RowOK, LocalOK, Before
  <2> QED
    BY <2>1, <2>3
<1>5. ASSUME NEW q \in Requests, NEW result \in ToolResults, ToolRound(q, result)
      PROVE  RowsOK' /\ CountedOnce'
  <2>1. CASE result = "fits"
    <3>1. CountedOnce'
      BY <1>5, <2>1, AppendRows DEF ToolRound
    <3>2. RowsOK'
      <4>1. /\ messages' = messages \cup {RowOf(q, "tool", FALSE)}
            /\ UNCHANGED <<serial, life>>
            /\ pc' = [pc EXCEPT ![q] = "call"]
            /\ UNCHANGED <<outcome, calls, parts>>
        BY <1>5, <2>1 DEF ToolRound, AppendRow, Goto, RowOf
      <4>2. pc[q] = "tool" /\ IsOpen(q) /\ ticket[q] < serial
        BY <1>5, <2>1 DEF ToolRound, AppendRow, TicketsOK
      <4>3. ASSUME NEW m \in messages
            PROVE  RowOK(m)'
        BY <4>1, <4>2, <4>3 DEF RowsOK, RowOK, LocalOK
      <4>4. ASSUME NEW m, m = RowOf(q, "tool", FALSE)
            PROVE  RowOK(m)'
        BY <4>1, <4>2, <4>4 DEF RowOf, RowOK, LocalOK
      <4> QED
        BY <4>1, <4>3, <4>4 DEF RowsOK
    <3> QED
      BY <3>1, <3>2
  <2>2. CASE result # "fits"
    <3>1. CountedOnce'
      BY <1>5, <2>2 DEF ToolRound, CountedOnce
    <3>2. RowsOK'
      <4>1. /\ UNCHANGED <<messages, serial, life, calls, parts>>
            /\ pc[q] = "tool"
            /\ \E to \in {"final", "ended"} : pc' = [pc EXCEPT ![q] = to]
            /\ outcome' = [outcome EXCEPT ![q] = "internal"]
        BY <1>5, <2>2 DEF ToolRound, Leave
      <4> QED
        BY <4>1 DEF RowsOK, RowOK, LocalOK
    <3> QED
      BY <3>1, <3>2
  <2> QED
    BY <2>1, <2>2
<1>6. ASSUME NEW q \in Requests, Save(q)
      PROVE  RowsOK' /\ CountedOnce'
  <2>1. CountedOnce'
    BY <1>6, AppendRows DEF Save
  <2>2. RowsOK'
    BY <1>6 DEF Save, AppendRow, Leave, RowsOK, RowOK, LocalOK, TicketsOK
  <2> QED
    BY <2>1, <2>2
<1>7. ASSUME NEW q \in Requests, Final(q)
      PROVE  RowsOK' /\ CountedOnce'
  <2>1. CASE parts[q] > 0
    <3>1. CountedOnce'
      BY <1>7, <2>1, AppendRows DEF Final
    <3>2. RowsOK'
      <4>1. /\ messages' = messages \cup {RowOf(q, "assistant", outcome[q] # "ok")}
            /\ UNCHANGED <<serial, life>>
            /\ pc' = [pc EXCEPT ![q] = "ended"]
            /\ UNCHANGED <<outcome, calls, parts>>
        BY <1>7, <2>1 DEF Final, AppendRow, LeaveUnsaved, RowOf
      <4>2. pc[q] = "final" /\ IsOpen(q) /\ ticket[q] < serial
        BY <1>7, <2>1 DEF Final, AppendRow, TicketsOK
      <4>3. ASSUME NEW m \in messages
            PROVE  RowOK(m)'
        BY <2>1, <4>1, <4>2, <4>3 DEF RowsOK, RowOK
      <4>4. ASSUME NEW m, m = RowOf(q, "assistant", outcome[q] # "ok")
            PROVE  RowOK(m)'
        <5>1. /\ m.id = ticket[q] /\ m.req = q /\ m.role = "assistant"
              /\ m.nth = calls[q] /\ m.pieces = parts[q]
          BY <4>4 DEF RowOf
        <5>2. m.cut <=> outcome[q] # "ok"
          BY <4>4 DEF RowOf
        <5>3. calls[q] >= 1
          BY <2>1 DEF LocalOK
        <5> QED
          BY <4>1, <4>2, <5>1, <5>2, <5>3 DEF RowOK
      <4> QED
        BY <4>1, <4>3, <4>4 DEF RowsOK
    <3> QED
      BY <3>1, <3>2
  <2>2. CASE ~(parts[q] > 0)
    BY <1>7, <2>2 DEF Final, LeaveUnsaved, RowsOK, RowOK, LocalOK, CountedOnce
  <2> QED
    BY <2>1, <2>2
<1>8. CASE UNCHANGED chatVars
  BY <1>8 DEF chatVars, RowsOK, RowOK, CountedOnce
<1> QED
  BY <1>1, <1>2, <1>3, <1>4, <1>5, <1>6, <1>7, <1>8 DEF ChatNext, Handle, Quiet

-----------------------------------------------------------------------------
\* Open inserts.  An id is taken above all ids in use and given back with the
\* row, or lost.

LEMMA TicketStep ==
    ASSUME ChatTypeOK, RowsOK, TicketsOK, [ChatNext]_chatVars
    PROVE  TicketsOK'
<1> USE ChatAssumption DEF ChatTypeOK, TicketsOK, IsOpen, dbVars, textVars
<1>1. ASSUME NEW c \in Conversations, Create(c) \/ Delete(c)
      PROVE  TicketsOK'
  BY <1>1 DEF Create, Delete
<1>2. ASSUME NEW q \in Requests, Insert(q)
      PROVE  TicketsOK'
  <2>1. \A m \in messages : m.id \in Nat /\ m.id < serial
    BY DEF RowsOK, RowOK, Message
  <2> QED
    BY <1>2, <2>1 DEF Insert
<1>3. ASSUME NEW q \in Requests, NEW role, NEW cut, AppendRow(q, role, cut)
      PROVE  TicketsOK'
  <2>1. /\ messages' = messages \cup {RowOf(q, role, cut)}
        /\ RowOf(q, role, cut).id = ticket[q] /\ RowOf(q, role, cut).req = q
        /\ ticket[q] # 0 /\ ticket' = [ticket EXCEPT ![q] = 0]
        /\ UNCHANGED <<life, serial>>
    BY <1>3 DEF AppendRow, EndTransaction, RowOf
  <2> QED
    BY <2>1
<1>4. ASSUME UNCHANGED <<life, messages, serial>>,
             UNCHANGED ticket \/ \E q \in Requests : EndTransaction(q)
      PROVE  TicketsOK'
  BY <1>4 DEF EndTransaction
<1>5. ASSUME NEW q \in Requests, Quiet(q), ~Insert(q)
      PROVE  /\ UNCHANGED <<life, messages, serial>>
             /\ UNCHANGED ticket \/ EndTransaction(q)
  BY <1>5 DEF Quiet, Open, Route, Read, Request, Reply, Delta, ErrorEvent, Taken,
              EndPlain, EndTool, EndHeld, Breaks, Disconnect
<1>6. ASSUME NEW q \in Requests, Ask(q) \/ Save(q) \/ Final(q) \/
                                  \E result \in ToolResults : ToolRound(q, result)
      PROVE  \/ \E role, cut : AppendRow(q, role, cut)
             \/ UNCHANGED dbVars
  BY <1>6, Zenon DEF Ask, Save, Final, ToolRound
<1>7. CASE UNCHANGED chatVars
  BY <1>4, <1>7 DEF chatVars
<1> QED
  BY <1>1, <1>2, <1>3, <1>4, <1>5, <1>6, <1>7 DEF ChatNext, Handle, Quiet

-----------------------------------------------------------------------------
\* What the log of an open conversation has to have.

\* More rows never hurt a request that stays where it is.
LEMMA MoreRows ==
    ASSUME ChatTypeOK, NEW p \in Requests, Complete(p), messages \subseteq messages',
           pc'[p] = pc[p], calls'[p] = calls[p], outcome'[p] = outcome[p],
           parts'[p] = parts[p]
    PROVE  Complete(p)'
<1>1. /\ Counted(p) \subseteq Counted(p)'
      /\ Question(p) \subseteq Question(p)'
      /\ AnswerTo(p) \subseteq AnswerTo(p)'
  BY DEF Counted, Question, AnswerTo
<1>2. \A k : Logged(p, k) => Logged(p, k)'
  BY <1>1 DEF Logged
<1>3. Logged(p, calls[p]) => Logged(p, calls[p])'
  BY <1>1 DEF Logged
<1> QED
  BY <1>1, <1>2, <1>3 DEF Complete, Logged

LEMMA QuietLog ==
    ASSUME ChatTypeOK, LocalOK, NEW q \in Requests, Complete(q), Quiet(q),
           UNCHANGED <<life, messages>>
    PROVE  Complete(q)'
<1> USE ChatAssumption DEF Logged, LocalOK, ChatTypeOK, dbVars, textVars,
        Before, Talking, Active, InTry
<1>1. /\ Counted(q)' = Counted(q)
      /\ Question(q)' = Question(q)
      /\ AnswerTo(q)' = AnswerTo(q)
  BY DEF Counted, Question, AnswerTo
<1>2. CASE Open(q)
  BY <1>1, <1>2 DEF Open, Goto, Leave, Complete
<1>3. CASE Route(q)
  BY <1>1, <1>3 DEF Route, Goto, Leave, Complete
<1>4. CASE Read(q)
  BY <1>1, <1>4 DEF Read, Goto, Complete
<1>5. CASE Request(q)
  BY <1>1, <1>5 DEF Request, Goto, Leave, Failures, Complete
<1>6. CASE Reply(q)
  BY <1>1, <1>6 DEF Reply, Goto, Leave, Failures, Complete
<1>7. CASE Delta(q)
  BY <1>1, <1>7 DEF Delta, Goto, Emit, Complete
<1>8. CASE ErrorEvent(q)
  BY <1>1, <1>8 DEF ErrorEvent, Complete
<1>9. CASE Taken(q)
  BY <1>1, <1>9 DEF Taken, Goto, Leave, Complete
<1>10. CASE EndPlain(q)
  BY <1>1, <1>10 DEF EndPlain, Leave, Complete
<1>11. CASE EndTool(q)
  BY <1>1, <1>11 DEF EndTool, Undecided, Goto, Complete
<1>12. CASE EndHeld(q)
  BY <1>1, <1>12 DEF EndHeld, Undecided, Goto, Emit, Complete
<1>13. CASE Breaks(q)
  BY <1>1, <1>13 DEF Breaks, Leave, LeaveUnsaved, Complete
<1>14. CASE Disconnect(q)
  BY <1>1, <1>14 DEF Disconnect, Leave, Complete
<1>15. CASE Insert(q)
  BY <1>1, <1>15 DEF Insert, Complete
<1> QED
  BY <1>2, <1>3, <1>4, <1>5, <1>6, <1>7, <1>8, <1>9, <1>10, <1>11, <1>12, <1>13, <1>14, <1>15
     DEF Quiet

LEMMA LogStep ==
    ASSUME ChatTypeOK, LocalOK, RowsOK, TicketsOK, LogOK, [ChatNext]_chatVars
    PROVE  LogOK'
<1> USE ChatAssumption DEF ChatTypeOK, IsOpen, dbVars, textVars
<1>1. ASSUME NEW c \in Conversations, Create(c)
      PROVE  LogOK'
  <2> SUFFICES ASSUME NEW p \in Requests, IsOpen(p)' PROVE Complete(p)'
    BY DEF LogOK
  <2>1. CASE Of[p] = c
    <3>1. life[Of[p]] = "unborn" /\ UNCHANGED <<messages, pc, calls, outcome, parts>>
      BY <1>1, <2>1 DEF Create
    <3>2. pc[p] \notin Active /\ ~(calls[p] > 0)
      BY <3>1 DEF LocalOK
    <3>3. outcome[p] # "ok" /\ ~(parts[p] > 0)
      BY <3>2 DEF LocalOK
    <3> QED
      BY <3>1, <3>2, <3>3 DEF Complete, Talking, Active, InTry
  <2>2. CASE Of[p] # c
    BY <1>1, <2>2, MoreRows DEF Create, LogOK
  <2> QED
    BY <2>1, <2>2
<1>2. ASSUME NEW c \in Conversations, Delete(c)
      PROVE  LogOK'
  <2> SUFFICES ASSUME NEW p \in Requests, IsOpen(p)' PROVE Complete(p)'
    BY DEF LogOK
  <2>1. Of[p] # c /\ IsOpen(p)
    BY <1>2 DEF Delete
  <2>2. /\ Counted(p)' = Counted(p)
        /\ Question(p)' = Question(p)
        /\ AnswerTo(p)' = AnswerTo(p)
    BY <1>2, <2>1 DEF Delete, Conversation, Counted, Question, AnswerTo
  <2> QED
    BY <1>2, <2>1, <2>2 DEF Delete, LogOK, Complete, Logged
<1>3. ASSUME NEW q \in Requests, Quiet(q)
      PROVE  LogOK'
  <2>1. UNCHANGED <<life, messages>>
    BY <1>3, QuietRows
  <2>2. ASSUME NEW p \in Requests, p # q, IsOpen(p)
        PROVE  Complete(p)'
    BY <1>3, <2>1, <2>2, MoreRows
       DEF LogOK, Quiet, Insert, Open, Route, Read, Request, Reply, Delta, ErrorEvent, Taken,
           EndPlain, EndTool, EndHeld, Breaks, Disconnect, Goto, Leave, LeaveUnsaved, Emit
  <2> QED
    BY <1>3, <2>1, <2>2, QuietLog DEF LogOK
<1>4. ASSUME NEW q \in Requests, NEW role, NEW cut, AppendRow(q, role, cut)
      PROVE  /\ RowOf(q, role, cut) \in messages'
             /\ messages \subseteq messages'
             /\ Logged(q, calls[q] - 1) /\ role # "user"
                  => \A n \in 1 .. calls[q] : \E m \in Counted(q)' : m.nth = n
  <2>1. messages' = messages \cup {RowOf(q, role, cut)}
    BY <1>4 DEF AppendRow, RowOf
  <2>2. ASSUME role # "user", Logged(q, calls[q] - 1), NEW n \in 1 .. calls[q]
        PROVE  \E m \in Counted(q)' : m.nth = n
    <3>1. CASE n = calls[q]
      <4>1. RowOf(q, role, cut) \in Counted(q)'
        BY <2>1, <2>2 DEF RowOf, Counted
      <4> QED
        BY <3>1, <4>1 DEF RowOf
    <3>2. CASE n # calls[q]
      <4>1. n \in 1 .. calls[q] - 1
        BY <3>2
      <4> QED
        BY <2>1, <2>2, <4>1 DEF Logged, Counted
    <3> QED
      BY <3>1, <3>2
  <2> QED
    BY <2>1, <2>2
<1>5. ASSUME NEW q \in Requests, Ask(q)
      PROVE  LogOK'
  <2>1. ASSUME NEW p \in Requests, p # q, IsOpen(p)
        PROVE  Complete(p)'
    BY <1>4, <1>5, <2>1, MoreRows DEF Ask, Goto, LogOK
  <2>2. Complete(q)'
    <3>1. RowOf(q, "user", FALSE) \in Question(q)'
      BY <1>4, <1>5 DEF Ask, Question, RowOf
    <3>2. pc'[q] = "read" /\ parts'[q] = parts[q] /\ outcome'[q] = outcome[q]
      BY <1>5 DEF Ask, Goto
    <3> QED
      BY <3>1, <3>2 DEF Complete, Talking
  <2> QED
    BY <1>5, <2>1, <2>2 DEF LogOK, Ask, AppendRow
<1>6. ASSUME NEW q \in Requests, NEW result \in ToolResults, ToolRound(q, result)
      PROVE  LogOK'
  <2>1. messages \subseteq messages' /\ life' = life
    BY <1>6, <1>4 DEF ToolRound, AppendRow
  <2>2. ASSUME NEW p \in Requests, p # q, IsOpen(p)
        PROVE  Complete(p)'
    BY <1>6, <2>1, <2>2, MoreRows DEF ToolRound, Goto, Leave, LogOK
  <2>3. ASSUME IsOpen(q)
        PROVE  Complete(q)'
    <3>1. Complete(q) /\ pc[q] = "tool"
      BY <1>6, <2>3 DEF LogOK, ToolRound
    <3>2. Question(q)' # {} /\ parts[q] = 0 /\ parts'[q] = 0 /\ calls' = calls
      BY <1>6, <2>1, <3>1 DEF Complete, Talking, Question, LocalOK, ToolRound
    <3>3. CASE result = "fits"
      <4>1. pc'[q] = "call" /\ AppendRow(q, "tool", FALSE)
        BY <1>6, <3>3 DEF ToolRound, Goto
      <4>2. Logged(q, calls[q])'
        BY <1>4, <3>1, <3>2, <4>1 DEF Complete, Talking, Logged
      <4> QED
        BY <3>2, <4>1, <4>2 DEF Complete, Talking
    <3>4. CASE result # "fits"
      <4>1. pc'[q] \in {"final", "ended"} /\ outcome'[q] = "internal"
        BY <1>6, <3>4 DEF ToolRound, Leave
      <4> QED
        BY <3>2, <4>1 DEF Complete, Talking
    <3> QED
      BY <3>3, <3>4
  <2> QED
    BY <2>1, <2>2, <2>3 DEF LogOK
<1>7. ASSUME NEW q \in Requests, Save(q)
      PROVE  LogOK'
  <2>1. messages \subseteq messages' /\ life' = life /\ IsOpen(q)
    BY <1>7, <1>4 DEF Save, AppendRow, TicketsOK
  <2>2. ASSUME NEW p \in Requests, p # q, IsOpen(p)
        PROVE  Complete(p)'
    BY <1>7, <2>1, <2>2, MoreRows DEF Save, Leave, LogOK
  <2>3. Complete(q)'
    <3>1. Complete(q) /\ pc[q] = "save" /\ parts[q] = 0
      BY <1>7, <2>1 DEF LogOK, Save, LocalOK
    <3>2. Question(q)' # {} /\ parts'[q] = 0 /\ calls' = calls
      BY <1>7, <2>1, <3>1 DEF Complete, Talking, Question, Save
    <3>3. pc'[q] = "ended" /\ outcome'[q] = "ok"
      BY <1>7 DEF Save, Leave, InTry
    <3>4. Logged(q, calls[q])'
      <4>1. AppendRow(q, "assistant", FALSE)
        BY <1>7 DEF Save
      <4>2. Logged(q, calls[q] - 1)
        BY <3>1 DEF Complete, Talking
      <4>3. \A n \in 1 .. calls[q] : \E m \in Counted(q)' : m.nth = n
        BY <1>4, <4>1, <4>2
      <4> QED
        BY <3>2, <4>3 DEF Logged
    <3> QED
      BY <3>2, <3>3, <3>4 DEF Complete, Talking
  <2> QED
    BY <2>1, <2>2, <2>3 DEF LogOK
<1>8. ASSUME NEW q \in Requests, Final(q)
      PROVE  LogOK'
  <2>1. messages \subseteq messages' /\ life' = life
    BY <1>8, <1>4 DEF Final, AppendRow
  <2>2. ASSUME NEW p \in Requests, p # q, IsOpen(p)
        PROVE  Complete(p)'
    BY <1>8, <2>1, <2>2, MoreRows DEF Final, LeaveUnsaved, LogOK
  <2>3. ASSUME IsOpen(q)
        PROVE  Complete(q)'
    <3>1. Complete(q) /\ pc[q] = "final"
      BY <1>8, <2>3 DEF LogOK, Final
    <3>2. Question(q)' # {} /\ parts' = parts /\ calls' = calls /\ pc'[q] = "ended"
      BY <1>8, <2>1, <3>1 DEF Complete, Question, Final, LeaveUnsaved
    <3>3. CASE parts[q] > 0
      <4>1. AppendRow(q, "assistant", outcome[q] # "ok") /\ outcome'[q] = outcome[q]
        BY <1>8, <3>3 DEF Final, LeaveUnsaved
      <4>2. outcome[q] = "ok" => Logged(q, calls[q])'
        BY <1>4, <3>1, <3>2, <4>1 DEF Complete, Logged
      <4>3. RowOf(q, "assistant", outcome[q] # "ok") \in AnswerTo(q)'
        BY <1>4, <4>1 DEF AnswerTo, RowOf
      <4> QED
        BY <3>2, <4>1, <4>2, <4>3 DEF Complete, Talking
    <3>4. CASE ~(parts[q] > 0)
      <4>1. outcome'[q] # "ok"
        BY <1>8, <3>4 DEF Final, LeaveUnsaved
      <4> QED
        BY <3>2, <3>4, <4>1 DEF Complete, Talking
    <3> QED
      BY <3>3, <3>4
  <2> QED
    BY <2>1, <2>2, <2>3 DEF LogOK
<1>9. CASE UNCHANGED chatVars
  BY <1>9, MoreRows DEF chatVars, LogOK
<1> QED
  BY <1>1, <1>2, <1>3, <1>5, <1>6, <1>7, <1>8, <1>9 DEF ChatNext, Handle, Quiet

-----------------------------------------------------------------------------
\* Of two readers of one conversation the later one saw the other's question.

LEMMA MeetStep ==
    ASSUME ChatTypeOK, LocalOK, RowsOK, LogOK, ReadersMeet, [ChatNext]_chatVars
    PROVE  ReadersMeet'
<1> USE ChatAssumption DEF ChatTypeOK, IsOpen, dbVars, textVars, HasRead
<1>1. ASSUME NEW c \in Conversations, Create(c)
      PROVE  ReadersMeet'
  <2>1. \A p \in Requests : HasRead(p) => life[Of[p]] # "unborn"
    BY DEF LocalOK, Active, InTry
  <2>2. UNCHANGED <<messages, pc, calls, history>>
    BY <1>1 DEF Create
  <2>3. \A p \in Requests : HasRead(p)' /\ IsOpen(p)' => HasRead(p) /\ IsOpen(p)
    BY <1>1, <2>1, <2>2 DEF Create
  <2>4. \A p \in Requests : Question(p)' = Question(p)
    BY <2>2 DEF Question
  <2> QED
    BY <2>2, <2>3, <2>4 DEF ReadersMeet
<1>2. ASSUME NEW c \in Conversations, Delete(c)
      PROVE  ReadersMeet'
  <2>1. \A p \in Requests : IsOpen(p)' => Of[p] # c /\ IsOpen(p)
    BY <1>2 DEF Delete
  <2>2. \A p \in Requests : Of[p] # c => Question(p)' = Question(p)
    BY <1>2 DEF Delete, Question, Conversation
  <2> QED
    BY <1>2, <2>1, <2>2 DEF Delete, ReadersMeet
<1>3. ASSUME UNCHANGED life, UNCHANGED history, messages \subseteq messages',
             \A p \in Requests : HasRead(p)' => HasRead(p)
      PROVE  ReadersMeet'
  <2>1. \A p \in Requests : Question(p) \subseteq Question(p)'
    BY <1>3 DEF Question
  <2> QED
    BY <1>3, <2>1 DEF ReadersMeet
<1>4. ASSUME NEW q \in Requests, Quiet(q), ~Read(q)
      PROVE  ReadersMeet'
  <2>1. UNCHANGED <<life, messages, history>>
    BY <1>4, QuietRows DEF Quiet, Insert, Open, Route, Request, Reply, Delta, ErrorEvent,
         Taken, EndPlain, EndTool, EndHeld, Breaks, Disconnect
  <2>2. \A p \in Requests : HasRead(p)' => HasRead(p)
    BY <1>4 DEF Quiet, Insert, Open, Route, Request, Reply, Delta, ErrorEvent, Taken,
         EndPlain, EndTool, EndHeld, Breaks, Disconnect, Goto, Leave, LeaveUnsaved
  <2> QED
    BY <1>3, <2>1, <2>2
<1>5. ASSUME NEW q \in Requests, Read(q)
      PROVE  ReadersMeet'
  <2>1. /\ pc[q] = "read"
        /\ UNCHANGED <<life, messages, calls>>
        /\ \A p \in Requests \ {q} : pc'[p] = pc[p] /\ history'[p] = history[p]
        /\ history'[q] = {m.id : m \in {n \in Conversation(Of[q]) : n.role # "tool"}}
    BY <1>5 DEF Read, Goto
  <2>2. \A p \in Requests : Question(p)' = Question(p)
    BY <2>1 DEF Question
  <2>3. \A p \in Requests : Of[p] = Of[q] /\ IsOpen(p) /\ (HasRead(p) \/ p = q)
           => \E m \in Question(p) : m.id \in history'[q]
    <3>1. \A p \in Requests : IsOpen(p) /\ (HasRead(p) \/ p = q) => Question(p) # {}
      BY <2>1 DEF LogOK, Complete
    <3>2. \A p \in Requests : \A m \in Question(p) :
             Of[p] = Of[q] => m.id \in history'[q]
      BY <2>1 DEF Question, Conversation
    <3> QED
      BY <3>1, <3>2
  <2> QED
    BY <2>1, <2>2, <2>3 DEF ReadersMeet
<1>6. ASSUME NEW q \in Requests, Ask(q) \/ Save(q) \/ Final(q) \/
                                  \E result \in ToolResults : ToolRound(q, result)
      PROVE  ReadersMeet'
  <2>1. UNCHANGED life /\ UNCHANGED history /\ messages \subseteq messages'
    BY <1>6 DEF Ask, Save, Final, ToolRound, AppendRow
  <2>2. \A p \in Requests : HasRead(p)' => HasRead(p)
    <3>1. calls' = calls /\ \A p \in Requests \ {q} : pc'[p] = pc[p]
      BY <1>6 DEF Ask, Save, Final, ToolRound, Goto, Leave, LeaveUnsaved
    <3>2. pc'[q] = "call" => pc[q] = "tool"
      BY <1>6 DEF Ask, Save, Final, ToolRound, Goto, Leave, LeaveUnsaved
    <3>3. pc[q] = "tool" => calls[q] > 0
      BY DEF LocalOK, Talking
    <3> QED
      BY <3>1, <3>2, <3>3
  <2> QED
    BY <1>3, <2>1, <2>2
<1>7. CASE UNCHANGED chatVars
  BY <1>3, <1>7 DEF chatVars
<1> QED
  BY <1>1, <1>2, <1>4, <1>5, <1>6, <1>7 DEF ChatNext, Handle, Quiet

-----------------------------------------------------------------------------

\* A request is where its rows, its calls and its text say it is, whoever else
\* sends to the conversation or deletes it.
THEOREM ChatInvariant == ChatSafeSpec => []ChatInv
<1>1. ChatInv /\ [ChatNext]_chatVars => ChatInv'
  BY TypeStep, LocalStep, RowsStep, TicketStep, LogStep, MeetStep DEF ChatInv
<1> QED
  BY <1>1, ChatInitInv, PTL DEF ChatSafeSpec

\* The budget of tool calls bounds the requests a message makes.
THEOREM ChatTypes == ChatSafeSpec => []ChatTypeOK
<1>1. ChatInv => ChatTypeOK
  BY DEF ChatInv
<1> QED
  BY <1>1, ChatInvariant, PTL

\* Of two senders to one conversation whom the model answers, one at least had
\* read the other's question.
THEOREM SendersMeet == ChatSafeSpec => []NobodyWritesBlind
<1>1. ChatInv => NobodyWritesBlind
  BY DEF ChatInv, ReadersMeet, HasRead, NobodyWritesBlind
<1> QED
  BY <1>1, ChatInvariant, PTL

\* /chat/usage never counts a request to the provider that was not made, nor one
\* twice, and counts all of a message that was answered.
THEOREM UsageIsAccounted == ChatSafeSpec => []UsageAccounted
<1>1. ASSUME ChatInv PROVE UsageAccounted
  <2>1. ASSUME NEW q \in Requests, NEW m \in Counted(q)
        PROVE  /\ m.nth \in 1 .. calls[q]
               /\ \A n \in Counted(q) : n.nth = m.nth => n = m
    BY <1>1, <2>1, ChatAssumption
       DEF ChatInv, ChatTypeOK, Message, RowsOK, RowOK, CountedOnce, Counted
  <2>2. \A q \in Requests : pc[q] = "ended" /\ outcome[q] = "ok" /\ IsOpen(q)
           => Logged(q, calls[q])
    BY <1>1 DEF ChatInv, LogOK, Complete
  <2> QED
    BY <2>1, <2>2 DEF UsageAccounted, Logged
<1> QED
  BY <1>1, ChatInvariant, PTL

\* Whatever ends a stream, what the client saw is in the log, and at most one
\* piece more.
THEOREM ShownIsSaved == ChatSafeSpec => []SavedCoversShown
<1>1. ASSUME ChatInv PROVE SavedCoversShown
  <2>1. ASSUME NEW q \in Streams
        PROVE  /\ \A m \in AnswerTo(q) : m.pieces \in shown[q] .. shown[q] + 1
               /\ shown[q] > 0 => parts[q] > 0
    <3>1. q \in Requests /\ shown[q] \in Nat /\ parts[q] \in {shown[q], shown[q] + 1}
      BY <1>1, <2>1, ChatAssumption DEF ChatInv, ChatTypeOK, LocalOK
    <3>2. \A m \in AnswerTo(q) : m.pieces = parts[q]
      BY <1>1 DEF ChatInv, RowsOK, RowOK, AnswerTo
    <3> QED
      BY <3>1, <3>2
  <2>2. \A q \in Streams : IsOpen(q) => Complete(q)
    BY <1>1, ChatAssumption DEF ChatInv, LogOK
  <2> QED
    BY <2>1, <2>2 DEF SavedCoversShown, Complete
<1> QED
  BY <1>1, ChatInvariant, PTL

\* metadata.truncated tells a cut answer from a whole one.
THEOREM CutsAreMarked == ChatSafeSpec => []CutIsMarked
<1>1. ChatInv => CutIsMarked
  BY ChatAssumption DEF ChatInv, LocalOK, RowsOK, RowOK, AnswerTo, CutIsMarked
<1> QED
  BY <1>1, ChatInvariant, PTL

-----------------------------------------------------------------------------
\* The log of each conversation, seen alone, is a Dialogue.

LEMMA RowLogged ==
    ASSUME ChatInv, NEW q \in Requests, NEW role, NEW cut, AppendRow(q, role, cut),
           NEW e, e = RowOf(q, role, cut)
    PROVE  /\ Thread(Of[q])!Adds(e) /\ e \in Conversation(Of[q])'
           /\ e.req = q /\ e.role = role /\ e.nth = calls[q]
           /\ \A c \in Conversations \ {Of[q]} : UNCHANGED Thread(c)!dialogueVars
<1>1. /\ e.id = ticket[q] /\ e.req = q /\ e.role = role /\ e.nth = calls[q]
      /\ messages' = messages \cup {e} /\ life' = life /\ IsOpen(q)
  BY DEF RowOf, AppendRow, ChatInv, TicketsOK
<1>2. /\ Conversation(Of[q])' = Conversation(Of[q]) \cup {e}
      /\ \A c \in Conversations \ {Of[q]} : Conversation(c)' = Conversation(c)
  BY <1>1 DEF Conversation
<1>3. \A f \in Conversation(Of[q]) : f.id # e.id /\ (f.req = e.req => f.id < e.id)
  BY <1>1 DEF Conversation, ChatInv, TicketsOK, AppendRow
<1> QED
  BY <1>1, <1>2, <1>3 DEF IsOpen, Thread!Adds, Thread!dialogueVars

LEMMA DialogueStep ==
    ASSUME ChatInv, [ChatNext]_chatVars, NEW c \in Conversations
    PROVE  Thread(c)!DialogueNext \/ UNCHANGED Thread(c)!dialogueVars
<1> USE ChatAssumption DEF Thread!DialogueNext, Thread!dialogueVars
<1>1. ASSUME NEW d \in Conversations, Create(d)
      PROVE  Thread(c)!DialogueNext \/ UNCHANGED Thread(c)!dialogueVars
  BY <1>1 DEF Create, Conversation, Thread!Born, ChatInv, ChatTypeOK
<1>2. ASSUME NEW d \in Conversations, Delete(d)
      PROVE  Thread(c)!DialogueNext \/ UNCHANGED Thread(c)!dialogueVars
  <2>1. CASE c = d
    BY <1>2, <2>1 DEF Delete, Conversation, Thread!Erased, ChatInv, ChatTypeOK
  <2>2. CASE c # d
    BY <1>2, <2>2 DEF Delete, Conversation
  <2> QED
    BY <2>1, <2>2
<1>3. ASSUME UNCHANGED <<life, messages>>
      PROVE  UNCHANGED Thread(c)!dialogueVars
  BY <1>3 DEF Conversation
<1>4. ASSUME NEW q \in Requests, Of[q] = c
      PROVE  /\ Thread(c)!Asked(q) <=> Question(q) # {}
             /\ Thread(c)!Answered(q) <=> AnswerTo(q) # {}
             /\ \A n : n \in Thread(c)!Used(q) <=> \E m \in Counted(q) : m.nth = n
  BY <1>4 DEF Thread!Asked, Thread!Answered, Thread!Used, Conversation, Question,
              AnswerTo, Counted
<1>5. ASSUME NEW q \in Requests
      PROVE  /\ pc[q] # "ended" => AnswerTo(q) = {}
             /\ pc[q] = "ask" => Question(q) = {} /\ Counted(q) = {}
             /\ pc[q] \in Talking \/ (pc[q] = "final" /\ parts[q] > 0) =>
                    /\ \A m \in Counted(q) : m.nth # calls[q]
                    /\ calls[q] \in 1 .. MaxToolCalls + 1
             /\ pc[q] = "tool" => calls[q] \in 1 .. MaxToolCalls
             /\ pc[q] \in Talking \cup {"final"} /\ IsOpen(q) => Question(q) # {}
  <2>1. calls[q] \in 0 .. MaxToolCalls + 1
    BY DEF ChatInv, ChatTypeOK
  <2>2. \A m \in messages : RowOK(m) /\ m.role \in {"user", "tool", "assistant"}
    BY DEF ChatInv, ChatTypeOK, Message, RowsOK
  <2>3. pc[q] \in Talking \/ parts[q] > 0 => calls[q] >= 1
    BY DEF ChatInv, LocalOK
  <2>4. pc[q] = "tool" => calls[q] <= MaxToolCalls
    BY DEF ChatInv, LocalOK
  <2>5. pc[q] \in Talking \cup {"final"} /\ IsOpen(q) => Question(q) # {}
    BY DEF ChatInv, LogOK, Complete
  <2>6. ASSUME pc[q] \in Talking \/ (pc[q] = "final" /\ parts[q] > 0),
               NEW m \in Counted(q)
        PROVE  m.nth # calls[q]
    <3>1. pc[q] # "ended"
      BY <2>6 DEF Talking
    <3>2. m.role = "tool"
      BY <2>2, <3>1 DEF Counted, RowOK
    <3> QED
      BY <2>1, <2>2, <2>6, <3>2 DEF Counted, RowOK
  <2> QED
    BY <2>1, <2>2, <2>3, <2>4, <2>5, <2>6
       DEF AnswerTo, Question, Counted, RowOK, Talking
<1>6. ASSUME NEW q \in Requests, Ask(q)
      PROVE  Thread(c)!DialogueNext \/ UNCHANGED Thread(c)!dialogueVars
  <2>1. PICK cut : AppendRow(q, "user", cut) /\ pc[q] = "ask"
    BY <1>6 DEF Ask, Goto
  <2>2. CASE c = Of[q]
    <3>1. PICK f : f = RowOf(q, "user", cut)
      OBVIOUS
    <3>2. ~Thread(c)!Asked(q) /\ Thread(c)!Used(q) = {}
      BY <2>1, <2>2, <1>4, <1>5
    <3>3. /\ Thread(c)!Adds(f) /\ f \in Conversation(c)'
          /\ f.req = q /\ f.role = "user"
      BY <2>1, <2>2, <3>1, RowLogged
    <3>4. Thread(c)!Ask(f)
      BY <3>2, <3>3 DEF Thread!Ask
    <3> QED
      BY <3>3, <3>4
  <2>3. CASE c # Of[q]
    BY <2>1, <2>3, RowLogged
  <2> QED
    BY <2>2, <2>3
<1>7. ASSUME NEW q \in Requests, NEW result \in ToolResults, ToolRound(q, result)
      PROVE  Thread(c)!DialogueNext \/ UNCHANGED Thread(c)!dialogueVars
  <2>1. CASE result # "fits"
    BY <1>7, <1>3, <2>1 DEF ToolRound, dbVars
  <2>2. CASE result = "fits"
    <3>1. PICK cut : AppendRow(q, "tool", cut) /\ pc[q] = "tool" /\ IsOpen(q)
      BY <1>7, <2>2 DEF ToolRound, AppendRow, ChatInv, TicketsOK
    <3>2. PICK f : f = RowOf(q, "tool", cut)
      OBVIOUS
    <3>3. CASE c = Of[q]
      <4>1. /\ Thread(c)!Asked(q) /\ ~Thread(c)!Answered(q)
            /\ calls[q] \notin Thread(c)!Used(q) /\ calls[q] \in 1 .. MaxToolCalls
        BY <3>1, <3>3, <1>4, <1>5 DEF Talking
      <4>2. /\ Thread(c)!Adds(f) /\ f \in Conversation(c)'
            /\ f.req = q /\ f.role = "tool" /\ f.nth = calls[q]
        BY <3>1, <3>2, <3>3, RowLogged
      <4>3. Thread(c)!Consult(f)
        BY <4>1, <4>2 DEF Thread!Consult
      <4> QED
        BY <4>2, <4>3
    <3>4. CASE c # Of[q]
      BY <3>1, <3>4, RowLogged
    <3> QED
      BY <3>3, <3>4
  <2> QED
    BY <2>1, <2>2
<1>8. ASSUME NEW q \in Requests, NEW cut, AppendRow(q, "assistant", cut),
             pc[q] \in Talking \/ (pc[q] = "final" /\ parts[q] > 0)
      PROVE  Thread(c)!DialogueNext \/ UNCHANGED Thread(c)!dialogueVars
  <2>1. PICK f : f = RowOf(q, "assistant", cut)
    OBVIOUS
  <2>2. CASE c = Of[q]
    <3>1. pc[q] # "ended" /\ IsOpen(q)
      BY <1>8 DEF Talking, AppendRow, ChatInv, TicketsOK
    <3>2. Thread(c)!Answer(f) /\ f \in Conversation(c)'
      BY <1>8, <2>1, <2>2, <3>1, <1>4, <1>5, RowLogged DEF Thread!Answer
    <3> QED
      BY <3>2
  <2>3. CASE c # Of[q]
    BY <1>8, <2>3, RowLogged
  <2> QED
    BY <2>2, <2>3
<1>9. ASSUME NEW q \in Requests, Save(q) \/ Final(q)
      PROVE  Thread(c)!DialogueNext \/ UNCHANGED Thread(c)!dialogueVars
  BY <1>3, <1>8, <1>9 DEF Save, Final, Talking, dbVars
<1>10. ASSUME NEW q \in Requests, Quiet(q)
       PROVE  UNCHANGED Thread(c)!dialogueVars
  BY <1>3, <1>10, QuietRows DEF ChatInv
<1>11. CASE UNCHANGED chatVars
  BY <1>3, <1>11 DEF chatVars, dbVars
<1> QED
  BY <1>1, <1>2, <1>6, <1>7, <1>9, <1>10, <1>11 DEF ChatNext, Handle, Quiet

\* The log of every conversation is a dialogue: each question once, its tool calls
\* within the budget, one answer, each sender's rows in the order of their ids.
THEOREM LogsAreDialogues == ChatSafeSpec => EveryThreadIsDialogue
<1>1. ChatInit => \A c \in Conversations : Thread(c)!DialogueInit
  BY DEF ChatInit, Conversation, Thread!DialogueInit
<1>2. ChatInv /\ [ChatNext]_chatVars =>
        [\A c \in Conversations :
            Thread(c)!DialogueNext \/ UNCHANGED Thread(c)!dialogueVars]_chatVars
  BY DialogueStep
<1> QED
  BY <1>1, <1>2, ChatInvariant, PTL DEF ChatSafeSpec, EveryThreadIsDialogue

=============================================================================
