---------------------------- MODULE ChatService ----------------------------
(***************************************************************************)
(* chat.py and the message route of api/chat_routes.py: people send        *)
(* messages to conversations, several at once, and each is answered by a   *)
(* model that may call tools first.  A member of Requests is one POST of a *)
(* message, plain (send()) or streaming (send_stream()); pc is the await   *)
(* it is at.  Every database function is a transaction of its own, so the  *)
(* conversation may be deleted, and other people's messages arrive,        *)
(* between any two steps.                                                  *)
(*                                                                         *)
(* Text is counted in pieces: a delta of the provider's stream, or what    *)
(* one yield hands to the client (the routed-model prefix is part of the   *)
(* first).  Which reply is a tool call is decided in module HoldBack and   *)
(* what of the history fits the context in ContextWindow; here both are    *)
(* free choices.                                                           *)
(***************************************************************************)
EXTENDS Naturals, FiniteSets

CONSTANTS Requests,         \* POST /chat/conversations/{id}/messages
          Streams,          \* those with stream = true
          Conversations,
          Of,               \* the conversation a request is for
          Equipped,         \* conversations whose persona may use tools
          MaxToolCalls,     \* CHAT_MAX_TOOL_CALLS
          MaxDeltas         \* bound: deltas in one reply

ASSUME ChatAssumption ==
    /\ Streams \subseteq Requests
    /\ Equipped \subseteq Conversations
    /\ Of \in [Requests -> Conversations]
    /\ MaxToolCalls \in Nat
    /\ MaxDeltas \in Nat \ {0}

VARIABLES
    life,       \* of each conversation: "unborn", "open", "deleted"
    messages,   \* the rows of all conversations
    serial,     \* the next messages.id
    ticket,     \* the id a request's open insert has taken; 0: none open
    pc,         \* where a request is
    outcome,    \* what it ends, or will end, with
    calls,      \* requests it made to the provider; round_no is calls - 1
    history,    \* ids of the rows get_messages() gave it
    got,        \* deltas of the current reply
    verdict,    \* "open" while held back, then "tool" or "plain"
    parts,      \* pieces in parts
    shown,      \* pieces the client received
    upset       \* the provider reported an error inside the stream

dbVars == <<life, messages, serial, ticket>>
textVars == <<got, verdict, parts, shown, upset>>
chatVars == <<dbVars, pc, outcome, calls, history, textVars>>

\* Roles that can be in a context; tool rows are for the audit only.
Message == [id: Nat, req: Requests, role: {"user", "tool", "assistant"},
            nth: Nat,           \* history: the provider request behind it
            cut: BOOLEAN,       \* metadata.truncated
            pieces: Nat]

Failures == {"quota", "provider", "internal"}   \* 429, 502, 500

Outcomes == Failures \cup {"pending", "not_found", "refused", "ok", "silent",
                           "gone", "unsaved"}

\* From "call" on a stream is inside its try block.
InTry == {"call", "tool", "stream", "yield", "last"}
Active == {"route", "ask", "read", "wait", "save", "final"} \cup InTry

ChatTypeOK ==
    /\ life \in [Conversations -> {"unborn", "open", "deleted"}]
    /\ messages \subseteq Message
    /\ serial \in Nat \ {0}
    /\ ticket \in [Requests -> Nat]
    /\ pc \in [Requests -> {"new", "ended"} \cup Active]
    /\ outcome \in [Requests -> Outcomes]
    /\ calls \in [Requests -> 0 .. MaxToolCalls + 1]
    /\ history \in [Requests -> SUBSET Nat]
    /\ got \in [Requests -> 0 .. MaxDeltas]
    /\ verdict \in [Requests -> {"open", "tool", "plain"}]
    /\ parts \in [Requests -> Nat]
    /\ shown \in [Requests -> Nat]
    /\ upset \in [Requests -> BOOLEAN]

ChatInit ==
    /\ life = [c \in Conversations |-> "unborn"]
    /\ messages = {}
    /\ serial = 1
    /\ ticket = [q \in Requests |-> 0]
    /\ pc = [q \in Requests |-> "new"]
    /\ outcome = [q \in Requests |-> "pending"]
    /\ calls = [q \in Requests |-> 0]
    /\ history = [q \in Requests |-> {}]
    /\ got = [q \in Requests |-> 0]
    /\ verdict = [q \in Requests |-> "open"]
    /\ parts = [q \in Requests |-> 0]
    /\ shown = [q \in Requests |-> 0]
    /\ upset = [q \in Requests |-> FALSE]

-----------------------------------------------------------------------------
\* Helpers.

Conversation(c) == {m \in messages : Of[m.req] = c}
IsOpen(q) == life[Of[q]] = "open"
MayUseTools(q) == Of[q] \in Equipped

Goto(q, from, to) == pc[q] = from /\ pc' = [pc EXCEPT ![q] = to]

\* _append() is one transaction of two statements.  The INSERT takes the id and
\* locks the conversation against deletion (the foreign key: of one that is not
\* there it raises).  The UPDATE of the conversation waits for whoever else is
\* updating it, so rows can be committed in another order than their ids.
MustAppend(q) == \/ pc[q] \in {"ask", "tool", "save"}
                 \/ pc[q] = "final" /\ parts[q] > 0

Insert(q) ==
    /\ MustAppend(q) /\ ticket[q] = 0
    /\ IsOpen(q)
    /\ ticket' = [ticket EXCEPT ![q] = serial]
    /\ serial' = serial + 1
    /\ UNCHANGED <<life, messages, pc, outcome, calls, history, textVars>>

EndTransaction(q) == ticket' = [ticket EXCEPT ![q] = 0]

\* The commit: everybody sees the row.
AppendRow(q, role, cut) ==
    /\ ticket[q] # 0
    /\ messages' = messages \cup
         {[id |-> ticket[q], req |-> q, role |-> role, nth |-> calls[q],
           cut |-> cut, pieces |-> parts[q]]}
    /\ EndTransaction(q)
    /\ UNCHANGED <<life, serial>>

\* The handler is left with outcome o.  A stream that reached its try block
\* goes through its finally block first.
LeaveUnsaved(q, o) ==
    /\ pc' = [pc EXCEPT ![q] = "ended"]
    /\ outcome' = [outcome EXCEPT ![q] = o]

Leave(q, o) ==
    /\ pc' = [pc EXCEPT ![q] =
                IF q \in Streams /\ @ \in InTry THEN "final" ELSE "ended"]
    /\ outcome' = [outcome EXCEPT ![q] = o]

-----------------------------------------------------------------------------
\* Conversations.

Create(c) ==
    /\ life[c] = "unborn"
    /\ life' = [life EXCEPT ![c] = "open"]
    /\ UNCHANGED <<messages, serial, ticket, pc, outcome, calls, history, textVars>>

\* ON DELETE CASCADE takes the messages along, once no insert is open.
Delete(c) ==
    /\ life[c] = "open"
    /\ \A q \in Requests : Of[q] = c => ticket[q] = 0
    /\ life' = [life EXCEPT ![c] = "deleted"]
    /\ messages' = messages \ Conversation(c)
    /\ UNCHANGED <<serial, ticket, pc, outcome, calls, history, textVars>>

-----------------------------------------------------------------------------
\* _prepare(): four awaits.

Open(q) ==
    /\ pc[q] = "new"
    /\ IF IsOpen(q) THEN Goto(q, "new", "route") /\ UNCHANGED outcome
                    ELSE Leave(q, "not_found")
    /\ UNCHANGED <<dbVars, calls, history, textVars>>

Route(q) ==
    /\ pc[q] = "route"
    /\ \/ Goto(q, "route", "ask") /\ UNCHANGED outcome
       \/ Leave(q, "refused")
    /\ UNCHANGED <<dbVars, calls, history, textVars>>

Ask(q) ==
    /\ Goto(q, "ask", "read")
    /\ AppendRow(q, "user", FALSE)
    /\ UNCHANGED <<outcome, calls, history, textVars>>

Question(q) == {m \in messages : m.req = q /\ m.role = "user"}
AnswerTo(q) == {m \in messages : m.req = q /\ m.role = "assistant"}

\* get_messages() and build_context(): of a conversation deleted meanwhile
\* there is nothing left, and the request goes on.
ReadAnsweredTurns(q) ==
    /\ Goto(q, "read", "call")
    /\ history' = [history EXCEPT ![q] =
         {m.id : m \in {n \in Conversation(Of[q]) :
                           n.role # "tool" /\ AnswerTo(n.req) # {}}}]
    /\ UNCHANGED <<dbVars, outcome, calls, textVars>>

Read(q) ==
    /\ Goto(q, "read", "call")
    /\ history' = [history EXCEPT ![q] =
         {m.id : m \in {n \in Conversation(Of[q]) : n.role # "tool"}}]
    /\ UNCHANGED <<dbVars, outcome, calls, textVars>>

-----------------------------------------------------------------------------
\* The rounds.

\* provider.complete() or .stream(): the request leaves.  A stream may be
\* refused at once (429, or another status).
Request(q) ==
    /\ pc[q] = "call"
    /\ calls' = [calls EXCEPT ![q] = @ + 1]
    /\ \/ /\ Goto(q, "call", IF q \in Streams THEN "stream" ELSE "wait")
          /\ got' = [got EXCEPT ![q] = 0]
          /\ verdict' = [verdict EXCEPT ![q] = "open"]
          /\ UNCHANGED outcome
       \/ /\ q \in Streams
          /\ \E o \in Failures : Leave(q, o)
          /\ UNCHANGED <<got, verdict>>
    /\ UNCHANGED <<dbVars, history, parts, shown, upset>>

\* A tool call is executed while round_no, which is calls - 1, is below the
\* maximum.
BudgetOffByOne(q) == calls[q] <= MaxToolCalls + 1
BudgetLeft(q) == calls[q] <= MaxToolCalls

\* send() gets a whole reply, or a failure.
Reply(q) ==
    /\ pc[q] = "wait"
    /\ \/ Goto(q, "wait", "save") /\ UNCHANGED outcome
       \/ /\ MayUseTools(q) /\ BudgetLeft(q)
          /\ Goto(q, "wait", "tool")
          /\ UNCHANGED outcome
       \/ \E o \in Failures : Leave(q, o)
    /\ UNCHANGED <<dbVars, calls, history, textVars>>

\* _execute_tool_round().  A result of more than TOOL_RESULT_MAX_CHARS is
\* cut and then parsed as JSON again, which raises; so does a tool function
\* whose arguments it cannot convert.
ToolResults == {"fits", "too_long", "raised"}

ToolRound(q, result) ==
    /\ pc[q] = "tool"
    /\ \/ /\ result = "fits"
          /\ Goto(q, "tool", "call")
          /\ AppendRow(q, "tool", FALSE)
          /\ UNCHANGED outcome
       \/ /\ result # "fits" /\ ticket[q] = 0
          /\ Leave(q, "internal")
          /\ UNCHANGED dbVars
    /\ UNCHANGED <<calls, history, textVars>>

Save(q) ==
    /\ pc[q] = "save"
    /\ AppendRow(q, "assistant", FALSE)
    /\ Leave(q, "ok")
    /\ UNCHANGED <<calls, history, textVars>>

-----------------------------------------------------------------------------
\* send_stream(): the reply arrives in deltas.

Emit(q) == parts' = [parts EXCEPT ![q] = @ + 1]

\* One delta of the reply.
Delta(q) ==
    /\ pc[q] = "stream" /\ got[q] < MaxDeltas
    /\ got' = [got EXCEPT ![q] = @ + 1]
    /\ \/ /\ \/ verdict[q] = "open" /\ verdict' = verdict         \* still held
             \/ /\ verdict[q] = "open" /\ MayUseTools(q)
                /\ verdict' = [verdict EXCEPT ![q] = "tool"]
             \/ verdict[q] = "tool" /\ verdict' = verdict
          /\ UNCHANGED <<pc, parts>>
       \/ /\ verdict[q] # "tool"
          /\ verdict' = [verdict EXCEPT ![q] = "plain"]
          /\ Emit(q)
          /\ Goto(q, "stream", "yield")
    /\ UNCHANGED <<dbVars, outcome, calls, history, shown, upset>>

\* The provider says inside the stream that it failed; an event without
\* delta, usage and model is skipped.
ErrorEvent(q) ==
    /\ pc[q] = "stream" /\ ~upset[q]
    /\ upset' = [upset EXCEPT ![q] = TRUE]
    /\ UNCHANGED <<dbVars, pc, outcome, calls, history, got, verdict, parts, shown>>

\* The client took the piece of the last yield.
Taken(q) ==
    /\ \/ Goto(q, "yield", "stream") /\ UNCHANGED outcome
       \/ pc[q] = "last" /\ Leave(q, "ok")
    /\ shown' = [shown EXCEPT ![q] = @ + 1]
    /\ UNCHANGED <<dbVars, calls, history, got, verdict, parts, upset>>

Undecided(q) == verdict[q] = "open" /\ got[q] > 0

\* The reply is complete ([DONE], or the connection closed).
\* Shown as it came, or empty:
EndPlain(q) ==
    /\ pc[q] = "stream"
    /\ verdict[q] = "plain" \/ got[q] = 0
    /\ Leave(q, "ok")
    /\ UNCHANGED <<dbVars, calls, history, textVars>>

\* a tool call that can be executed:
EndTool(q) ==
    /\ verdict[q] = "tool" \/ (Undecided(q) /\ MayUseTools(q))
    /\ BudgetLeft(q)
    /\ Goto(q, "stream", "tool")
    /\ UNCHANGED <<dbVars, outcome, calls, history, textVars>>

\* short and plain, not parseable as a call, or one call too many: the text
\* held back goes out in one piece.
EndHeld(q) ==
    /\ verdict[q] = "tool" \/ Undecided(q)
    /\ Goto(q, "stream", "last")
    /\ Emit(q)
    /\ UNCHANGED <<dbVars, outcome, calls, history, got, verdict, shown, upset>>

\* The finally block.  It saves what was emitted, and the done event follows
\* only a completed reply that was saved.
FinalIfComplete(q) ==
    /\ pc[q] = "final"
    /\ IF outcome[q] = "ok"
       THEN AppendRow(q, "assistant", FALSE) /\ LeaveUnsaved(q, outcome[q])
       ELSE UNCHANGED dbVars /\ LeaveUnsaved(q, outcome[q])
    /\ UNCHANGED <<calls, history, textVars>>

FinalUnmarked(q) ==
    /\ pc[q] = "final"
    /\ IF parts[q] > 0
       THEN AppendRow(q, "assistant", FALSE) /\ LeaveUnsaved(q, outcome[q])
       ELSE UNCHANGED dbVars /\ LeaveUnsaved(q, outcome[q])
    /\ UNCHANGED <<calls, history, textVars>>

Final(q) ==
    /\ pc[q] = "final"
    /\ IF parts[q] > 0
       THEN /\ AppendRow(q, "assistant", outcome[q] # "ok")
            /\ LeaveUnsaved(q, outcome[q])
       ELSE /\ LeaveUnsaved(q, IF outcome[q] = "ok" THEN "silent" ELSE outcome[q])
            /\ UNCHANGED dbVars
    /\ UNCHANGED <<calls, history, textVars>>

-----------------------------------------------------------------------------
\* What goes wrong at any await: the database or the network is away, the
\* provider's stream breaks, the conversation of a row is gone.  The open
\* transaction is rolled back.  The finally block may be hit as well (its await
\* can also be cancelled with the request), and saves nothing then.
BreaksRetried(q) ==     \* the insert of an answer is tried again for ever
    /\ pc[q] \in Active
    /\ IF pc[q] = "save" THEN UNCHANGED <<pc, outcome>>
       ELSE IF pc[q] = "final" THEN LeaveUnsaved(q, "unsaved")
       ELSE Leave(q, "internal")
    /\ EndTransaction(q)
    /\ UNCHANGED <<life, messages, serial, calls, history, textVars>>

Breaks(q) ==
    /\ pc[q] \in Active
    /\ IF pc[q] = "final" THEN LeaveUnsaved(q, "unsaved") ELSE Leave(q, "internal")
    /\ EndTransaction(q)
    /\ UNCHANGED <<life, messages, serial, calls, history, textVars>>

\* The client of a stream goes away: the generator is closed.  (FastAPI does
\* not cancel the plain handler.)
Disconnect(q) ==
    /\ q \in Streams
    /\ pc[q] \in Active \ {"final"}
    /\ Leave(q, "gone")
    /\ EndTransaction(q)
    /\ UNCHANGED <<life, messages, serial, calls, history, textVars>>

-----------------------------------------------------------------------------
\* What a request does by itself once it has arrived.
Handle(q) ==
    \/ Insert(q)
    \/ Route(q) \/ Ask(q) \/ Read(q) \/ Request(q) \/ Reply(q)
    \/ \E result \in ToolResults : ToolRound(q, result)
    \/ Save(q) \/ Delta(q) \/ Taken(q)
    \/ EndPlain(q) \/ EndTool(q) \/ EndHeld(q) \/ Final(q)

ChatNext ==
    \/ \E c \in Conversations : Create(c) \/ Delete(c)
    \/ \E q \in Requests : \/ Open(q) \/ Handle(q) \/ ErrorEvent(q)
                           \/ Breaks(q) \/ Disconnect(q)

ChatSafeSpec == ChatInit /\ [][ChatNext]_chatVars

\* Database and provider answer or fail at some time (httpx limits each read, a
\* row lock is held only to the next commit, a lost connection is noticed), and
\* a foreign key that refuses a row raises: an arrived request moves on.
ChatSpec == ChatSafeSpec /\ \A q \in Requests : WF_chatVars(Handle(q) \/ Breaks(q))

-----------------------------------------------------------------------------
\* Properties.

\* A question is committed before the history is read, so of two requests to
\* one conversation that both reached the model, at least one has read the
\* other's question from the database (p = q: and each its own).  The other one
\* may not have, and what was read may still be dropped by the window.
NobodyWritesBlind ==
    \A p, q \in Requests :
        /\ Of[p] = Of[q] /\ calls[p] > 0 /\ calls[q] > 0
        /\ IsOpen(p)
        => \/ \E m \in Question(p) : m.id \in history[q]
           \/ \E m \in Question(q) : m.id \in history[p]

\* usage_today() counts answers and tool rows as requests to the provider.
\* It never counts one that was not made, nor one twice, and for a message
\* that was answered it counts every one.
Counted(q) == {m \in messages : m.req = q /\ m.role # "user"}

UsageAccounted ==
    \A q \in Requests :
        /\ \A m \in Counted(q) :
              /\ m.nth \in 1 .. calls[q]
              /\ \A n \in Counted(q) : n.nth = m.nth => n = m
        /\ pc[q] = "ended" /\ outcome[q] = "ok" /\ IsOpen(q) =>
              \A n \in 1 .. calls[q] : \E m \in Counted(q) : m.nth = n

\* Whatever ends a stream, the log has every piece the client saw, and at
\* most one that it did not see; there is no row only if the saving itself
\* failed or was cancelled, or the conversation is gone.
SavedCoversShown ==
    \A q \in Streams :
        /\ \A m \in AnswerTo(q) : m.pieces \in shown[q] .. shown[q] + 1
        /\ pc[q] = "ended" /\ shown[q] > 0 /\ outcome[q] # "unsaved" /\ IsOpen(q)
              => AnswerTo(q) # {}

\* metadata.truncated tells the truth: an answer has it exactly if its request
\* did not run to its end, and the client took every piece of one without it.
CutIsMarked ==
    \A q \in Requests : \A m \in AnswerTo(q) :
        /\ m.cut <=> outcome[q] # "ok"
        /\ q \in Streams /\ ~m.cut => m.pieces = shown[q]

\* The log of each conversation is a dialogue: one answer to a question, its
\* tool calls in between and within the budget, ids used once and ascending
\* for each sender, nothing after deletion.
Thread(c) == INSTANCE Dialogue WITH life <- life[c], log <- Conversation(c)

EveryThreadIsDialogue ==
    /\ \A c \in Conversations : Thread(c)!DialogueInit
    /\ [][\A c \in Conversations :
             Thread(c)!DialogueNext \/ UNCHANGED Thread(c)!dialogueVars]_chatVars

\* Every request that arrived ends, whatever model, tools, other senders and
\* a deletion do: the tool loop terminates.
RequestsEnd == \A q \in Requests : (pc[q] # "new") ~> (pc[q] = "ended")

\* What tools/web.py says of its tools: failures are data the model can
\* react to, never exceptions that kill a chat.  Whatever the tool brought
\* back, the round ends in another request to the model.
ToolFailuresAreData ==
    [][\A q \in Requests, result \in ToolResults :
          ToolRound(q, result) => pc'[q] = "call"]_chatVars

\* What the changelog says of 0.4.0: provider errors inside a stream surface
\* as error events; so the client is not told that the answer is complete.
ErrorsSurface == \A q \in Requests : upset[q] => outcome[q] # "ok"

=============================================================================
