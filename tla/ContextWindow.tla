--------------------------- MODULE ContextWindow ---------------------------
(***************************************************************************)
(* build_context() of chat.py over the life of one conversation: the loop  *)
(* that walks back through the rows and keeps what the token budget holds. *)
(* The rows it charges for are written by the turns before it, answers     *)
(* with the prompt_tokens their provider reported for the whole of its     *)
(* last request, with the results of tools in it.                          *)
(* Rows of several senders may be appended in any order.                   *)
(***************************************************************************)
EXTENDS Integers, Sequences, SequencesExt, FiniteSetsExt

CONSTANTS Budget,       \* CHAT_CONTEXT_BUDGET
          System,       \* characters of the persona's prompt and tool protocol
          Lengths,      \* bound: characters of a message
          Extra,        \* bound: tokens a provider counts beyond the first request's
          MaxRows       \* bound: rows of the conversation

ASSUME WindowAssumption ==
    /\ Budget \in Nat \ {0} /\ System \in Nat /\ MaxRows \in Nat
    /\ Lengths \subseteq Nat /\ Extra \subseteq Nat

VARIABLES
    history,    \* rows: role, length, prompt_tokens (0 where it is null)
    turn,       \* "idle", "building" or "sent"
    i,          \* the row msg is
    remaining,
    kept,       \* indexes of the rows kept, oldest first
    sender      \* the row of the question this context is built for

windowVars == <<history, turn, i, remaining, kept, sender>>

estimate_tokens(length) == Max({1, length \div 4})
Cost(msg) == IF msg.prompt_tokens # 0 THEN msg.prompt_tokens
             ELSE estimate_tokens(msg.length)

Estimates == [k \in DOMAIN history |-> estimate_tokens(history[k].length)]
Costs == [k \in DOMAIN history |-> Cost(history[k])]

\* What a provider counts in the request, were its tokens those of
\* estimate_tokens().
Sent == SumFunctionOnSet(Estimates, Range(kept)) + estimate_tokens(System)

WindowInit ==
    /\ history = <<>> /\ turn = "idle"
    /\ i = 0 /\ remaining = 0 /\ kept = <<>> /\ sender = 0

Append1(role, length, prompt_tokens) ==
    /\ Len(history) < MaxRows
    /\ history' = Append(history, [role |-> role, length |-> length,
                                   prompt_tokens |-> prompt_tokens])

\* What an answer can carry: no usage, or that of the last request made for it,
\* which held least tokens and, after tool rounds, more.
Reported(least) == {0} \cup {least + extra : extra \in Extra}

\* A row of another sender, before this one's question or between its commit
\* and the read.
OtherRow ==
    /\ turn = "idle"
    /\ \E length \in Lengths :
          \/ \E role \in {"user", "tool"} : Append1(role, length, 0)
          \/ \E reported \in Reported(estimate_tokens(System)) :
                Append1("assistant", length, reported)
    /\ UNCHANGED <<turn, i, remaining, kept, sender>>

Ask ==
    /\ turn = "idle" /\ sender = 0
    /\ \E length \in Lengths : Append1("user", length, 0)
    /\ sender' = Len(history')
    /\ UNCHANGED <<turn, i, remaining, kept>>

\* get_messages() and the lines before the loop.
Start ==
    /\ turn = "idle" /\ sender # 0
    /\ turn' = "building"
    /\ i' = Len(history)
    /\ remaining' = Budget - estimate_tokens(System)    \* may be negative
    /\ kept' = <<>>
    /\ UNCHANGED <<history, sender>>

FitsStrictly(msg) == remaining - Cost(msg) >= 0
FitsLate(msg) == remaining >= 0 \/ kept = <<>>
Fits(msg) == remaining - Cost(msg) >= 0 \/ kept = <<>>

\* Continue, or charge and keep.
Skip ==
    /\ turn = "building" /\ i > 0 /\ history[i].role = "tool"
    /\ i' = i - 1
    /\ UNCHANGED <<history, turn, remaining, kept, sender>>

Keep ==
    /\ turn = "building" /\ i > 0 /\ history[i].role # "tool" /\ Fits(history[i])
    /\ remaining' = remaining - Cost(history[i])
    /\ kept' = <<i>> \o kept
    /\ i' = i - 1
    /\ UNCHANGED <<history, turn, sender>>

\* Break, or the rows are used up.
Stop ==
    /\ turn = "building"
    /\ i > 0 => history[i].role # "tool" /\ ~Fits(history[i])
    /\ turn' = "sent"
    /\ UNCHANGED <<history, i, remaining, kept, sender>>

\* The answer is appended with the usage of its request, when the provider
\* reports one; of a failed request there is no row.
AnswerRow ==
    /\ turn = "sent"
    /\ \/ \E length \in Lengths, reported \in Reported(Sent) :
             Append1("assistant", length, reported)
       \/ UNCHANGED history
    /\ turn' = "idle" /\ sender' = 0
    /\ UNCHANGED <<i, remaining, kept>>

WindowNext == Ask \/ OtherRow \/ Start \/ Skip \/ Keep \/ Stop \/ AnswerRow

WindowSpec == WindowInit /\ [][WindowNext]_windowVars

-----------------------------------------------------------------------------
Talk == {k \in DOMAIN history : history[k].role # "tool"}
NewestFrom(k) == {j \in Talk : j >= k}            \* the newest rows, from k on
Charged(rows) == SumFunctionOnSet(Costs, rows)
Room == Budget - estimate_tokens(System)

\* The context is the longest run of newest messages whose charges the budget
\* covers, in their order and without audit rows, and never without the
\* newest message.
Affordable == {k \in Talk : Charged(NewestFrom(k)) <= Room \/ k = Max(Talk)}

WindowIsLongest ==
    turn = "sent" => /\ Range(kept) = NewestFrom(Min(Affordable))
                     /\ \A m, n \in DOMAIN kept : m < n => kept[m] < kept[n]

\* A request whose sender is alone on the conversation contains its question.
OwnQuestionSent ==
    turn = "sent" /\ (\A k \in DOMAIN history : k > sender => history[k].role = "tool")
        => sender \in Range(kept)

\* What the docstring says: the system prompt and the most recent messages
\* that fit.  A message fits when the text of the window with it does.
Text(rows) == SumFunctionOnSet(Estimates, rows)

MostRecentThatFit ==
    turn = "sent" =>
        \A k \in Talk : Text(NewestFrom(k)) <= Room => k \in Range(kept)

=============================================================================
