------------------------------ MODULE HoldBack ------------------------------
(***************************************************************************)
(* How one round of send_stream() tells a tool call from an answer while   *)
(* it arrives (chat.py): it holds the text back until there is enough of   *)
(* it, or a newline, to see whether it starts with TOOL_CALL, and asks     *)
(* parse_tool_call() when a marked reply is complete.  send() asks         *)
(* parse_tool_call() only.                                                 *)
(*                                                                         *)
(* Text is a sequence of pieces: the two halves of the marker, a payload   *)
(* that is a call, one whose args are no mapping, white space and a        *)
(* character of anything else.  The provider may cut it between any two.   *)
(***************************************************************************)
EXTENDS Naturals, Sequences, SequencesExt, FiniteSetsExt

CONSTANT MaxLength      \* bound: pieces in a reply

ASSUME LengthAssumption == MaxLength \in Nat

VARIABLES
    reply,      \* the whole reply, of which the client has no idea yet
    equipped,   \* allowed_tools is not empty
    last,       \* round_no >= chat_max_tool_calls
    got,        \* pieces received
    decided, tool_round,
    shown,      \* what was yielded to the client
    done        \* "no", then "shown", "called" or "raised"

holdVars == <<reply, equipped, last, got, decided, tool_round, shown, done>>

Pieces == {"TOOL_", "CALL", "call", "odd", "x", " ", "\n"}
White == {" ", "\n"}
TOOL_MARKER == <<"TOOL_", "CALL">>

\* Characters; every payload is longer than the marker.
Chars(p) == CASE p = "TOOL_" -> 5 [] p = "CALL" -> 4
              [] p \in {"call", "odd"} -> 20 [] OTHER -> 1
Length(text) == SumFunction([k \in DOMAIN text |-> Chars(text[k])])

Strip(text, chars) == LET ink == {i \in DOMAIN text : text[i] \notin chars}
                      IN IF ink = {} THEN <<>> ELSE SubSeq(text, Min(ink), Max(ink))
lstrip(text) == LET ink == {i \in DOMAIN text : text[i] \notin White}
                IN IF ink = {} THEN <<>> ELSE SubSeq(text, Min(ink), Len(text))
Marked(text) == IsPrefix(TOOL_MARKER, text)

\* parse_tool_call(): the first line that starts with the marker decides.
Line(text, i) == LET ends == {j \in i .. Len(text) : text[j] = "\n"}
                 IN SubSeq(text, i, IF ends = {} THEN Len(text) ELSE Min(ends) - 1)
MarkedLines(text) == {i \in 1 .. Len(text) :
                         /\ i = 1 \/ text[i - 1] = "\n"
                         /\ Marked(Strip(Line(text, i), White))}
Payload(line) == Strip(SubSeq(line, 3, Len(line)), White)

parse_tool_call(text) ==
    IF MarkedLines(text) = {} THEN "none"
    ELSE LET payload == Payload(Strip(Line(text, Min(MarkedLines(text))), White))
         IN CASE payload = <<"call">> -> "call"
              [] payload = <<"odd">> -> "raises"       \* dict() of a string
              [] OTHER -> "none"

HoldInit ==
    /\ reply \in SeqOf(Pieces, MaxLength)
    /\ equipped \in BOOLEAN /\ last \in BOOLEAN
    /\ got = 0
    /\ decided = FALSE /\ tool_round = FALSE
    /\ shown = <<>>
    /\ done = "no"

Received == SubSeq(reply, 1, got)

Enough(held) == Length(lstrip(held)) >= Length(TOOL_MARKER) \/ "\n" \in Range(held)

\* A delta of n pieces.  While undecided, held is all that was received; after
\* that the delta alone is shown.
DeltaAlone(n) ==        \* what was held is never flushed
    LET text == SubSeq(reply, 1, got + n)
    IN /\ done = "no"
       /\ got' = got + n
       /\ decided' = (decided \/ Enough(text))
       /\ tool_round' = IF decided THEN tool_round
                        ELSE decided' /\ equipped /\ Marked(lstrip(text))
       /\ shown' = IF decided' /\ ~tool_round'
                   THEN shown \o SubSeq(text, got + 1, got + n) ELSE shown
       /\ UNCHANGED <<reply, equipped, last, done>>

Delta(n) ==
    LET text == SubSeq(reply, 1, got + n)
        fresh == IF decided THEN SubSeq(text, got + 1, got + n) ELSE text
    IN /\ done = "no"
       /\ got' = got + n
       /\ decided' = (decided \/ Enough(text))
       /\ tool_round' = IF decided THEN tool_round
                        ELSE decided' /\ equipped /\ Marked(lstrip(text))
       /\ shown' = IF decided' /\ ~tool_round' THEN shown \o fresh ELSE shown
       /\ UNCHANGED <<reply, equipped, last, done>>

\* The reply is complete.  A plain round that was decided has been yielded
\* delta by delta, and nothing more is.  What is still undecided is decided; if
\* it is plain, and if a marked reply is no call, or one call too many, the
\* whole text is yielded now.
IsToolRound == IF decided THEN tool_round ELSE equipped /\ Marked(lstrip(reply))

EndIgnoringBudget ==
    /\ done = "no" /\ got = Len(reply)
    /\ tool_round' = IsToolRound
    /\ done' = CASE tool_round' /\ parse_tool_call(reply) = "raises" -> "raised"
                 [] tool_round' /\ parse_tool_call(reply) = "call" -> "called"
                 [] OTHER -> "shown"
    /\ shown' = IF done' = "shown" /\ (decided => tool_round)
                THEN shown \o reply ELSE shown
    /\ UNCHANGED <<reply, equipped, last, got, decided>>

End ==
    /\ done = "no" /\ got = Len(reply)
    /\ tool_round' = IsToolRound
    /\ done' = CASE tool_round' /\ parse_tool_call(reply) = "raises" -> "raised"
                 [] tool_round' /\ parse_tool_call(reply) = "call" /\ ~last -> "called"
                 [] OTHER -> "shown"
    /\ shown' = IF done' = "shown" /\ (decided => tool_round)
                THEN shown \o reply ELSE shown
    /\ UNCHANGED <<reply, equipped, last, got, decided>>

HoldNext == (\E n \in 1 .. Len(reply) - got : Delta(n)) \/ End

HoldSpec == HoldInit /\ [][HoldNext]_holdVars

-----------------------------------------------------------------------------
\* What send() does with the same reply.
SendCalls == equipped /\ ~last /\ parse_tool_call(reply) = "call"

\* However the reply is cut: the client has a prefix of it, in order and
\* without gaps, all of it when it is shown, and nothing of a reply whose
\* call was executed.
ShownInOrder ==
    /\ IsPrefix(shown, Received)
    /\ done = "shown" => shown = reply
    /\ done \in {"called", "raised"} => shown = <<>>

\* A stream executes only what send() would execute, and it does execute what
\* the prompt asks for, one line that starts with the marker, however it is cut.
Prompted == /\ Marked(Strip(reply, {" "}))
            /\ parse_tool_call(reply) = "call"

StreamCallsAsSend ==
    /\ done = "called" => SendCalls
    /\ done # "no" /\ SendCalls /\ Prompted => done = "called"

\* What the docstring of send_stream() says: if the first characters are
\* TOOL_CALL, it is a tool round and never shown.
MarkedNeverShown == SendCalls /\ Marked(lstrip(reply)) => shown = <<>>

=============================================================================
