----------------------------- MODULE StreamShim -----------------------------
(***************************************************************************)
(* One POST /v1/chat/completions (api/openai_compat.py).  A stream of the  *)
(* provider comes in chunks that end anywhere, is taken apart into events, *)
(* each of which is peeked into and passed on, and its metadata is logged  *)
(* when it is over, however that comes.                                    *)
(*                                                                         *)
(* An event is the set of what the code looks for in it; {} is a comment,  *)
(* [DONE] or no JSON, and one with "odd" makes .get() fail, after usage    *)
(* and model were taken from it if it has them.  The bytes of an event are *)
(* two halves.  Models and usages are told apart by the event they come    *)
(* from; model 0 is the one that was asked for, and usage the set of those *)
(* merged by update().  A plain reply is one whose events come all at once.*)
(***************************************************************************)
EXTENDS Naturals, Sequences, SequencesExt, FiniteSetsExt

CONSTANT MaxEvents      \* bound: events in a reply
ASSUME EventsAssumption == MaxEvents \in Nat

Events == {said \cup more : said \in SUBSET {"model", "usage"},
                            more \in {{}, {"text"}, {"odd"}}}

VARIABLES
    stream,         \* the request has stream = true
    routed,         \* the model is octo/auto and CHAT_SHOW_ROUTED_MODEL is on
    events,         \* what the provider sends if nothing happens
    halves,         \* halves received
    out,            \* how many events were yielded, in their order
    want_prefix,
    prefixes,       \* <<event, model>> of every prefix
    actual_model, usage,
    phase, status,
    after,          \* what was yielded after the events
    rows,           \* <<model, usage>> of the log rows of this request
    pool            \* "none", "up" or "down"

peekVars == <<want_prefix, prefixes, actual_model, usage>>
shimVars == <<stream, routed, events, halves, out, peekVars, phase, status, after, rows, pool>>

ShimInit ==
    /\ stream \in BOOLEAN /\ routed \in BOOLEAN
    /\ events \in SeqOf(Events, MaxEvents)
    /\ halves = 0 /\ out = 0
    /\ want_prefix = routed /\ prefixes = {} /\ actual_model = 0 /\ usage = {}
    /\ phase = "route" /\ status = 0 /\ after = <<>> /\ rows = <<>>
    /\ pool \in {"none", "up"}

EndWith(code) == phase' = "ended" /\ status' = code

\* A stream commits its 200 before it calls the provider.
Route ==
    /\ phase = "route"
    /\ \/ EndWith(400)
       \/ phase' = "call" /\ status' = IF stream THEN 200 ELSE 0
    /\ UNCHANGED <<stream, routed, events, halves, out, peekVars, after, rows, pool>>

With(what) == {i \in DOMAIN events : what \in events[i]}
Newest(what) == Max(With(what) \cup {0})

\* A plain answer, of whatever status, is logged before it is returned; a
\* quota or an exception, also that of a body that is no JSON, is not.
Complete ==
    /\ phase = "call" /\ ~stream
    /\ \/ \E code \in {429, 500} : EndWith(code) /\ UNCHANGED <<out, peekVars>>
       \/ \E code \in {200, 404} :
             /\ phase' = "log" /\ status' = code
             /\ out' = Len(events)
             /\ actual_model' = Newest("model")
             /\ usage' = IF code = 200 THEN With("usage") ELSE {}
             /\ prefixes' = IF routed /\ code = 200 /\ With("text") # {}
                            THEN {<<Min(With("text")), Newest("model")>>} ELSE {}
             /\ UNCHANGED want_prefix
    /\ UNCHANGED <<stream, routed, events, halves, after, rows, pool>>

-----------------------------------------------------------------------------
InBuffer == halves - 2 * out

WholeInBufferEarly == InBuffer > 0
WholeInBuffer == InBuffer >= 2

Chunk(n) ==
    /\ phase = "call" /\ stream /\ ~WholeInBuffer
    /\ halves + n <= 2 * Len(events)
    /\ halves' = halves + n
    /\ UNCHANGED <<stream, routed, events, out, peekVars, phase, status, after, rows, pool>>

\* The next whole event of the buffer is peeked into: first its usage and its
\* model, then its text.
WantsNextAgain(event) == want_prefix
WantsNext(event) == want_prefix /\ "text" \notin event
FirstModelOf(i) == IF "model" \in events[i] /\ actual_model = 0 THEN i ELSE actual_model
ModelOf(i) == IF "model" \in events[i] THEN i ELSE actual_model

Peek(i) ==
    /\ phase = "call" /\ stream /\ WholeInBuffer
    /\ usage' = usage \cup {j \in {i} : "usage" \in events[j]}
    /\ actual_model' = ModelOf(i)

Pass ==
    LET i == out + 1
    IN /\ Peek(i)
       /\ "odd" \notin events[i]
       /\ out' = i
       /\ prefixes' = prefixes \cup IF want_prefix /\ "text" \in events[i]
                                    THEN {<<i, actual_model'>>} ELSE {}
       /\ want_prefix' = WantsNext(events[i])
    /\ UNCHANGED <<stream, routed, events, halves, phase, status, after, rows, pool>>

\* .get() raises: the event is not passed on, what it said is kept.
Choke ==
    /\ Peek(out + 1)
    /\ "odd" \in events[out + 1]
    /\ phase' = "tell"
    /\ UNCHANGED <<stream, routed, events, halves, out, want_prefix, prefixes, status,
                   after, rows, pool>>

\* The provider is done.  Its last event may lack the blank line, and stays
\* in the buffer.
Close ==
    /\ phase = "call" /\ stream /\ ~WholeInBuffer
    /\ halves + 1 >= 2 * Len(events)
    /\ phase' = "log"
    /\ UNCHANGED <<stream, routed, events, halves, out, peekVars, status, after, rows, pool>>

\* The provider refuses, or the connection breaks, while the next chunk is
\* awaited: the client has its 200 already, so it is told in an event.
FailSilently ==
    /\ phase = "call" /\ stream /\ ~WholeInBuffer
    /\ phase' = "log"
    /\ UNCHANGED <<stream, routed, events, halves, out, peekVars, status, after, rows, pool>>

Fail ==
    /\ phase = "call" /\ stream /\ ~WholeInBuffer
    /\ phase' = "tell"
    /\ UNCHANGED <<stream, routed, events, halves, out, peekVars, status, after, rows, pool>>

Tell ==
    /\ phase = "tell"
    /\ after' = Append(after, IF after = <<>> THEN "error" ELSE "done")
    /\ phase' = IF after = <<>> THEN "tell" ELSE "log"
    /\ UNCHANGED <<stream, routed, events, halves, out, peekVars, status, rows, pool>>

\* The client of a stream goes away.
Disconnect ==
    /\ stream /\ phase \in {"call", "tell"}
    /\ phase' = "log" /\ status' = 499
    /\ UNCHANGED <<stream, routed, events, halves, out, peekVars, after, rows, pool>>

\* _log_metadata(), for a stream in its finally block.  Without a pool there
\* is no row; a database that is away raises, which is a 500 or cuts the
\* stream before its last chunk.
Log ==
    /\ phase = "log"
    /\ CASE pool = "none" -> EndWith(status) /\ UNCHANGED rows
         [] pool = "up" -> EndWith(status) /\ rows' = Append(rows, <<actual_model, usage>>)
         [] pool = "down" -> EndWith(500) /\ UNCHANGED rows
    /\ UNCHANGED <<stream, routed, events, halves, out, peekVars, after, pool>>

DatabaseAway ==
    /\ pool = "up" /\ phase # "ended"
    /\ pool' = "down"
    /\ UNCHANGED <<stream, routed, events, halves, out, peekVars, phase, status, after, rows>>

ShimNext ==
    \/ Route \/ Complete \/ (\E n \in 1 .. 2 * MaxEvents : Chunk(n))
    \/ Pass \/ Choke \/ Close \/ Fail \/ Tell \/ Disconnect \/ Log \/ DatabaseAway

ShimSpec == ShimInit /\ [][ShimNext]_shimVars

-----------------------------------------------------------------------------
\* However the bytes are cut, only whole events are passed, and a stream that
\* ends well has passed everything but an unterminated last event.
PassedVerbatim ==
    /\ stream => 2 * out <= halves
    /\ phase = "ended" /\ stream /\ status = 200 /\ after = <<>> =>
          out + 1 >= Len(events) /\ (out < Len(events) => halves < 2 * Len(events))

\* A routed answer says once, where its text begins, who answered: the model
\* that was announced last by then.
PrefixedOnce ==
    /\ \A p \in prefixes : /\ routed
                           /\ p[1] = Min(With("text"))
                           /\ p[2] = Max({i \in With("model") : i <= p[1] \/ ~stream} \cup {0})
    /\ stream /\ routed /\ (\E i \in With("text") : i <= out) => prefixes # {}

\* A stream never just stops: to a client that stays, a reply that is not
\* whole ends with an error and [DONE].
NeverJustStops ==
    phase = "ended" /\ status = 200 /\ stream =>
        \/ after = <<"error", "done">>
        \/ after = <<>> /\ halves + 1 >= 2 * Len(events)

\* Requests are logged at most once, and a row has the newest model and all the
\* usages of what the client was given, also when it left halfway; only when
\* the next event broke the stream, which the client then was told or was gone,
\* may that event be in it as well.
UpTo(what, n) == {i \in With(what) : i <= n}

LoggedAsRead ==
    /\ Len(rows) <= 1
    /\ \A k \in DOMAIN rows : \E n \in {out, out + 1} :
          /\ rows[k][1] = Max(UpTo("model", n) \cup {0})
          /\ stream => rows[k][2] = UpTo("usage", n)
          /\ n > out => n \in With("odd") /\ (status # 200 \/ after # <<>>)
    /\ phase = "ended" /\ status \in {200, 404} /\ pool = "up" => rows # <<>>

\* What a comment in _log_metadata() says: the shim still answers without a
\* database.  An answer it has does not turn into a failure.
AnswersWithoutDatabase == phase = "ended" /\ out > 0 => status # 500

=============================================================================
