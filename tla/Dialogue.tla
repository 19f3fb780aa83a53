------------------------------ MODULE Dialogue ------------------------------
(***************************************************************************)
(* What the message log of ONE conversation promises, however many people  *)
(* send to it at once and whatever fails: a question is logged once; while *)
(* it has no answer, tool calls made for it are logged, each for a request *)
(* of its own to the model and at most MaxToolCalls; at most one answer    *)
(* ends it, whole or cut short.  No id is used twice, and the entries of   *)
(* one question are in the order of their ids; those of different senders  *)
(* may appear in any order.  Entries never change, and they go only all    *)
(* together, with the conversation.                                        *)
(***************************************************************************)
EXTENDS Naturals

CONSTANT MaxToolCalls

VARIABLES life,     \* "unborn", "open" or "deleted"
          log       \* the entries: [id, req, role, nth, ...]

dialogueVars == <<life, log>>

DialogueInit == life = "unborn" /\ log = {}

Asked(q) == \E e \in log : e.req = q /\ e.role = "user"
Answered(q) == \E e \in log : e.req = q /\ e.role = "assistant"

\* The requests to the model for question q whose outcome is logged.
Used(q) == {e.nth : e \in {f \in log : f.req = q /\ f.role # "user"}}

Adds(e) == /\ life = "open"
           /\ \A f \in log : f.id # e.id /\ (f.req = e.req => f.id < e.id)
           /\ log' = log \cup {e}
           /\ UNCHANGED life

Ask(e) == /\ e.role = "user"
          /\ ~Asked(e.req) /\ Used(e.req) = {}
          /\ Adds(e)

Consult(e) == /\ e.role = "tool"
              /\ Asked(e.req) /\ ~Answered(e.req)
              /\ e.nth \in 1 .. MaxToolCalls
              /\ e.nth \notin Used(e.req)
              /\ Adds(e)

Answer(e) == /\ e.role = "assistant"
             /\ Asked(e.req) /\ ~Answered(e.req)
             /\ e.nth \in 1 .. MaxToolCalls + 1
             /\ e.nth \notin Used(e.req)
             /\ Adds(e)

Born == life = "unborn" /\ life' = "open" /\ UNCHANGED log

Erased == life = "open" /\ life' = "deleted" /\ log' = {}

DialogueNext == \/ \E e \in log' : Ask(e) \/ Consult(e) \/ Answer(e)
                \/ Born
                \/ Erased

DialogueSpec == DialogueInit /\ [][DialogueNext]_dialogueVars

=============================================================================
