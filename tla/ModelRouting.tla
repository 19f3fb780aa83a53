---------------------------- MODULE ModelRouting ----------------------------
(***************************************************************************)
(* Which provider a request goes to and which models it may name there:    *)
(* route_chat_model() of providers/base.py with the policies of the        *)
(* providers, for the chat surfaces, and the checks that begin             *)
(* OpenRouterExecutor.execute() for agents.  The model of a conversation   *)
(* or of a manifest is text nobody checked, written under settings that    *)
(* may be others by now: a restart reads them again.                       *)
(***************************************************************************)
EXTENDS Naturals, Sequences, FiniteSets

CONSTANTS Requests,
          Models,           \* names a conversation, a body or a manifest has
          Free,             \* those that end with :free
          Local,            \* those that start with octo/local-
          Claude,           \* octo/claude and those that start with claude-
          AUTO_MODEL,       \* octo/auto
          Default,          \* "default"
          Preferences,      \* bound: values of OPENROUTER_PREFERRED_MODELS
          Arrays            \* bound: what a /v1 body has in its field models

ASSUME RoutingAssumption ==
    /\ Free \subseteq Models /\ Local \subseteq Models /\ Claude \subseteq Models
    /\ {AUTO_MODEL, Default} \subseteq Models
    /\ AUTO_MODEL \notin Free \cup Local \cup Claude
    /\ Default \notin Free \cup Local \cup Claude \cup {AUTO_MODEL}
    /\ Free \cap (Local \cup Claude) = {} /\ Local \cap Claude = {}
    /\ Preferences \subseteq Seq(Models)
    /\ Arrays \subseteq SUBSET Models /\ {} \in Arrays

MAX_FALLBACK_MODELS == 3

Settings == [default_model: Models,         \* OPENROUTER_DEFAULT_MODEL
             preferred: Preferences,
             allow_paid: BOOLEAN,           \* OPENROUTER_ALLOW_PAID
             openrouter_key: BOOLEAN, anthropic_key: BOOLEAN, ollama: BOOLEAN]

VARIABLES
    settings,
    asked,      \* of each request: its surface, model, and own models array
    pc,         \* "new", "resolving", "routed", "sent" or "refused"
    provider, model,
    sent        \* what left: the request, provider, payload and settings

routingVars == <<settings, asked, pc, provider, model, sent>>

\* "chat" is send() and stream_send(), "v1" the shim, whose client sends a
\* body of its own.
Surfaces == {"chat", "v1", "agent"}
ChatSurfaces == {"chat", "v1"}
Asked == {a \in [surface: Surfaces, model: Models, models: Arrays] :
             a.surface # "v1" => a.models = {}}
Providers == {"none", "ollama", "anthropic", "openrouter"}

\* The fields model, a set that is empty when the field is absent, and models.
Payload == [model: SUBSET Models, models: SUBSET Models]

RoutingTypeOK ==
    /\ settings \in Settings
    /\ asked \in [Requests -> Asked]
    /\ pc \in [Requests -> {"new", "resolving", "routed", "sent", "refused"}]
    /\ provider \in [Requests -> Providers]
    /\ model \in [Requests -> Models]
    /\ sent \subseteq [req: Requests, provider: Providers, payload: Payload,
                       settings: Settings]

\* Nothing is known of a request before it is made.
RoutingInit ==
    /\ settings \in Settings
    /\ asked \in [Requests -> Asked]
    /\ pc = [q \in Requests |-> "new"]
    /\ provider = [q \in Requests |-> "none"]
    /\ model = [q \in Requests |-> Default]
    /\ sent = {}

-----------------------------------------------------------------------------
\* providers/openrouter.py.

resolve_model(m) == IF m = Default THEN settings.default_model ELSE m

enforce_free(m) == m = AUTO_MODEL \/ m \in Free \/ settings.allow_paid

\* router_candidates(): the first preferred models that are free, for the
\* fallback array of route_payload().  There may be none.
router_candidates_all ==
    LET preferred == settings.preferred
    IN {preferred[i] : i \in {j \in DOMAIN preferred : j <= MAX_FALLBACK_MODELS}}

router_candidates ==
    LET preferred == settings.preferred
        free(n) == {i \in DOMAIN preferred : i < n /\ preferred[i] \in Free}
    IN {preferred[i] : i \in {j \in free(Len(preferred) + 1) :
                                 Cardinality(free(j)) < MAX_FALLBACK_MODELS}}

\* Only octo/auto is taken out of a payload; the rest of a body is passed on
\* as it is, whatever its array names.
route_payload(p) ==
    IF p.model = {AUTO_MODEL} THEN [model |-> {}, models |-> router_candidates] ELSE p

\* What each provider makes of the payload; to_anthropic_kwargs() takes over
\* the model alone.
Outgoing(q) ==
    LET body == [model |-> {model[q]}, models |-> asked[q].models]
    IN CASE provider[q] = "openrouter" -> route_payload(body)
         [] provider[q] = "anthropic" -> [body EXCEPT !.models = {}]
         [] OTHER -> body

-----------------------------------------------------------------------------
Resolve(q, to, m) ==
    /\ pc' = [pc EXCEPT ![q] = "routed"]
    /\ provider' = [provider EXCEPT ![q] = to]
    /\ model' = [model EXCEPT ![q] = m]

Refuse(q) == pc' = [pc EXCEPT ![q] = "refused"] /\ UNCHANGED <<provider, model>>

\* resolve_local() awaits Ollama's list of tags.
RouteLocal(q) ==
    /\ pc[q] = "new" /\ asked[q].surface \in ChatSurfaces /\ asked[q].model \in Local
    /\ IF settings.ollama
       THEN pc' = [pc EXCEPT ![q] = "resolving"] /\ UNCHANGED <<provider, model>>
       ELSE Refuse(q)
    /\ UNCHANGED <<settings, asked, sent>>

\* The tag that has the name, when one is installed; the name stands for it.
ResolveLocalElsewhere(q) ==
    /\ pc[q] = "resolving"
    /\ Resolve(q, "ollama", asked[q].model) \/ Resolve(q, "openrouter", asked[q].model)
    /\ UNCHANGED <<settings, asked, sent>>

ResolveLocal(q) ==
    /\ pc[q] = "resolving"
    /\ Resolve(q, "ollama", asked[q].model) \/ Refuse(q)
    /\ UNCHANGED <<settings, asked, sent>>

RouteClaude(q) ==
    /\ pc[q] = "new" /\ asked[q].surface \in ChatSurfaces /\ asked[q].model \in Claude
    /\ IF settings.anthropic_key
       THEN \E m \in Claude : Resolve(q, "anthropic", m)    \* its own default
       ELSE Refuse(q)
    /\ UNCHANGED <<settings, asked, sent>>

\* Everything else of the chat surfaces.
MayAsk(q) == enforce_free(resolve_model(asked[q].model))

RouteGuarded(q) ==
    /\ pc[q] = "new" /\ asked[q].surface \in ChatSurfaces
    /\ asked[q].model \notin Local \cup Claude
    /\ IF MayAsk(q) THEN Resolve(q, "openrouter", resolve_model(asked[q].model))
                    ELSE Refuse(q)
    /\ UNCHANGED <<settings, asked, sent>>

\* OpenRouterExecutor: whatever the manifest names.
RouteAgent(q) ==
    /\ pc[q] = "new" /\ asked[q].surface = "agent"
    /\ IF settings.openrouter_key /\ MayAsk(q)
       THEN Resolve(q, "openrouter", resolve_model(asked[q].model))
       ELSE Refuse(q)
    /\ UNCHANGED <<settings, asked, sent>>

\* complete() or stream().
Send(q) ==
    /\ pc[q] = "routed"
    /\ pc' = [pc EXCEPT ![q] = "sent"]
    /\ sent' = sent \cup {[req |-> q, provider |-> provider[q],
                           payload |-> Outgoing(q), settings |-> settings]}
    /\ UNCHANGED <<settings, asked, provider, model>>

\* The process starts again, with what .env says now.  Its requests are gone
\* and may be made again.
Restart ==
    /\ settings' \in Settings
    /\ pc' = [q \in Requests |-> IF pc[q] = "sent" THEN "sent" ELSE "new"]
    /\ UNCHANGED <<asked, provider, model, sent>>

RoutingNext ==
    \/ \E q \in Requests : \/ RouteLocal(q) \/ ResolveLocal(q) \/ RouteClaude(q)
                           \/ RouteGuarded(q) \/ RouteAgent(q) \/ Send(q)
    \/ Restart

RoutingSpec == RoutingInit /\ [][RoutingNext]_routingVars

-----------------------------------------------------------------------------
\* The models octo itself asks OpenRouter for are free unless the operator
\* opted in, in the settings of the process that sent the request and however
\* the request got its model: the one it names, or the fallback array, which
\* is empty only when no preferred model is free.  Others are in the array only
\* when the client of /v1 named them.  Anthropic is asked only with a key.
OnlyPaidIfAllowed ==
    \A s \in sent :
        /\ s.provider = "openrouter" /\ ~s.settings.allow_paid =>
              /\ s.payload.model \subseteq Free
              /\ s.payload.models \subseteq
                    Free \cup (IF s.payload.model = {} THEN {} ELSE asked[s.req].models)
              /\ s.payload.model \cup s.payload.models = {} =>
                    \A i \in DOMAIN s.settings.preferred : s.settings.preferred[i] \notin Free
        /\ s.provider = "anthropic" => s.settings.anthropic_key

\* What enforce_free() says: only :free models unless the operator opted in.
\* The client's array is not checked, and an empty one leaves the choice to
\* OpenRouter.
OnlyFreeUnlessOptedIn ==
    \A s \in sent : s.provider = "openrouter" /\ ~s.settings.allow_paid =>
        LET named == s.payload.model \cup s.payload.models
        IN named # {} /\ named \subseteq Free

\* A conversation with a local model stays on this host, whatever else is
\* configured, and nothing else goes to Ollama.
LocalStaysLocal ==
    \A s \in sent : asked[s.req].surface \in ChatSurfaces =>
        (s.provider = "ollama" <=> asked[s.req].model \in Local)

=============================================================================
