--------------------------- MODULE ProvidersProofs ---------------------------
(***************************************************************************)
(* Proofs about ModelRouting and ModelCatalog.  Whatever models are asked  *)
(* for and however often the settings change, octo itself names nothing    *)
(* billable without an opt-in, and local stays local.  And how old an answer of the *)
(* shared cache can be, for any number of callers and any time to live.    *)
(***************************************************************************)
EXTENDS ModelRouting, ModelCatalog, FiniteSetTheorems, WellFoundedInduction, TLAPS

\* A routed request may go where it is going under the settings of now.
RoutedIsAllowed ==
    \A q \in Requests :
        /\ pc[q] = "routed" =>
              /\ provider[q] = "openrouter" => enforce_free(model[q])
              /\ provider[q] = "anthropic" => settings.anthropic_key
              /\ asked[q].surface \in ChatSurfaces =>
                    (provider[q] = "ollama" <=> asked[q].model \in Local)
        /\ pc[q] = "resolving" =>
              asked[q].surface \in ChatSurfaces /\ asked[q].model \in Local

RoutingInv == RoutingTypeOK /\ RoutedIsAllowed /\ OnlyPaidIfAllowed /\ LocalStaysLocal

\* The fallback array names only free models.
LEMMA CandidatesAreFree ==
    ASSUME RoutingTypeOK
    PROVE  router_candidates \subseteq Free
<1>1. \A i \in DOMAIN settings.preferred : settings.preferred[i] \in Models
    BY RoutingAssumption DEF RoutingTypeOK, Settings
<1> QED
    BY <1>1 DEF router_candidates

\* It is empty only when there is none: the first free one is a candidate.
LEMMA NoCandidateNoneFree ==
    ASSUME RoutingTypeOK, router_candidates = {}
    PROVE  \A i \in DOMAIN settings.preferred : settings.preferred[i] \notin Free
<1> DEFINE R == {ss \in Nat \X Nat : ss[1] < ss[2]}
           F == {i \in DOMAIN settings.preferred : settings.preferred[i] \in Free}
<1>1. settings.preferred \in Seq(Models)
    BY RoutingAssumption DEF RoutingTypeOK, Settings
<1>2. F \subseteq 1 .. Len(settings.preferred) /\ F \subseteq Nat
    BY <1>1
<1>3. ASSUME F # {}
      PROVE  FALSE
    <2>1. IsWellFoundedOn(R, Nat)
        BY NatLessThanWellFounded DEF OpToRel
    <2>2. PICK i \in F : \A j \in F : <<j, i>> \notin R
        <3> HIDE DEF R, F
        <3> QED
            BY <1>2, <1>3, <2>1, WFMin
    <2>3. \A j \in F : ~(j < i)
        BY <1>2, <2>2
    <2> DEFINE Free_(n) == {j \in DOMAIN settings.preferred :
                               j < n /\ settings.preferred[j] \in Free}
                  C == {j \in Free_(Len(settings.preferred) + 1) :
                           Cardinality(Free_(j)) < MAX_FALLBACK_MODELS}
    <2>4. Free_(i) = {} /\ Cardinality(Free_(i)) = 0
        BY <2>3, FS_EmptySet
    <2>5. i \in Free_(Len(settings.preferred) + 1)
        BY <1>1, <1>2, <2>2
    <2>6. i \in C
        <3>1. Cardinality(Free_(i)) < MAX_FALLBACK_MODELS
            <4> HIDE DEF Free_
            <4> QED
                BY <2>4 DEF MAX_FALLBACK_MODELS
        <3> QED
            BY <2>5, <3>1, Zenon
    <2>7. router_candidates = {settings.preferred[j] : j \in C}
        BY DEF router_candidates
    <2> QED
        <3> HIDE DEF C
        <3> QED
            BY <2>6, <2>7
<1> QED
    BY <1>3

\* What leaves for a request that was routed as allowed.
LEMMA OutgoingAllowed ==
    ASSUME RoutingTypeOK, NEW q \in Requests
    PROVE  /\ Outgoing(q) \in Payload
           /\ provider[q] = "openrouter" /\ enforce_free(model[q]) /\ ~settings.allow_paid =>
                 /\ Outgoing(q).model \subseteq Free
                 /\ Outgoing(q).models \subseteq
                       Free \cup (IF Outgoing(q).model = {} THEN {} ELSE asked[q].models)
                 /\ Outgoing(q).model \cup Outgoing(q).models = {} =>
                       \A i \in DOMAIN settings.preferred : settings.preferred[i] \notin Free
<1> DEFINE body == [model |-> {model[q]}, models |-> asked[q].models]
<1>1. body \in Payload
    BY RoutingAssumption DEF RoutingTypeOK, Asked, Payload
<1>2. CASE provider[q] = "openrouter" /\ model[q] = AUTO_MODEL
    <2>1. Outgoing(q) = [model |-> {}, models |-> router_candidates]
        BY <1>2 DEF Outgoing, route_payload
    <2>2. router_candidates \subseteq Free /\ Free \subseteq Models
        BY CandidatesAreFree, RoutingAssumption
    <2> QED
        BY <2>1, <2>2, NoCandidateNoneFree DEF Payload
<1>3. CASE provider[q] = "openrouter" /\ model[q] # AUTO_MODEL
    <2>1. Outgoing(q) = body
        BY <1>3 DEF Outgoing, route_payload
    <2> QED
        BY <1>1, <1>3, <2>1 DEF enforce_free
<1>4. CASE provider[q] # "openrouter"
    <2>1. Outgoing(q) = body \/ Outgoing(q) = [body EXCEPT !.models = {}]
        BY <1>4 DEF Outgoing
    <2> QED
        BY <1>1, <1>4, <2>1 DEF Payload
<1> QED
    BY <1>2, <1>3, <1>4

LEMMA ResolvedTyped ==
    ASSUME RoutingTypeOK, NEW m \in Models
    PROVE  resolve_model(m) \in Models
    BY DEF resolve_model, RoutingTypeOK, Settings

LEMMA SendKeepsInv ==
    ASSUME RoutingInv, NEW q \in Requests, Send(q)
    PROVE  RoutingInv'
<1> DEFINE s == [req |-> q, provider |-> provider[q],
                 payload |-> Outgoing(q), settings |-> settings]
<1> USE DEF RoutingInv
<1>1. /\ pc[q] = "routed" /\ sent' = sent \cup {s}
      /\ pc' = [pc EXCEPT ![q] = "sent"]
      /\ UNCHANGED <<settings, asked, provider, model>>
    BY DEF Send
<1>2. s \in [req: Requests, provider: Providers, payload: Payload, settings: Settings]
    BY OutgoingAllowed DEF RoutingTypeOK
<1> HIDE DEF s
<1>3. /\ s.req = q /\ s.provider = provider[q] /\ s.settings = settings
      /\ s.payload = Outgoing(q)
    BY DEF s
<1>4. RoutingTypeOK'
    BY <1>1, <1>2 DEF RoutingTypeOK
<1>5. RoutedIsAllowed'
    BY <1>1 DEF RoutedIsAllowed, enforce_free, RoutingTypeOK
<1>6. OnlyPaidIfAllowed'
    <2>1. /\ provider[q] = "openrouter" => enforce_free(model[q])
          /\ provider[q] = "anthropic" => settings.anthropic_key
        BY <1>1 DEF RoutedIsAllowed
    <2> QED
        BY <1>1, <1>3, <2>1, OutgoingAllowed DEF OnlyPaidIfAllowed
<1>7. LocalStaysLocal'
    BY <1>1, <1>3 DEF LocalStaysLocal, RoutedIsAllowed
<1> QED
    BY <1>4, <1>5, <1>6, <1>7

\* The routing actions leave sent and settings alone.
LEMMA RouteKeepsInv ==
    ASSUME RoutingInv, NEW q \in Requests,
           RouteLocal(q) \/ ResolveLocal(q) \/ RouteClaude(q) \/ RouteGuarded(q) \/ RouteAgent(q)
    PROVE  RoutingInv'
<1> USE DEF RoutingInv
<1>1. UNCHANGED <<settings, asked, sent>>
    BY DEF RouteLocal, ResolveLocal, RouteClaude, RouteGuarded, RouteAgent
<1>2. /\ asked[q].model \in Models /\ resolve_model(asked[q].model) \in Models
      /\ asked[q].surface \in Surfaces
    BY ResolvedTyped DEF RoutingTypeOK, Asked
<1>3. \/ \E to \in Providers, m \in Models :
            /\ Resolve(q, to, m)
            /\ to = "openrouter" => enforce_free(m)
            /\ to = "anthropic" => settings.anthropic_key
            /\ asked[q].surface \in ChatSurfaces => (to = "ollama" <=> asked[q].model \in Local)
      \/ Refuse(q)
      \/ /\ pc' = [pc EXCEPT ![q] = "resolving"] /\ UNCHANGED <<provider, model>>
         /\ asked[q].surface \in ChatSurfaces /\ asked[q].model \in Local
    <2>1. CASE RouteLocal(q)
        BY <2>1 DEF RouteLocal
    <2>2. CASE ResolveLocal(q)
        BY <2>2, <1>2 DEF ResolveLocal, RoutedIsAllowed, Providers
    <2>3. CASE RouteClaude(q)
        BY <2>3, RoutingAssumption DEF RouteClaude, Providers
    <2>4. CASE RouteGuarded(q)
        BY <2>4, <1>2 DEF RouteGuarded, MayAsk, Providers
    <2>5. CASE RouteAgent(q)
        BY <2>5, <1>2 DEF RouteAgent, MayAsk, Providers, ChatSurfaces
    <2> QED
        BY <2>1, <2>2, <2>3, <2>4, <2>5
<1>4. RoutingTypeOK'
    BY <1>1, <1>3 DEF RoutingTypeOK, Resolve, Refuse
<1>5. RoutedIsAllowed'
    BY <1>1, <1>3 DEF RoutingTypeOK, RoutedIsAllowed, Resolve, Refuse, enforce_free
<1>6. OnlyPaidIfAllowed' /\ LocalStaysLocal'
    BY <1>1 DEF OnlyPaidIfAllowed, LocalStaysLocal
<1> QED
    BY <1>4, <1>5, <1>6

LEMMA RestartKeepsInv ==
    ASSUME RoutingInv, Restart
    PROVE  RoutingInv'
<1> USE DEF RoutingInv
<1>1. RoutingTypeOK'
    BY DEF RoutingTypeOK, Restart
<1>2. RoutedIsAllowed'
    BY DEF RoutedIsAllowed, Restart, RoutingTypeOK
<1>3. OnlyPaidIfAllowed' /\ LocalStaysLocal'
    BY DEF OnlyPaidIfAllowed, LocalStaysLocal, Restart
<1> QED
    BY <1>1, <1>2, <1>3

\* Requests are routed as allowed, and so they leave.
THEOREM RoutingInvariant == RoutingSpec => []RoutingInv
<1>1. RoutingInit => RoutingInv
    BY RoutingAssumption DEF RoutingInit, RoutingInv, RoutingTypeOK, RoutedIsAllowed,
       OnlyPaidIfAllowed, LocalStaysLocal, Providers
<1>2. RoutingInv /\ [RoutingNext]_routingVars => RoutingInv'
    <2> SUFFICES ASSUME RoutingInv, [RoutingNext]_routingVars
                 PROVE  RoutingInv'
        OBVIOUS
    <2>1. CASE RoutingNext
        BY <2>1, SendKeepsInv, RouteKeepsInv, RestartKeepsInv DEF RoutingNext
    <2>2. CASE UNCHANGED routingVars
        BY <2>2 DEF routingVars, RoutingInv, RoutingTypeOK, RoutedIsAllowed,
           OnlyPaidIfAllowed, LocalStaysLocal, enforce_free
    <2> QED
        BY <2>1, <2>2
<1> QED
    BY <1>1, <1>2, PTL DEF RoutingSpec

\* octo itself names no billable model without an opt-in, whatever the settings
\* were when the name was written, and leaves the choice to OpenRouter only
\* when no preferred model is free (route_chat_model(), route_payload()).
THEOREM NothingBillableNamed == RoutingSpec => []OnlyPaidIfAllowed
    BY RoutingInvariant, PTL DEF RoutingInv

\* A conversation with a local model is only ever sent to Ollama.
THEOREM LocalIsPrivate == RoutingSpec => []LocalStaysLocal
    BY RoutingInvariant, PTL DEF RoutingInv

\* Types, of routing and of what was sent.
THEOREM RoutingTypes == RoutingSpec => []RoutingTypeOK
    BY RoutingInvariant, PTL DEF RoutingInv

-----------------------------------------------------------------------------
\* ModelCatalog.

Listing == [kind: {"none", "models", "empty", "failed"}, made: Nat]

CatalogTypes ==
    /\ now \in Nat
    /\ cache \in [at: Nat, listing: Listing, took: Nat]
    /\ asking \in [Callers -> {"idle", "fetching", "fetched"}]
    /\ since \in [Callers -> Nat]
    /\ fetched \in [Callers -> Listing]
    /\ told \in [Callers -> [age: Int, took: Nat]]

\* A listing is stored no later after it was made than its fetch took.
StoredSoon ==
    /\ cache.at <= now
    /\ cache.at - cache.listing.made <= cache.took

\* A listing is made while its fetch is under way.
FetchTimed ==
    \A c \in Callers :
        /\ asking[c] # "idle" => since[c] <= now
        /\ asking[c] = "fetched" => since[c] <= fetched[c].made /\ fetched[c].made <= now

CatalogInv == CatalogTypes /\ StoredSoon /\ FetchTimed /\ AnswersAreRecent

LEMMA CatalogInitHasInv == CatalogInit => CatalogInv
    BY CatalogAssumption DEF CatalogInit, CatalogInv, CatalogTypes, StoredSoon, FetchTimed,
       AnswersAreRecent, Listing, None

LEMMA TickKeepsInv ==
    ASSUME CatalogInv, Tick
    PROVE  CatalogInv'
<1> USE CatalogAssumption DEF CatalogInv, Tick, Listing
<1>1. CatalogTypes' /\ AnswersAreRecent'
    BY DEF CatalogTypes, AnswersAreRecent
<1>2. StoredSoon'
    BY DEF CatalogTypes, StoredSoon
<1>3. FetchTimed'
    BY DEF CatalogTypes, FetchTimed
<1> QED
    BY <1>1, <1>2, <1>3

LEMMA FromCacheKeepsInv ==
    ASSUME CatalogInv, NEW c \in Callers, FromCache(c)
    PROVE  CatalogInv'
<1> USE CatalogAssumption DEF CatalogInv, FromCache, Answer, Listing
<1>1. now - cache.listing.made \in Int /\ now - cache.listing.made <= TTL + cache.took
    BY DEF CatalogTypes, StoredSoon, Cached
<1>2. CatalogTypes'
    BY <1>1 DEF CatalogTypes
<1>3. AnswersAreRecent'
    BY <1>1 DEF CatalogTypes, AnswersAreRecent
<1>4. StoredSoon' /\ FetchTimed'
    BY DEF StoredSoon, FetchTimed, CatalogTypes
<1> QED
    BY <1>2, <1>3, <1>4

LEMMA BeginFetchKeepsInv ==
    ASSUME CatalogInv, NEW c \in Callers, BeginFetch(c)
    PROVE  CatalogInv'
<1> USE CatalogAssumption DEF CatalogInv, BeginFetch, Listing
<1>1. CatalogTypes' /\ AnswersAreRecent' /\ StoredSoon'
    BY DEF CatalogTypes, AnswersAreRecent, StoredSoon
<1>2. FetchTimed'
    BY DEF CatalogTypes, FetchTimed
<1> QED
    BY <1>1, <1>2

LEMMA ReplyKeepsInv ==
    ASSUME CatalogInv, NEW c \in Callers, NEW kind \in {"models", "empty", "failed"},
           Reply(c, kind)
    PROVE  CatalogInv'
<1> USE CatalogAssumption DEF CatalogInv, Reply, Listing
<1>1. CatalogTypes' /\ AnswersAreRecent' /\ StoredSoon'
    BY DEF CatalogTypes, AnswersAreRecent, StoredSoon
<1>2. FetchTimed'
    BY DEF CatalogTypes, FetchTimed
<1> QED
    BY <1>1, <1>2

LEMMA EndFetchKeepsInv ==
    ASSUME CatalogInv, NEW c \in Callers, EndFetch(c)
    PROVE  CatalogInv'
<1> USE CatalogAssumption DEF CatalogInv, EndFetch, Answer, Listing
<1>1. /\ now - fetched[c].made \in Int /\ now - since[c] \in Nat
      /\ now - fetched[c].made <= now - since[c]
    BY DEF CatalogTypes, FetchTimed
<1>2. CatalogTypes'
    BY <1>1 DEF CatalogTypes, None
<1>3. AnswersAreRecent'
    BY <1>1 DEF CatalogTypes, AnswersAreRecent
<1>4. StoredSoon'
    BY <1>1 DEF CatalogTypes, StoredSoon
<1>5. FetchTimed'
    BY DEF CatalogTypes, FetchTimed
<1> QED
    BY <1>2, <1>3, <1>4, <1>5

LEMMA CatalogStepKeepsInv == CatalogInv /\ [CatalogNext]_catalogVars => CatalogInv'
<1> SUFFICES ASSUME CatalogInv, [CatalogNext]_catalogVars
             PROVE  CatalogInv'
    OBVIOUS
<1>1. CASE CatalogNext
    BY <1>1, TickKeepsInv, FromCacheKeepsInv, BeginFetchKeepsInv, ReplyKeepsInv,
       EndFetchKeepsInv DEF CatalogNext
<1>2. CASE UNCHANGED catalogVars
    BY <1>2 DEF catalogVars, CatalogInv, CatalogTypes, StoredSoon, FetchTimed, AnswersAreRecent
<1> QED
    BY <1>1, <1>2

\* Nobody is told of a listing older than the time to live and its fetch.
THEOREM ListingsAreRecent == CatalogSpec => []AnswersAreRecent
<1>1. CatalogInv => AnswersAreRecent
    BY DEF CatalogInv
<1> QED
    BY CatalogInitHasInv, CatalogStepKeepsInv, <1>1, PTL DEF CatalogSpec

=============================================================================
