---------------------------- MODULE ModelCatalog ----------------------------
(***************************************************************************)
(* The list of models a provider offers, behind a cache that all requests  *)
(* of a process share: list_models() of providers/openrouter.py and        *)
(* installed_tags() of providers/ollama.py.  The cache is read, a fetch is *)
(* awaited, and the cache is written, so fetches overlap.                  *)
(*                                                                         *)
(* Listings are told apart by the moment the provider made them; it may    *)
(* offer something else at any moment.  Where a fetch failed or brought no *)
(* models, OpenRouter's list is its configured default, and Ollama's is    *)
(* empty.                                                                  *)
(***************************************************************************)
EXTENDS Integers

CONSTANTS Callers,
          HasDefault,       \* TRUE for OpenRouter, FALSE for Ollama
          TTL,              \* MODELS_CACHE_TTL, TAGS_CACHE_TTL
          MaxTime           \* bound on the clock

ASSUME CatalogAssumption ==
    /\ HasDefault \in BOOLEAN
    /\ TTL \in Nat /\ MaxTime \in Nat

VARIABLES
    now,        \* time.monotonic()
    cache,      \* at, listing, and how long its fetch took; "none" at the start
    asking,     \* "idle", "fetching", "fetched"
    since,      \* when the fetch began
    fetched,    \* what it brought
    told        \* of the listing the caller was given last: its age at that
                \* time, and how long its fetch took

catalogVars == <<now, cache, asking, since, fetched, told>>

None == [kind |-> "none", made |-> 0]

CatalogInit ==
    /\ now = 0
    /\ cache = [at |-> 0, listing |-> None, took |-> 0]
    /\ asking = [c \in Callers |-> "idle"]
    /\ since = [c \in Callers |-> 0]
    /\ fetched = [c \in Callers |-> None]
    /\ told = [c \in Callers |-> [age |-> 0, took |-> 0]]

\* The timeouts of the HTTP client are of single reads, so that a fetch may
\* take any time.
Tick ==
    /\ now < MaxTime
    /\ now' = now + 1
    /\ UNCHANGED <<cache, asking, since, fetched, told>>

Answer(c, listing, took) ==
    /\ asking' = [asking EXCEPT ![c] = "idle"]
    /\ told' = [told EXCEPT ![c] = [age |-> now - listing.made, took |-> took]]

\* An empty list is not taken for a cached one.
Filled == cache.listing.kind = "models" \/ (HasDefault /\ cache.listing.kind # "none")
CachedForEver == Filled
Cached == Filled /\ now - cache.at < TTL

FromCache(c) ==
    /\ asking[c] = "idle" /\ Cached
    /\ Answer(c, cache.listing, cache.took)
    /\ UNCHANGED <<now, cache, since, fetched>>

BeginFetch(c) ==
    /\ asking[c] = "idle" /\ ~Cached
    /\ asking' = [asking EXCEPT ![c] = "fetching"]
    /\ since' = [since EXCEPT ![c] = now]
    /\ UNCHANGED <<now, cache, fetched, told>>

\* The provider answers, or it cannot be reached.
Reply(c, kind) ==
    /\ asking[c] = "fetching"
    /\ asking' = [asking EXCEPT ![c] = "fetched"]
    /\ fetched' = [fetched EXCEPT ![c] = [kind |-> kind, made |-> now]]
    /\ UNCHANGED <<now, cache, since, told>>

\* Whoever is done last writes last.
Stores(kind) == kind # "failed" \/ HasDefault

EndFetch(c) ==
    /\ asking[c] = "fetched"
    /\ cache' = IF Stores(fetched[c].kind)
                THEN [at |-> now, listing |-> fetched[c], took |-> now - since[c]]
                ELSE cache
    /\ Answer(c, fetched[c], now - since[c])
    /\ since' = [since EXCEPT ![c] = 0]
    /\ fetched' = [fetched EXCEPT ![c] = None]
    /\ UNCHANGED now

CatalogNext ==
    \/ Tick
    \/ \E c \in Callers : \/ FromCache(c) \/ BeginFetch(c) \/ EndFetch(c)
                          \/ \E kind \in {"models", "empty", "failed"} : Reply(c, kind)

CatalogSpec == CatalogInit /\ [][CatalogNext]_catalogVars

-----------------------------------------------------------------------------
\* Whatever fetches overlap and fail, nobody is told of a listing that is
\* older than the cache's time to live and the fetch that brought it: also not
\* of a default that stands in for a fetch that failed.
AnswersAreRecent == \A c \in Callers : told[c].age <= TTL + told[c].took

\* The docstring of OpenRouter's list_models(): all models, cached for an
\* hour.  A fetch that fails and ends last writes the default over them.
ListedUntilExpiry ==
    [][cache.listing.kind = "models" /\ now - cache.at < TTL
          => cache'.listing.kind # "failed"]_catalogVars

=============================================================================
