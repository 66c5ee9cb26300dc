---------------------------- MODULE CatalogSearch ----------------------------
(* A search: the local index answers alone where it knows enough; below that   *)
(* the providers are asked together within one budget, and what they answer is *)
(* merged with what the index knows and remembered in it. Whole answers of the *)
(* fan-out are cached, apart for the searches that left uakino out while its   *)
(* session was not ready.                                                      *)
(*                                                                             *)
(* One query of all providers, without form and style filters. One search is   *)
(* in flight at a time, in two steps: up to the fan-out, and from its end;     *)
(* meanwhile the crawler, another process, writes pages into the index, the    *)
(* session of uakino comes and goes and cached answers lapse. An answer is     *)
(* taken before anything else happens, which nothing else would change. The    *)
(* registration of an answer's groups is CatalogState's.                       *)
EXTENDS LocalIndex

CONSTANTS
    Hits(_, _),         \* provider, edition |-> the cards it answers the query with
    InQuery(_),         \* the cards of the index the query matches
    Gated,              \* the wire ids whose only stream is the promo clip
    Uakino,             \* the lane that needs a browser session
    LocalMin            \* groups from which the index answers alone

ASSUME SearchAssumption == Uakino \in Provider /\ LocalMin \in Nat \ {0}

Answerable == UNION {Hits(p, e) : p \in Provider, e \in Edition}

\* A provider answers with titles of its own, under wire ids that no other uses,
\* and says one thing of each. Titles without an alias are left out.
ASSUME HitsAssumption ==
    /\ \A p \in Provider, e \in Edition :
          /\ IsFiniteSet(Hits(p, e))
          /\ \A c \in Hits(p, e) : c.provider = p
          /\ \A q \in Provider : \A c \in Hits(p, e), d \in Hits(q, e) : c.id = d.id => c = d
    /\ \A c \in Answerable : c.aliases \in (SUBSET Nat) \ {{}} /\ {c.year, c.titled, c.imdb} \subseteq Nat

\* The hash has no collisions among the titles at hand.
ASSUME DigestAssumption ==
    \A c, d \in Answerable : \A a \in c.aliases, b \in d.aliases :
        LET hash == Digest(a, c.form, EffectiveYear(c))
        IN  /\ hash \in Nat
            /\ hash = Digest(b, d.form, EffectiveYear(d)) =>
                  a = b /\ c.form = d.form /\ EffectiveYear(c) = EffectiveYear(d)

VARIABLES
    ready,              \* uakino's session is ready and its lane is not down
    cached,             \* the fan-out's answers: the full ones, and those without uakino
    search,             \* the search in flight
    answer              \* the last answer

searchVars == <<ready, cached, search, answer>>

Scopes == {"all", "no-uakino"}
NoResponse == [cards |-> {}, failures |-> {}, asked |-> {}]
NoSearch == [scope |-> "none", local |-> {}]
NoAnswer == [kind |-> "none", groups |-> {}, failures |-> {}, asked |-> {}, warm |-> FALSE]

SearchInit ==
    /\ ready \in BOOLEAN
    /\ cached = [s \in Scopes |-> NoResponse]
    /\ search = NoSearch
    /\ answer = NoAnswer

-----------------------------------------------------------------------------

\* search_groups: the cards the index matches, of registered providers.
Local == {c \in rows : InQuery(c) /\ c.provider \in Provider}

Asked(scope) == IF scope = "all" THEN Provider ELSE Provider \ {Uakino}

\* Mistake: an answer without uakino is cached under the key of a full one.
OneKey(scope) == "all"

CacheKey(scope) == scope

Say(kind, groups) == answer' = [NoAnswer EXCEPT !.kind = kind, !.groups = groups]

\* Local first: of a card both sides have, the index's is kept.
Unique(local, live) == local \cup {c \in live : c.id \notin {l.id : l \in local}}

\* What is done with an answer of the fan-out, from the cache or fresh: with
\* local matches it is merged into them; it is remembered.
Deliver(local, resp, warm) ==
    LET cards == Unique(local, resp.cards)
        groups == GroupsFromSources(cards)
    IN  /\ Remember(UNION {g.sources : g \in groups})
        /\ answer' = [kind |-> IF local = {} THEN "live" ELSE "hybrid", groups |-> groups,
                      failures |-> resp.failures, asked |-> resp.asked, warm |-> warm]

-----------------------------------------------------------------------------

Idle == search = NoSearch /\ answer = NoAnswer

AnswerLocally ==
    /\ Idle
    /\ LET groups == GroupsFromSources(Local)
       IN  Cardinality(groups) >= LocalMin /\ Say("local", groups)
    /\ UNCHANGED <<rows, site, ready, cached, search>>

\* What is left of the index for the fan-out: too few matches, or none where it
\* is disabled, locked or broken.
TooFew == {local \in {{}, Local} : local = {} \/ Cardinality(GroupsFromSources(local)) < LocalMin}

\* A uakino that is not ready is left out of the fan-out.
Scope == IF ready THEN "all" ELSE "no-uakino"

AnswerFromCache ==
    /\ Idle
    /\ cached[CacheKey(Scope)] # NoResponse
    /\ \E local \in TooFew : Deliver(local, cached[CacheKey(Scope)], ready)
    /\ UNCHANGED <<site, ready, cached, search>>

AskProviders ==
    /\ Idle
    /\ cached[CacheKey(Scope)] = NoResponse
    /\ \E local \in TooFew : search' = [scope |-> Scope, local |-> local]
    /\ UNCHANGED <<rows, site, ready, cached, answer>>

InFlight == search # NoSearch

\* The budget ends or everybody is done, some lane in time: the others, and those
\* that failed, are listed. Cards found to be gated go, where the sweep ends in
\* time.
Gather ==
    /\ InFlight
    /\ LET asked == Asked(search.scope)
       IN  \E well \in SUBSET asked : \E swept \in BOOLEAN :
             LET cards == UNION {Hits(p, site) : p \in well}
                 resp == [cards |-> {c \in cards : swept => c.id \notin Gated},
                          failures |-> asked \ well, asked |-> asked]
             IN  /\ cached' = [cached EXCEPT ![CacheKey(search.scope)] = resp]
                 /\ Deliver(search.local, resp, search.scope = "all")
    /\ search' = NoSearch
    /\ UNCHANGED <<site, ready>>

\* Nobody answered within the budget: what the index knows is served, without
\* the failures; where it knows nothing the search fails. Neither is cached.
GatherNothing ==
    /\ InFlight
    /\ Say(IF search.local = {} THEN "error" ELSE "fallback", GroupsFromSources(search.local))
    /\ search' = NoSearch
    /\ UNCHANGED <<rows, site, ready, cached>>

TakeAnswer ==
    /\ answer # NoAnswer
    /\ answer' = NoAnswer
    /\ UNCHANGED <<rows, site, ready, cached, search>>

-----------------------------------------------------------------------------
(* The surroundings. *)

Quiet == answer = NoAnswer

\* Its session gets ready, its lane goes down or comes up.
TurnUakino ==
    /\ Quiet
    /\ ready' = ~ready
    /\ UNCHANGED <<rows, site, cached, search, answer>>

LapseAnswer ==
    /\ Quiet
    /\ \E s \in Scopes : cached[s] # NoResponse /\ cached' = [cached EXCEPT ![s] = NoResponse]
    /\ UNCHANGED <<rows, site, ready, search, answer>>

\* The crawler writes what a provider lists.
CrawlPage ==
    /\ Quiet
    /\ \E p \in Provider : rows' = Upsert(rows, Hits(p, site))
    /\ UNCHANGED <<site, ready, cached, search, answer>>

SearchNext ==
    \/ AnswerLocally \/ AnswerFromCache \/ AskProviders
    \/ Gather \/ GatherNothing \/ TakeAnswer
    \/ TurnUakino \/ LapseAnswer \/ CrawlPage

-----------------------------------------------------------------------------
(* Properties. *)

\* A reference definition of a work: the cards that a chain of shared titles
\* and numbers connects.
Connected(cards, c) ==
    {d \in cards : \A S \in SUBSET cards :
        (c \in S /\ \A x \in S : \A y \in cards : SameTitle(x, y) \/ SameTitle(y, x) \/ SameWork(x, y) => y \in S)
           => d \in S}

\* However the cards of an answer came together, from the index, the cache and
\* the lanes: its groups are the works among them, no wire id is shown twice,
\* no key of one group is a key of another, and a group's own key is a member's,
\* so that a client's record under any of them finds it.
GroupsAreWorks ==
    LET cards == UNION {g.sources : g \in answer.groups}
    IN  /\ {g.sources : g \in answer.groups} = {Connected(cards, c) : c \in cards}
        /\ \A c, d \in cards : c.id = d.id => c = d
        /\ \A g, h \in answer.groups : g # h => g.keys \cap h.keys = {}
        /\ \A g \in answer.groups : g.key \in g.keys

\* A search that begins while uakino is ready gets no answer that left it out,
\* neither from an earlier search that had to nor from one that began before.
WarmSearchAsksAll == answer.kind \in {"live", "hybrid"} /\ answer.warm => answer.asked = Provider

=============================================================================
