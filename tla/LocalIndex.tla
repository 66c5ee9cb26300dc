------------------------------ MODULE LocalIndex ------------------------------
(* The local catalog index and the merge core: the cards the index holds, how  *)
(* it takes new ones in, and how listing cards of several providers become     *)
(* groups with stateless keys. The crawler writes the index, searches read it  *)
(* and write it.                                                               *)
(*                                                                             *)
(* A card is what a listing says of one title: its wire id, provider, titles   *)
(* (aliases, as numbers), form, year field (0 where it has none), the year its *)
(* title carries, and an IMDb number (0 where nobody asserts one). Posters,    *)
(* genres and the order of sources are left out.                               *)
EXTENDS Integers, FiniteSets, SequencesExt

CONSTANTS
    Registry,           \* the providers, in the order they are registered
    Edition,            \* the states the sites' listings go through
    Digest(_, _, _)     \* the hash of an alias, a form and a year

VARIABLES
    rows,               \* the index: one card for each wire id it holds
    site                \* the edition the sites serve now

Provider == ToSet(Registry)

IsSequence(x) == x \in Seq(ToSet(x))

ASSUME RegistryAssumption == IsSequence(Registry)

-----------------------------------------------------------------------------
(* Identity. *)

EffectiveYear(c) == IF c.year # 0 THEN c.year ELSE c.titled

YearsMatch(x, y) == x = 0 \/ y = 0 \/ x = y

Least(S) == CHOOSE x \in S : \A y \in S : x <= y

ImdbKey(n) == <<"g3", n>>

\* The key a card has by itself: by the IMDb number it asserts, else by the
\* hash of its most canonical alias, its form and its effective year.
ItemKey(c) ==
    IF c.imdb # 0
    THEN ImdbKey(c.imdb)
    ELSE <<"g2", Digest(Least(c.aliases), c.form, EffectiveYear(c))>>

-----------------------------------------------------------------------------
(* merge_results: a union-find over the listing, in two passes. *)

SameTitle(c, d) ==
    /\ c.form = d.form
    /\ c.aliases \cap d.aliases # {}
    /\ YearsMatch(EffectiveYear(c), EffectiveYear(d))

SameWork(c, d) == c.imdb # 0 /\ c.imdb = d.imdb

\* Mistake: of the cards a card's titles unite it with only the latest is kept in mind.
LatestPartner(items, i) ==
    LET near == {k \in 1 .. i - 1 : SameTitle(items[i], items[k])}
    IN  {items[j] : j \in {k \in near : \A m \in near : m <= k}}

\* The cards listed before a card that its titles unite it with.
Partners(items, i) == {items[j] : j \in {k \in 1 .. i - 1 : SameTitle(items[i], items[k])}}

\* The cards listed before a card with the IMDb number it asserts. (It is united
\* with the first of them, as the others were.)
Assertors(items, i) == {items[j] : j \in {k \in 1 .. i - 1 : SameWork(items[i], items[k])}}

Union(blocks, cards) ==
    LET touched == {b \in blocks : b \cap cards # {}}
    IN  (blocks \ touched) \cup {UNION touched}

\* What a row of unions makes of some blocks, one after the other.
United(blocks, joins) ==
    LET united[i \in 0 .. Len(joins)] ==
            IF i = 0 THEN blocks ELSE Union(united[i - 1], joins[i])
    IN  united[Len(joins)]

Blocks(items) ==
    LET singles == {{items[i]} : i \in DOMAIN items}
        titled == [i \in DOMAIN items |-> {items[i]} \cup Partners(items, i)]
        asserted == [i \in DOMAIN items |-> {items[i]} \cup Assertors(items, i)]
    IN  United(United(singles, titled), asserted)

\* An IMDb number is the group's identity where a member asserts one; else the
\* smallest key among the members with a year, or among all where none has one.
GroupKey(members) ==
    LET asserted == {c.imdb : c \in {m \in members : m.imdb # 0}}
        yearful == {m \in members : EffectiveYear(m) # 0}
        preferred == IF yearful # {} THEN yearful ELSE members
    IN  IF asserted # {}
        THEN ImdbKey(Least(asserted))
        ELSE <<"g2", Least({ItemKey(m)[2] : m \in preferred})>>

\* project_group: the group with the keys of all of its members.
Project(members) == [key |-> GroupKey(members), sources |-> members, keys |-> {ItemKey(m) : m \in members}]

\* Lanes are listed in the registry's order. (The index ranks its own matches by
\* spelling and freshness; the blocks are the same in every order.)
Listed(cards) ==
    LET listed[k \in 0 .. Len(Registry)] ==
            IF k = 0 THEN <<>>
            ELSE listed[k - 1] \o SetToSeq({c \in cards : c.provider = Registry[k]})
    IN  listed[Len(Registry)]

GroupsFromSources(cards) == {Project(b) : b \in Blocks(Listed(cards))}

-----------------------------------------------------------------------------
(* The index itself. *)

Upsert(held, cards) == {r \in held : r.id \notin {c.id : c \in cards}} \cup cards

\* A crawl's page or a search's answer is written in one transaction, or not at
\* all where the file is locked or broken.
Remember(cards) == rows' \in {rows, Upsert(rows, cards)}

=============================================================================
