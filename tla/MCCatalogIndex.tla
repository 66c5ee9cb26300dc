---------------------------- MODULE MCCatalogIndex ----------------------------
EXTENDS CatalogIndex

MCRegistry == <<"kino", "uakino", "yts">>

MCDigest(alias, form, year) == (alias * 10 + (IF form = "movie" THEN 1 ELSE 2)) * 3000 + year

Card(id, provider, aliases, form, year, titled, imdb) ==
    [id |-> id, provider |-> provider, aliases |-> aliases, form |-> form,
     year |-> year, titled |-> titled, imdb |-> imdb]

\* "kino" lists a card that gets its year in the second edition, another film of
\* the same name, and a series where films are asked for; a card of "uakino" has
\* a second title and no year; "yts" lists under the second title, with IMDb
\* numbers, one of them under a title of its own.
Plain(e) == Card("dune", "kino", {1}, "movie", IF e = "second" THEN 2021 ELSE 0, 0, 0)
Old == Card("dune84", "kino", {1}, "movie", 0, 1984, 0)
Show == Card("show", "kino", {1}, "series", 2000, 0, 0)
Both == Card("duna", "uakino", {1, 2}, "movie", 0, 0, 0)
English == Card("tt1", "yts", {2}, "movie", 2021, 0, 7)
Other == Card("tt1-part", "yts", {3}, "series", 2021, 0, 7)

MCListing(p, e) ==
    CASE p = "kino" -> << [form |-> "any", pages |-> <<{Plain(e)}, {Old}, {}>>],
                          [form |-> "movie", pages |-> <<{Show, Old}>>] >>
      [] p = "uakino" -> << [form |-> "any", pages |-> <<{Both}>>] >>
      [] p = "yts" -> <<>>

MCHits(p, e) ==
    CASE p = "kino" -> {Plain(e), Old}
      [] p = "uakino" -> {Both}
      [] p = "yts" -> {English, Other}

MCInQuery(c) == 1 \in c.aliases
MCValidated == {<<"kino", 1, 1>>}
=============================================================================
