------------------------------ MODULE MCScrapers -------------------------------
EXTENDS Scrapers

F(s, e, d) == [s |-> s, e |-> e, d |-> d]

\* Two seasons under one label; two dubs of one season, the second whole, short
\* or without its first episode; a dub with one season of two; a lone file.
Long   == <<F(1, 1, 1), F(1, 2, 1), F(2, 1, 1)>>
Twin   == <<F(1, 1, 1), F(1, 2, 1), F(1, 1, 2), F(1, 2, 2)>>
Mixed  == <<F(1, 1, 1), F(1, 1, 2), F(1, 2, 1), F(1, 2, 2)>>
Short  == <<F(1, 1, 1), F(1, 2, 1), F(1, 1, 2)>>
Late   == <<F(1, 1, 1), F(1, 2, 1), F(1, 2, 2)>>
Uneven == <<F(1, 1, 1), F(1, 1, 2), F(2, 1, 2)>>
Plain  == <<F(1, 1, 0), F(1, 2, 0), F(2, 1, 0)>>
Lone   == <<F(1, 1, 0)>>

\* An episode with and without a label; a playlist that starts at its second
\* episode; seasons without a name, beside a named one and alone.
Half    == <<F(1, 1, 1), F(1, 1, 0), F(1, 2, 1)>>
Second  == <<F(1, 2, 1), F(1, 3, 1)>>
Unnamed == {<<F(1, 1, 1), F(0, 2, 1)>>, <<F(0, 1, 1), F(0, 2, 1)>>}

\* Of two dubs of one length the first met has not the lower id, and they number
\* the season differently.
Tied == <<F(1, 1, 2), F(1, 2, 2), F(1, 2, 1), F(1, 3, 1)>>

Site == [titled |-> TRUE, series |-> TRUE, player |-> "vod", payload |-> "list",
         href |-> "page", label |-> TRUE, shape |-> "flat", linked |-> FALSE, removed |-> FALSE, files |-> Plain]

Labelled == {Long, Twin, Short, Late, Uneven}

Of(files, shapes) == {[Site EXCEPT !.files = f, !.shape = s] : f \in files, s \in shapes}

\* What may be wrong with a page, what is not a series, and how a card may link.
Faulty(s) ==
    {[s EXCEPT !.titled = FALSE], [s EXCEPT !.player = "none"], [s EXCEPT !.player = "youtube"],
     [s EXCEPT !.removed = TRUE], [s EXCEPT !.payload = "none", !.files = <<>>],
     [s EXCEPT !.payload = "garbled", !.files = <<>>],
     [s EXCEPT !.series = FALSE, !.payload = "url", !.files = Lone],
     [s EXCEPT !.series = FALSE, !.payload = "none", !.files = <<>>],
     [s EXCEPT !.series = FALSE, !.files = Lone]}
    \cup {[s EXCEPT !.files = Lone, !.href = h] : h \in {"upper", "hyphen", "aside", "foreign"}}
    \cup {[s EXCEPT !.files = Lone, !.label = FALSE]}

Serial(sites) == {[s EXCEPT !.player = "serial"] : s \in sites}

\* The titles of a provider whose playlists hold `lists` in `shapes`, and the
\* faults of one of them.
Titles(lists, shapes) ==
    LET sites == Of(lists, shapes) IN sites \cup Faulty(CHOOSE s \in sites : TRUE)

OneSeason == {Twin, Short, Late, Lone}
Several   == Labelled \cup {Mixed, Plain}
Row12     == <<F(1, 1, 0), F(1, 2, 0)>>

MCSites ==
    "serialno" :> (Titles(Labelled \cup {Mixed}, {"flat"}) \cup Of(Labelled, {"dubbed"}))
 @@ "kinovezha" :> Titles(Several, {"flat"})
 @@ "uaserialspro" :> Titles(Several, {"flat"})
 @@ "kinotron" :> Titles(Labelled \cup Unnamed \cup {Plain, Half}, {"dubbed"})
 @@ "klontv" :> Serial(Titles(Labelled, {"dubbed", "tracks"}) \cup Of({Plain, Mixed}, {"flat", "plain"}))
 @@ "eneyida" :> (Titles(Labelled, {"season", "dubbed", "wrapped"})
                    \cup Of({Twin, Short, Late, Half}, {"tracks"}) \cup Of({Plain}, {"flat", "plain"}))
 @@ "uaflix" :> (Serial(Titles(Labelled, {"dubbed"}))
                   \cup {[Site EXCEPT !.linked = TRUE, !.player = p, !.files = f, !.payload = w] :
                             p \in {"vod", "serial"}, f \in {Long, Second}, w \in {"list", "url"}})
 @@ "animeon" :> Titles({Twin, Short, Late}, {"season"})
 @@ "anitubeinua" :> Titles(Labelled \cup {Tied}, {"season"})
 @@ "animeua" :> Titles(Labelled \cup {Half}, {"dubbed"})
 @@ "unimay" :> Titles({Row12, <<F(1, 1, 0), F(1, 2, 8), F(1, 3, 0)>>, <<F(1, 0, 0), F(1, 2, 0)>>}, {"flat"})
 @@ "coaninet" :> Titles(OneSeason \cup {Half}, {"season"})
 @@ "hentaiukr" :> (Titles({Lone, Row12}, {"flat"}) \cup {[Site EXCEPT !.payload = "hollow", !.files = Row12]})
 @@ "cikavaideya" :> Titles({Plain, Lone, <<F(2, 1, 0), F(1, 2, 0), F(1, 1, 0)>>}, {"flat"})
 @@ "ufdub" :> Titles({Lone, Row12}, {"flat"})
 @@ "doramyworld" :> Titles(Labelled \cup {<<F(1, 1, 5), F(1, 1, 6)>>}, {"dubbed"})
 @@ "bambooua" :> Titles({Plain, Lone, <<F(1, 1, 0), F(1, 2, 8)>>, <<F(1, 0, 0), F(1, 1, 0)>>,
                          <<F(1, 1, 8)>>}, {"flat"})
 @@ "simpsonsuatv" :> Titles({<<F(1, 1, 0), F(2, 1, 0), F(3, 1, 0)>>, Plain}, {"season", "flat", "plain"})
 @@ "uakino" :> Titles(OneSeason \cup {Half}, {"flat"})

MCHopsOf ==
    [l \in DOMAIN MCSites |->
        CASE l = "bambooua" -> {"page"}
          [] l = "coaninet" -> {"page", "list"}
          [] l = "uaflix" -> {"page", "show", "player"}
          [] l \in {"anitubeinua", "hentaiukr", "uakino"} -> {"page", "list", "player"}
          [] l = "simpsonsuatv" -> {"page", "show", "list", "player"}
          [] l = "animeon" -> {"page", "player", "list", "direct", "file"}
          [] OTHER -> {"page", "player"}]

MCMaxFailing == [l \in DOMAIN MCSites |-> IF l \in {"uaflix", "simpsonsuatv"} THEN 2 ELSE 1]
=============================================================================
