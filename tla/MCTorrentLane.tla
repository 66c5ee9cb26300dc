------------------------------ MODULE MCTorrentLane -----------------------------
EXTENDS TorrentLane, TLC

CONSTANTS dune, heat, solo, void       \* movies, as model values

Cand(t, tier, seeds) == [torrent |-> t, tier |-> tier, seeds |-> seeds]

\* Four candidates, the best in no order; two movies with one, and one with none.
MCFilm ==
    dune :> <<Cand("d720", 1, 9), Cand("d1080", 0, 3), Cand("d4k", 2, 20), Cand("dRepack", 0, 5)>>
    @@ heat :> <<Cand("heat", 0, 4)>>
    @@ solo :> <<Cand("solo", 1, 1)>>
    @@ void :> <<>>

Of(e, c) == [torrent |-> c.torrent, tier |-> c.tier, seeds |-> c.seeds, of |-> e]

\* The third episode of "lost" carries a pack of the season; the second nothing.
MCGuide == [lost |-> <<Of(<<1, 1>>, Cand("first", 1, 2)), Of(<<1, 3>>, Cand("pack", 0, 7))>>,
            dark |-> <<Of(<<1, 1>>, Cand("dark", 0, 1))>>]

MCEpisodes == {<<"lost", 1, 1>>, <<"lost", 1, 2>>, <<"lost", 1, 3>>, <<"dark", 1, 1>>}

Named(e, kind) == [token |-> <<1, e>>, kind |-> kind]
Plain(kind) == [token |-> <<>>, kind |-> kind]

MCFiles == [t \in {"d720", "d1080", "d4k", "dRepack", "heat", "solo", "first", "pack", "dark"} |->
              CASE t = "first" -> <<Plain("nfo"), Named(1, "mkv"), Plain("srt")>>
                [] t = "pack" -> <<Named(1, "mkv"), Named(2, "mkv"), Named(3, "mkv"), Named(3, "en.srt")>>
                [] OTHER -> <<Plain("srt"), Plain("avi")>>]
=============================================================================
