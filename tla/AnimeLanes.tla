------------------------------ MODULE AnimeLanes ------------------------------
(* The anime catalogues: animeon and unimay and coaninet and hentaiukr answer  *)
(* JSON, animeua and anitubeinua are pages with a player behind them.          *)
EXTENDS Scraper

\* The files of one episode number, and the numbers there are.
Numbered(files, e) == Folder(files, "e", e)
Numbers(files) == {f.e : f \in ToSet(files)}

\* One row per episode number, offering the dubs that number has.
NumberRows(files) ==
    {Row(<<1, e>>, Head(Numbered(files, e)), DubsOf(Numbered(files, e))) : e \in Numbers(files)}

\* The file of the dub asked for, or the first.
DubOrFirst(files, dub) ==
    LET same == IF dub = 0 THEN <<>> ELSE Folder(files, "d", dub)
    IN  IF files = <<>> THEN NoFile ELSE IF same = <<>> THEN First(files) ELSE Head(same)

-----------------------------------------------------------------------------
(* animeon. Every (dub, player) pair is walked at once through its pages; the  *)
(* hop "list" is how the pages of the first pair are answered.                 *)

\* A listed episode page: refused ones end the walk of their pair, outages
\* fail it.
AnimeonPairs(site, ans) ==
    Those(site.files, LAMBDA f : ans.list = "page" \/ f.d # First(site.files).d)

AnimeonTitle(site, ans) ==
    <<Strict(ans.page), Unless(site.titled, "parse_failed"), Strict(ans.player),
      Unless(site.payload # "none", "gated")>>

\* A failed pair costs its dub; only when nothing is left does its error speak.
AnimeonEpisodes(site, ans) ==
    LET files == AnimeonPairs(site, ans)
    IN  Detail(Refusal(AnimeonTitle(site, ans) \o
                       <<Unless(site.payload = "list", "parse_failed"),
                         Unless(files # <<>>, IF ans.list \in {"error", "down"}
                                              THEN Strict(ans.list) ELSE "parse_failed")>>),
               NumberRows(files))

\* A film is listed under the names of its dubs, or under a default one.
AnimeonFilm(site, ans) ==
    Detail(Refusal(AnimeonTitle(site, ans)),
           FilmRow(site.files, IF site.payload = "list" THEN DubsOf(site.files) ELSE {Uk}))

AnimeonContent(site, ans) ==
    IF site.series THEN AnimeonEpisodes(site, ans) ELSE AnimeonFilm(site, ans)

\* The direct address of a film's player: a refusal moves on to the first entry
\* of the walk, and to the next player; an outage is raised.
AnimeonFilmStream(site, dub, ans) ==
    LET named  == Those(IF site.payload = "list" THEN site.files ELSE <<>>,
                        LAMBDA f : dub = 0 \/ f.d = dub)
        direct == ans.direct = "page"
    IN  IF Strict(ans.player) # "ok" THEN Media(Strict(ans.player), NoFile)
        ELSE IF site.payload = "none" THEN Media("gated", NoFile)
        ELSE IF named = <<>> THEN Media(IF dub = 0 THEN "parse_failed" ELSE "translation_missing",
                                   NoFile)
        ELSE IF ans.direct \in {"error", "down"} THEN Media(Strict(ans.direct), NoFile)
        ELSE IF ~direct /\ ans.list \in {"error", "down"} THEN Media(Strict(ans.list), NoFile)
        ELSE IF ~direct /\ ans.list = "missing" THEN
                Media(IF dub = 0 THEN "parse_failed" ELSE "translation_missing", NoFile)
        ELSE Media(Strict(ans.file), Head(named))

\* The sources of an episode ride in its id: `site` is the title as it was when
\* the id was minted. A dub that is not among them is refused.
AnimeonStream(site, at, dub, ans) ==
    LET sources == Numbered(site.files, at[2])
        chosen  == IF dub = 0 THEN sources ELSE Folder(sources, "d", dub)
    IN  IF at = <<>> THEN AnimeonFilmStream(site, dub, ans)
        ELSE IF sources = <<>> THEN Media("parse_failed", NoFile)
        ELSE IF chosen = <<>> THEN Media("translation_missing", NoFile)
        ELSE Media(Strict(ans.file), Head(chosen))

-----------------------------------------------------------------------------
(* anitubeinua. The page carries a token, the playlist comes over AJAX: its    *)
(* rows name a category (season), a studio (dub) and a title.                  *)

\* The AJAX request: any status but 200 counts as "not there", 5xx included.
AnitubePlaylist(site, ans) ==
    <<Strict(ans.page), Unless(site.player # "none", "parse_failed"), Lenient(ans.list),
      Unless(site.payload = "list", "parse_failed")>>

\* The studio with the most episodes of a season; the first of them on a tie.
CanonicalStudio(season) ==
    LET studios == Folders(season, "d")
    IN  IF season = <<>> THEN <<>>
        ELSE CHOOSE k \in ToSet(studios) : \E i \in DOMAIN studios :
                /\ studios[i] = k
                /\ \A j \in DOMAIN studios :
                      Len(studios[j]) < Len(k) \/ (Len(studios[j]) = Len(k) /\ i <= j)

\* Playback numbers the season by a studio with the most episodes too, on a tie
\* by the one with the lowest id.
JoinStudio(season) ==
    LET studios == ToSet(Folders(season, "d"))
    IN  IF season = <<>> THEN <<>>
        ELSE CHOOSE k \in studios : \A o \in studios :
                Len(o) < Len(k) \/ (Len(o) = Len(k) /\ Head(k).d <= Head(o).d)

AnitubeSeasons(site) ==
    LET seasons == Folders(site.files, "s")
    IN  RowsOf([i \in DOMAIN seasons |-> CanonicalStudio(seasons[i])],
               LAMBDA f : DubsOf(Those(site.files, LAMBDA g : g.s = f.s /\ g.e = f.e)))

\* What the playlist lacks or garbles leaves the title without seasons; only a
\* transport error or a page's 5xx is passed on.
AnitubeContent(site, ans) ==
    LET page == <<Strict(ans.page), Unless(site.titled, "parse_failed")>>
        code == Refusal(AnitubePlaylist(site, ans))
    IN  Detail(Refusal(page \o <<Unless(code \notin {"unreachable", "upstream_unreachable"}, code)>>),
               IF code = "ok" THEN AnitubeSeasons(site) ELSE {})

\* The position names a title of that studio; the title is looked up in the
\* studio asked for.
AnitubePick(site, at, dub) ==
    LET season == Item(Folders(site.files, "s"), at[1])
        joined == JoinStudio(season)
        same   == Those(season, LAMBDA f : /\ f.e = joined[at[2]].e
                                           /\ f.d = IF dub = 0 THEN Head(joined).d ELSE dub)
    IN  IF at[2] \in DOMAIN joined /\ same # <<>> THEN Head(same) ELSE NoFile

AnitubeStream(site, at, dub, ans) ==
    IF at = <<>> THEN Media("parse_failed", NoFile)
    ELSE LET file == AnitubePick(site, at, dub)
         IN  Media(Refusal(AnitubePlaylist(site, ans)
                           \o <<Unless(file # NoFile, "parse_failed"), Lenient(ans.player)>>), file)

-----------------------------------------------------------------------------
(* animeua. Its playlist is dubs of seasons of episodes: season titles and     *)
(* episode titles are merged over the dubs in the order they are first met.    *)

AnimeuaGroups(site) ==
    LET titled  == Those(DubMajor(site.files), LAMBDA f : f.d # 0)
        seasons == Folders(titled, "s")
    IN  [i \in DOMAIN seasons |-> Folders(seasons[i], "e")]

AnimeuaSeasons(site) ==
    LET groups == AnimeuaGroups(site)
    IN  UNION {{Row(<<i, j>>, Head(groups[i][j]), DubsOf(groups[i][j])) : j \in DOMAIN groups[i]}
                  : i \in DOMAIN groups}

\* Only a serial, or a title that is not tagged a film, has its player asked.
AnimeuaContent(site, ans) ==
    LET page   == <<Lenient(ans.page), Unless(site.titled, "parse_failed")>>
        anime  == site.player = "serial" \/ site.series
    IN  IF anime /\ site.player # "none"
        THEN Detail(Refusal(page \o <<Lenient(ans.player)>>),
                    IF site.payload = "list" THEN AnimeuaSeasons(site) ELSE FilmRow(site.files, {}))
        ELSE Detail(Refusal(page), FilmRow(site.files, {}))

\* A value that is no playlist is the address itself.
AnimeuaPick(site, at, dub) ==
    LET files == Item(Item(AnimeuaGroups(site), at[1]), at[2])
    IN  IF site.payload = "list" THEN IF at = <<>> THEN NoFile ELSE DubOrFirst(files, dub)
        ELSE IF at # <<>> \/ site.payload = "none" THEN NoFile
        ELSE IF site.payload = "garbled" THEN RawText
        ELSE First(site.files)

AnimeuaStream(site, at, dub, ans) ==
    Media(Refusal(<<Lenient(ans.page), Unless(site.player # "none", "parse_failed"),
                    Lenient(ans.player)>>),
          AnimeuaPick(site, at, dub))

-----------------------------------------------------------------------------
(* unimay. One document holds everything; paid episodes are left out of the    *)
(* listing. A number that is not found plays the first free episode.           *)

Premium == 8

UnimayFree(site) == Those(site.files, LAMBDA f : f.d # Premium)

UnimayRelease(site, ans) == <<Posted(ans.page), Unless(site.payload # "garbled", "parse_failed")>>

\* An episode without a number is listed under its position, a film not at all.
UnimayContent(site, ans) ==
    LET rows == {Row(<<1, IF site.files[i].e = 0 THEN i ELSE site.files[i].e>>, site.files[i], {})
                    : i \in {j \in DOMAIN site.files : site.files[j].d # Premium}}
    IN  Detail(Refusal(UnimayRelease(site, ans)),
               IF site.series THEN rows ELSE {})

UnimayStream(site, at, dub, ans) ==
    LET found == Numbered(site.files, IF at = <<>> THEN 1 ELSE at[2])
        code  == Refusal(UnimayRelease(site, ans))
        pick  == IF found # <<>> THEN found ELSE UnimayFree(site)
    IN  IF pick = <<>> THEN Media(Refusal(<<code, "not_found">>), NoFile)
        ELSE Media(code, Head(pick))

-----------------------------------------------------------------------------
(* coaninet. A season is resolved by its slug, its episodes by the season's id.*)

CoaninetSeason(site, ans) ==
    <<Strict(ans.page), Unless(site.payload # "garbled", "parse_failed"), Strict(ans.list)>>

CoaninetContent(site, ans) ==
    Detail(Refusal(CoaninetSeason(site, ans)), NumberRows(site.files))

\* Mistake: the episode is found by its position.
CoaninetByPosition(site, at, dub, ans) ==
    LET numbers == Folders(site.files, "e")
        found   == Item(numbers, IF at = <<>> THEN 1 ELSE at[2])
    IN  Media(Refusal(CoaninetSeason(site, ans) \o <<Unless(found # <<>>, "not_found")>>),
              DubOrFirst(found, dub))

CoaninetStream(site, at, dub, ans) ==
    LET found == Numbered(site.files, IF at = <<>> THEN 1 ELSE at[2])
    IN  Media(Refusal(CoaninetSeason(site, ans) \o <<Unless(found # <<>>, "not_found")>>),
              DubOrFirst(found, dub))

-----------------------------------------------------------------------------
(* hentaiukr. One document lists every title; the episodes are the entries of  *)
(* a file beside the page. A "hollow" entry names sources without an address.  *)

HentaiukrTitle(site, ans) == <<Posted(ans.list), Unless(~site.removed, "not_found")>>

HentaiukrContent(site, ans) ==
    Detail(Refusal(HentaiukrTitle(site, ans) \o
                   <<Lenient(ans.page), Unless(site.titled, "parse_failed"), Posted(ans.player)>>),
           IF site.payload = "garbled" THEN {} ELSE RowsOf(<<site.files>>, LAMBDA f : {}))

\* The best of no sources is an error that is not a provider's.
HentaiukrStream(site, at, dub, ans) ==
    LET n == IF at = <<>> THEN 1 ELSE at[2]
    IN  Media(Refusal(HentaiukrTitle(site, ans) \o
                      <<Posted(ans.player), Unless(site.payload # "garbled", "parse_failed"),
                        Unless(n \in DOMAIN site.files, "not_found"),
                        Unless(site.payload # "none", "parse_failed"),
                        Unless(site.payload # "hollow", "ValueError")>>),
              IF n \in DOMAIN site.files THEN site.files[n] ELSE NoFile)
=============================================================================
