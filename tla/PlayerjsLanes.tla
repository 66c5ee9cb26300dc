---------------------------- MODULE PlayerjsLanes -----------------------------
(* The providers that read a PlayerJS playlist in the open: kinotron, klontv,  *)
(* eneyida and uaflix.                                                         *)
EXTENDS Scraper

-----------------------------------------------------------------------------
(* kinotron. A page whose only embed is a trailer is gated.                    *)

\* A payload that is no JSON is taken for one media address.
KinotronFiles(site) ==
    IF site.payload = "none" THEN <<>>
    ELSE IF site.payload = "url" THEN <<First(site.files)>>
    ELSE IF site.payload = "garbled" THEN <<RawText>>
    ELSE DubMajor(site.files)

\* Rows are grouped by season name and then by title; here a season without a
\* name is season 1.
KinotronSeasons(site) ==
    LET files  == KinotronFiles(site)
        Named(f) == [f EXCEPT !.s = IF @ = 0 THEN 1 ELSE @]
        named  == [i \in DOMAIN files |-> Named(files[i])]
        titles == [i \in DOMAIN Folders(named, "s") |-> Folders(Folders(named, "s")[i], "e")]
        about(group)  == Head(Those(files, LAMBDA f : Named(f) = Head(group)))
        labels(group) == {IF f.d = 0 THEN Uk ELSE f.d : f \in ToSet(group)}
    IN  UNION {{Row(<<i, j>>, about(titles[i][j]), labels(titles[i][j]))
                  : j \in DOMAIN titles[i]} : i \in DOMAIN titles}

KinotronContent(site, ans) ==
    LET page == <<Lenient(ans.page), Unless(site.titled, "parse_failed"),
                  Unless(site.player \notin {"none", "youtube"}, "gated"), Lenient(ans.player)>>
    IN  IF site.series THEN Detail(Refusal(page), KinotronSeasons(site))
        ELSE Detail(Refusal(page \o <<Unless(KinotronFiles(site) # <<>>, "gated")>>), {})

\* The season and the title are found by position, the dub by name; here a
\* season without a name is one of its own.
KinotronSelect(files, at, dub) ==
    LET seasons == Folders(files, "s")
        group   == Item(Folders(Item(seasons, at[1]), "e"), at[2])
        dubbed  == IF dub = 0 THEN <<>> ELSE Folder(group, "d", dub)
    IN  IF at = <<>> THEN First(files)
        ELSE IF group = <<>> THEN NoFile
        ELSE IF dubbed # <<>> THEN Head(dubbed)
        ELSE Head(group)

KinotronStream(site, at, dub, ans) ==
    LET files == KinotronFiles(site)
        code  == Refusal(<<Lenient(ans.page),
                           Unless(site.player \notin {"none", "youtube"}, "parse_failed"),
                           Lenient(ans.player), Unless(files # <<>>, "parse_failed")>>)
    IN  IF code # "ok" THEN Media(code, NoFile)
        ELSE IF KinotronSelect(files, at, dub) = NoFile THEN Media("not_found", NoFile)
        ELSE Media("ok", KinotronSelect(files, at, dub))

-----------------------------------------------------------------------------
(* The playlist walker klontv plays through. It tells the shapes apart by      *)
(* their titles and their depth, and unwraps a single wrapper.                 *)

WalkPlaylist(site, at, dub) ==
    LET season == Item(Folders(site.files, "s"), at[1])
    IN  IF site.shape = "plain" THEN At(Folders(site.files, "s"), at)
        ELSE IF site.shape \in {"season", "wrapped"} /\ season # <<>> THEN
                At(<<DubFolder(season, dub)>>, <<1, at[2]>>)
        ELSE IF site.shape = "dubbed" THEN At(Folders(DubFolder(site.files, dub), "s"), at)
        ELSE IF site.shape = "tracks" THEN At(Folders(site.files, "d"), at)
        ELSE LabelledPick(Folders(site.files, "s"), at, dub)

(* klontv. The seasons are those of the first dub and every dub is offered on  *)
(* all of them; a player that does not answer leaves the page without seasons. *)

KlontvSeasons(site, ans) ==
    IF ans.player # "page" \/ site.payload # "list" THEN {}
    ELSE IF site.shape = "dubbed" THEN
            RowsOf(Folders(DubFolder(site.files, 0), "s"), LAMBDA f : DubsOf(site.files))
    ELSE IF site.shape = "tracks" THEN RowsOf(Folders(site.files, "d"), LAMBDA f : {Uk})
    ELSE {}

KlontvContent(site, ans) ==
    LET page == <<Lenient(ans.page), Unless(site.titled, "parse_failed"),
                  Unless(site.player # "none", "parse_failed")>>
    IN  Detail(Refusal(page), IF site.series \/ site.player = "serial"
                              THEN KlontvSeasons(site, ans) ELSE FilmRow(site.files, {}))

\* A playlist is never handed out as an address: without a position it fails.
KlontvSelect(site, at, dub) ==
    IF at # <<>> /\ site.payload = "list" THEN WalkPlaylist(site, at, dub)
    ELSE IF at = <<>> /\ site.payload = "url" THEN First(site.files)
    ELSE NoFile

KlontvStream(site, at, dub, ans) ==
    Media(Refusal(<<Lenient(ans.page), Unless(site.player # "none", "parse_failed"),
                    Lenient(ans.player), Unless(site.payload # "none", "parse_failed")>>),
          KlontvSelect(site, at, dub))

-----------------------------------------------------------------------------
(* eneyida. A page under /films/ whose player holds a playlist is listed as a  *)
(* series; a player that answers that the content was removed gates the title, *)
(* one that does not answer leaves it without seasons.                         *)

\* Dubs that are the whole of one season are tracks, and so are folders without a
\* season's title: where they hold the episodes at once ("flat") none is found. A
\* titled season that does offers their titles as dubs.
EneyidaSeasons(site, ans) ==
    LET seasons == Folders(site.files, "s")
        first   == [i \in DOMAIN seasons |-> DubFolder(seasons[i], 0)]
    IN  IF ans.player # "page" \/ site.payload # "list" \/ site.shape = "flat" THEN {}
        ELSE IF site.shape = "tracks" THEN
                RowsOf(<<DubFolder(site.files, 0)>>, LAMBDA f : DubsOf(site.files))
        ELSE IF site.shape \in {"season", "wrapped"} THEN
                RowsOf(first, LAMBDA f : DubsOf(Folder(site.files, "s", f.s)))
        ELSE IF site.shape = "dubbed" THEN
                RowsOf(Folders(DubFolder(site.files, 0), "s"), LAMBDA f : {Uk})
        ELSE RowsOf(seasons, LAMBDA f : {Uk})

EneyidaContent(site, ans) ==
    LET rows == EneyidaSeasons(site, ans)
    IN  Detail(Refusal(<<Lenient(ans.page), Unless(site.titled, "parse_failed"),
                         Unless(site.player # "none", "parse_failed"),
                         Unless(ans.player # "page" \/ ~site.removed, "gated")>>),
               IF rows = {} /\ ~site.series THEN FilmRow(site.files, {}) ELSE rows)

\* Season by position and the dub inside it; under a wrapper the dub by title,
\* or the entry the season's position names.
EneyidaSelect(site, at, dub) ==
    LET season == Item(Folders(site.files, "s"), at[1])
        tracks == Folders(site.files, "d")
    IN  IF site.payload = "url" THEN IF at = <<>> THEN First(site.files) ELSE NoFile
        ELSE IF site.payload = "garbled" THEN IF at = <<>> THEN RawText ELSE NoFile
        ELSE IF at = <<>> THEN IF site.shape \in {"season", "tracks", "dubbed"}
                          THEN First(DubFolder(site.files, 0)) ELSE RawText
        ELSE IF site.shape = "season" /\ season # <<>> THEN
                At(<<DubFolder(season, dub)>>, <<1, at[2]>>)
        ELSE IF site.shape = "tracks" THEN
                At(IF dub # 0 /\ Contains(Labels(site.files, "d"), dub)
                   THEN <<Folder(site.files, "d", dub)>>
                   ELSE <<Item(tracks, at[1])>>, <<1, at[2]>>)
        ELSE IF site.shape = "dubbed" THEN At(Folders(DubFolder(site.files, 0), "s"), at)
        ELSE NoFile

\* The status of the page is never looked at: without a page there is no player.
EneyidaStream(site, at, dub, ans) ==
    LET served == ans.player = "page"
    IN  Media(Refusal(<<Unless(ans.page # "down", "unreachable"),
                        Unless(ans.page = "page" /\ site.player # "none", "parse_failed"),
                        Unless(ans.player # "down", "unreachable"),
                        Unless(~served \/ ~site.removed, "gated"),
                        Unless(served /\ site.payload # "none", "parse_failed")>>),
              EneyidaSelect(site, at, dub))

-----------------------------------------------------------------------------
(* uaflix. Episodes are listed from the links of the page, under their own     *)
(* season and episode numbers; a page without links is listed from its serial  *)
(* player, by position in the first dub. A page with neither is gated.         *)

UaflixProbe(site, ans) ==
    IF site.player = "serial" /\ ans.player = "page" /\ site.payload = "list"
    THEN RowsOf(Folders(DubFolder(site.files, 0), "s"), LAMBDA f : {}) ELSE {}

UaflixSeasons(site, ans) ==
    IF ~site.series THEN {}
    ELSE IF site.linked THEN {Row(<<f.s, f.e>>, f, {}) : f \in ToSet(site.files)}
    ELSE UaflixProbe(site, ans)

UaflixContent(site, ans) ==
    LET rows == UaflixSeasons(site, ans)
    IN  Detail(Refusal(<<Lenient(ans.page), Unless(site.titled, "parse_failed"),
                         Unless(rows # {} \/ site.player = "vod", "gated")>>), rows)

\* An episode is asked at its own page; when that is not served, for whatever
\* reason, at the page of the show, whose serial player is indexed by position.
UaflixStream(site, at, dub, ans) ==
    LET own    == {f \in ToSet(site.files) : site.linked /\ at = <<f.s, f.e>>}
        paged  == own # {} /\ ans.page = "page"
        show   == IF at = <<>> THEN ans.page ELSE ans.show
        played == IF paged THEN CHOOSE f \in own : TRUE
                  ELSE IF site.payload = "url" THEN First(site.files)
                  ELSE IF site.payload = "list" THEN At(Folders(DubFolder(site.files, 0), "s"), at)
                  ELSE NoFile
    IN  Media(Refusal(<<Unless(ans.page # "down", "unreachable"),
                        Unless(paged \/ show # "down", "unreachable"),
                        Unless(paged \/ show = "page", "not_found"),
                        Unless(paged \/ site.player # "none", "parse_failed"),
                        Unless(paged \/ site.player # "youtube", "not_found"),
                        Lenient(ans.player)>>), played)
=============================================================================
