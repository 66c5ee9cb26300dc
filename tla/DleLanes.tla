------------------------------- MODULE DleLanes --------------------------------
(* The remaining page scrapers: cikavaideya, ufdub, doramyworld, bambooua,     *)
(* simpsonsuatv and uakino.                                                    *)
EXTENDS Scraper

-----------------------------------------------------------------------------
(* cikavaideya. The page holds one address or a map of seasons, whose keys are *)
(* sorted as numbers. A page without a playable player is gated, and so is one *)
(* whose first file the player says is gone.                                   *)

CikavaTree(site) ==
    LET Ahead(f, g) == f.s < g.s \/ (f.s = g.s /\ f.e < g.e)
        all == DOMAIN site.files
    IN  Folders(Arranged(site.files,
                         {p \in all \X all :
                             \/ Ahead(site.files[p[1]], site.files[p[2]])
                             \/ ~Ahead(site.files[p[2]], site.files[p[1]]) /\ p[1] < p[2]}), "s")

CikavaPlayer(site) ==
    Unless(site.player # "none" /\ site.payload \in {"url", "list"}, "gated")

\* The probe decides only when the player answers.
CikavaProbe(site, ans) == Unless(ans.player # "page" \/ ~site.removed, "gated")

CikavaContent(site, ans) ==
    Detail(Refusal(<<Lenient(ans.page), Unless(site.titled, "parse_failed"),
                     CikavaPlayer(site), CikavaProbe(site, ans)>>),
           IF site.payload = "url" THEN FilmRow(site.files, {})
           ELSE RowsOf(CikavaTree(site), LAMBDA f : {}))

\* Mistake: the seasons are looked up in the order of the document.
CikavaUnsorted(site, at) ==
    IF site.payload = "url" THEN IF at = <<>> THEN First(site.files) ELSE NoFile
    ELSE At(Folders(site.files, "s"), at)

CikavaSelect(site, at) ==
    IF site.payload = "url" THEN IF at = <<>> THEN First(site.files) ELSE NoFile
    ELSE At(CikavaTree(site), at)

CikavaStream(site, at, dub, ans) ==
    LET page == Refusal(<<Lenient(ans.page), CikavaPlayer(site)>>)
        file == IF page = "ok" THEN CikavaSelect(site, at) ELSE NoFile
    IN  Media(Refusal(<<page, Unless(file # NoFile, "parse_failed"), Lenient(ans.player),
                        CikavaProbe(site, ans)>>), file)

-----------------------------------------------------------------------------
(* ufdub. The player's rows are one season, by position.                       *)

UfdubContent(site, ans) ==
    Detail(Refusal(<<Lenient(ans.page), Unless(site.titled, "parse_failed"),
                     Unless(site.player # "none", "gated"), Lenient(ans.player),
                     Unless(site.files # <<>>, "gated")>>),
           IF site.series THEN RowsOf(<<site.files>>, LAMBDA f : {}) ELSE FilmRow(site.files, {}))

\* Mistake: a position counted from zero.
UfdubFromZero(site, at, dub, ans) ==
    LET file == IF at # <<>> THEN At(<<site.files>>, <<at[1], at[2] + 1>>)
                ELSE First(site.files)
    IN  Media(Refusal(<<Lenient(ans.page), Unless(site.player # "none", "parse_failed"),
                        Lenient(ans.player), Unless(site.files # <<>>, "parse_failed"),
                        Unless(file # NoFile, "not_found")>>), file)

UfdubStream(site, at, dub, ans) ==
    LET file == IF at # <<>> THEN At(<<site.files>>, at)
                ELSE First(site.files)
    IN  Media(Refusal(<<Lenient(ans.page), Unless(site.player # "none", "parse_failed"),
                        Lenient(ans.player), Unless(site.files # <<>>, "parse_failed"),
                        Unless(file # NoFile, "not_found")>>), file)

-----------------------------------------------------------------------------
(* doramyworld. Every dub has its own seasons; those of the first are listed   *)
(* and all dubs offered on them.                                               *)

\* A label is stripped to its Latin letters and digits: all that is written in
\* Cyrillic shares one id.
Cyrillic == {5, 6}
TranslationId(d) == IF d \in Cyrillic \cup {0} THEN Uk ELSE d

DoramyContent(site, ans) ==
    Detail(Refusal(<<Lenient(ans.page), Unless(site.titled, "parse_failed"),
                     Unless(site.player # "none", "gated")>>),
           RowsOf(Folders(DubFolder(site.files, 0), "s"),
                  LAMBDA f : {TranslationId(g.d) : g \in ToSet(site.files)}))

\* The first dub with the id asked for, or the first dub.
DoramySelect(site, at, dub) ==
    LET match == Those(Labels(site.files, "d"), LAMBDA d : TranslationId(d) = dub)
        dubs  == IF match = <<>> THEN Labels(site.files, "d") ELSE match
    IN  IF dubs = <<>> THEN NoFile
        ELSE At(Folders(Folder(site.files, "d", Head(dubs)), "s"), at)

DoramyStream(site, at, dub, ans) ==
    LET file == DoramySelect(site, at, dub)
    IN  Media(Refusal(<<Unless(at # <<>>, "not_found"), Lenient(ans.page),
                        Unless(site.player # "none", "parse_failed"),
                        Unless(file # NoFile, "not_found"), Lenient(ans.player),
                        Unless(site.payload # "none", "parse_failed")>>), file)

-----------------------------------------------------------------------------
(* bambooua. A playlist of groups sits in the page itself. What is for         *)
(* subscribers is published as a sponsor's clip; an unnumbered file (e = 0)    *)
(* stands on its group instead of in its folder.                               *)

Sponsor == 8

BambooGate(site, ans) ==
    <<Lenient(ans.page), Unless(site.payload # "garbled", "parse_failed"),
      Unless(site.payload # "none" /\ site.files # <<>>, "gated")>>

\* A film of one file is listed by its bare id; a group's own file is no row.
BambooSeasons(site) ==
    LET rows == RowsOf(Folders(Those(site.files, LAMBDA f : f.e # 0), "s"), LAMBDA f : {})
    IN  IF rows = {} \/ (~site.series /\ Cardinality(rows) = 1) THEN FilmRow(site.files, {})
        ELSE rows

\* Gated when every file is a sponsor's.
BambooContent(site, ans) ==
    Detail(Refusal(<<Lenient(ans.page), Unless(site.titled, "parse_failed")>>
                   \o BambooGate(site, ans)
                   \o <<Unless({f.d : f \in ToSet(site.files)} # {Sponsor}, "gated")>>),
           BambooSeasons(site))

BambooSelect(site, at) ==
    IF at # <<>> THEN At(Folders(Those(site.files, LAMBDA f : f.e # 0), "s"), at)
    ELSE First(site.files)

BambooStream(site, at, dub, ans) ==
    LET file == BambooSelect(site, at)
    IN  Media(Refusal(BambooGate(site, ans) \o
                      <<Unless(file # NoFile, "not_found"), Unless(file.d # Sponsor, "gated")>>),
              file)

-----------------------------------------------------------------------------
(* simpsonsuatv. Episodes are pages, named by their own address in the wire    *)
(* id. A show ("season") fetches the pages of its newest seasons, at most      *)
(* ShowSeasons of them; a season ("flat") and an episode ("plain") are one     *)
(* page. A bare address that is not found is tried once more with ".html".     *)

\* _MAX_SHOW_SEASONS, scaled to the instance.
ShowSeasons == 2

SimpsonsOpened(ans) ==
    IF ans.page = "missing" /\ ans.show = "page" THEN "ok" ELSE Lenient(ans.page)

\* A season page that does not answer is left out; "list" answers for the oldest.
SimpsonsShow(site, ans) ==
    LET numbers == {f.s : f \in ToSet(site.files)}
        newest  == {n \in numbers : Cardinality({m \in numbers : m > n}) < ShowSeasons}
    IN  {n \in newest : ans.list = "page" \/ \E m \in newest : m < n}

SimpsonsContent(site, ans) ==
    LET seasons == IF site.shape = "season" THEN SimpsonsShow(site, ans)
                   ELSE {f.s : f \in ToSet(site.files)}
    IN  Detail(Refusal(<<SimpsonsOpened(ans), Unless(site.titled, "parse_failed")>>),
               {Row(<<f.s, f.e>>, f, {}) : f \in {g \in ToSet(site.files) : g.s \in seasons}})

SimpsonsStream(site, at, dub, ans) ==
    LET page == Those(site.files, LAMBDA f : at = <<f.s, f.e>>)
    IN  IF page = <<>> THEN Media("not_found", NoFile)
        ELSE Media(Refusal(<<Lenient(ans.page), Unless(site.player # "none", "parse_failed"),
                             Lenient(ans.player)>>), Head(page))

-----------------------------------------------------------------------------
(* uakino. The site is read through the browser session; only the player page  *)
(* is fetched plainly. A playlist is episodic when any of its items has an     *)
(* episode number; a film without one plays the player its page embeds.        *)

UakinoItems(site) == IF site.payload = "list" THEN site.files ELSE <<>>

\* The voice asked for; the generic one stands for the first.
PickVoice(files, dub) ==
    LET same == IF dub = 0 THEN <<>> ELSE Folder(files, "d", dub)
    IN  IF files = <<>> \/ (dub \notin {0, Uk} /\ same = <<>>) THEN NoFile
        ELSE IF same = <<>> THEN First(files) ELSE Head(same)

UakinoPlaylist(site, ans) == <<Posted(ans.list), Unless(site.payload # "garbled", "parse_failed")>>

UakinoContent(site, ans) ==
    LET items    == UakinoItems(site)
        episodes == Those(items, LAMBDA f : f.e # 0)
        dubs(files) == IF DubsOf(files) = {} THEN {Uk} ELSE DubsOf(files)
    IN  Detail(Refusal(<<Posted(ans.page), Unless(site.titled, "parse_failed")>>
                       \o UakinoPlaylist(site, ans)
                       \o <<Unless(items # <<>> \/ site.player = "vod", "gated")>>),
               IF episodes # <<>>
               THEN {Row(<<1, e>>, Head(Folder(episodes, "e", e)), DubsOf(Folder(episodes, "e", e)))
                        : e \in {f.e : f \in ToSet(episodes)}}
               ELSE FilmRow(site.files, dubs(items)))

UakinoStream(site, at, dub, ans) ==
    LET number == IF at = <<>> THEN 0 ELSE at[2]
        found  == Folder(UakinoItems(site), "e", number)
        list   == Refusal(UakinoPlaylist(site, ans))
        embed  == Refusal(<<list, Posted(ans.page), Unless(site.player = "vod", "parse_failed"),
                            Lenient(ans.player)>>)
        voiced == Refusal(<<list, Unless(PickVoice(found, dub) # NoFile, "translation_missing"),
                            Lenient(ans.player)>>)
    IN  IF found # <<>> \/ list # "ok" THEN Media(voiced, PickVoice(found, dub))
        ELSE IF at = <<>> THEN Media(embed, First(site.files))
        ELSE Media("not_found", NoFile)
=============================================================================
