----------------------------- MODULE TortugaLanes -----------------------------
(* The three providers whose player page hides its playlist behind the Tortuga *)
(* encoding: serialno, kinovezha and uaserialspro. Each reads the page of a    *)
(* title, follows its one player and indexes the playlist by position.         *)
EXTENDS Scraper

-----------------------------------------------------------------------------
(* serialno.                                                                   *)

\* A flat payload IS the season list; a dub-wrapped one lists its first dub.
NormalizeSeasons(site) ==
    Folders(IF site.shape = "flat" THEN site.files ELSE DubFolder(site.files, 0), "s")

SerialnoPage(site, ans) ==
    <<Lenient(ans.page), Unless(site.player # "none", "parse_failed"),
      Lenient(ans.player), Unless(site.payload = "list", "parse_failed")>>

\* Flat rows offer their own label, or every label when they carry none; rows
\* of a dub-wrapped payload offer every dub.
SerialnoSeasons(site) ==
    RowsOf(NormalizeSeasons(site),
           LAMBDA f : IF site.shape = "flat" /\ f.d # 0 THEN {f.d} ELSE DubsOf(site.files))

SerialnoContent(site, ans) ==
    Detail(Refusal(<<Lenient(ans.page), Unless(site.titled, "parse_failed")>>
                   \o SerialnoPage(site, ans)),
           SerialnoSeasons(site))

SerialnoSelect(site, at, dub) ==
    LET chosen == At(Folders(Folder(site.files, "d", dub), "s"), at)
        list   == NormalizeSeasons(site)
    IN  IF at = <<>> \/ site.files = <<>> THEN NoFile
        ELSE IF site.shape = "flat" THEN LabelledPick(list, at, dub)
        ELSE IF dub # 0 /\ chosen # NoFile THEN chosen
        ELSE At(list, at)

SerialnoStream(site, at, dub, ans) ==
    Media(Refusal(SerialnoPage(site, ans)), SerialnoSelect(site, at, dub))

-----------------------------------------------------------------------------
(* kinovezha. A film is listed without asking its player; a page with no       *)
(* player at all is listed too, with nothing to press.                         *)

KinovezhaSeasons(site) ==
    RowsOf(Folders(site.files, "s"), LAMBDA f : {f.d} \ {0})

\* Mistake: a player that does not answer leaves the page without seasons.
KinovezhaTolerant(site, ans) ==
    LET page == <<Lenient(ans.page), Unless(site.titled, "parse_failed")>>
    IN  IF site.series /\ site.player # "none"
        THEN Detail(Refusal(page),
                    IF ans.player = "page" /\ site.payload = "list" THEN KinovezhaSeasons(site) ELSE {})
        ELSE Detail(Refusal(page), IF site.player = "none" THEN {} ELSE FilmRow(site.files, {}))

KinovezhaContent(site, ans) ==
    LET page   == <<Lenient(ans.page), Unless(site.titled, "parse_failed")>>
        series == <<Lenient(ans.player), Unless(site.payload = "list", "parse_failed")>>
    IN  IF site.player = "none" THEN Detail(Refusal(page), {})
        ELSE IF site.series THEN Detail(Refusal(page \o series), KinovezhaSeasons(site))
        ELSE Detail(Refusal(page), FilmRow(site.files, {}))

\* A single address plays only without a position, a playlist only with one.
KinovezhaSelect(site, at, dub) ==
    IF site.files = <<>> THEN NoFile
    ELSE IF site.payload = "url" THEN IF at = <<>> THEN First(site.files) ELSE NoFile
    ELSE IF at = <<>> THEN NoFile
    ELSE LabelledPick(Folders(site.files, "s"), at, dub)

KinovezhaStream(site, at, dub, ans) ==
    Media(Refusal(<<Lenient(ans.page), Unless(site.player # "none", "parse_failed"),
                    Lenient(ans.player),
                    Unless(site.payload \in {"url", "list"}, "parse_failed")>>),
          KinovezhaSelect(site, at, dub))

-----------------------------------------------------------------------------
(* uaserialspro. The player's address is decrypted out of the page; whatever   *)
(* the player page holds, the detail page opens.                               *)

UaserialsproPage(site, ans) ==
    <<Unless(site.player # "none", "parse_failed"), Lenient(ans.player)>>

UaserialsproSeasons(site) ==
    IF site.payload = "list" THEN RowsOf(Folders(site.files, "s"), LAMBDA f : {f.d} \ {0})
    ELSE IF site.payload = "url" THEN FilmRow(site.files, {})
    ELSE {}

UaserialsproContent(site, ans) ==
    Detail(Refusal(<<Lenient(ans.page), Unless(site.titled, "parse_failed")>>
                   \o UaserialsproPage(site, ans)),
           UaserialsproSeasons(site))

\* Without a position the decoded value itself is handed out, a playlist too.
UaserialsproSelect(site, at, dub) ==
    IF at = <<>> /\ site.payload = "url" THEN First(site.files)
    ELSE IF at = <<>> THEN RawText
    ELSE IF site.payload = "list" THEN LabelledPick(Folders(site.files, "s"), at, dub)
    ELSE NoFile

UaserialsproStream(site, at, dub, ans) ==
    Media(Refusal(<<Lenient(ans.page)>> \o UaserialsproPage(site, ans)
                  \o <<Unless(site.payload # "none", "parse_failed")>>),
          UaserialsproSelect(site, at, dub))
=============================================================================
