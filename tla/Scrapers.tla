------------------------------- MODULE Scrapers -------------------------------
(* One scraping provider in use: a client finds a title, opens its detail page, *)
(* holds what it lists and presses its rows, while the upstream publishes and   *)
(* withdraws files and any page it serves may fail. The calls themselves are   *)
(* the operators of the lane modules; here they meet a title that changes      *)
(* between the listing of a row and the press of it.                           *)
EXTENDS CardLanes, TortugaLanes, PlayerjsLanes, AnimeLanes, DleLanes

CONSTANTS
    Sites,          \* the titles the upstream of each provider may publish
    HopsOf,         \* the requests each provider's calls are made of
    MaxFailing      \* bound, for each provider, on the requests of one call that fail

Lanes ==
    {"serialno", "kinovezha", "uaserialspro", "kinotron", "klontv", "eneyida",
     "uaflix", "animeon", "anitubeinua", "animeua", "unimay", "coaninet",
     "hentaiukr", "cikavaideya", "ufdub", "doramyworld", "bambooua",
     "simpsonsuatv", "uakino"}

\* What a provider may meet: a file has a season or a number, and no label that
\* reads like the id of the default one. A title of the catalogues that know no
\* seasons is one season, a film of animeon one episode, and the playlist of
\* cikavaideya has no dubs.
Seasonless == {"animeon", "unimay", "coaninet", "uakino"}

Possible(l, s) ==
    /\ s \in Title
    /\ \A f \in ToSet(s.files) : (f.s # 0 \/ f.e # 0) /\ f.d # Uk
    /\ \A f, g \in ToSet(s.files) :
          /\ l \in Seasonless => f.s = g.s
          /\ l = "animeon" /\ ~s.series => f.e = g.e
          /\ l = "cikavaideya" => f.d = g.d

ASSUME LanesAssumption ==
    DOMAIN Sites \subseteq Lanes /\ \A l \in DOMAIN Sites : \A s \in Sites[l] : Possible(l, s)

VARIABLES
    lane,           \* the provider in use
    site,           \* its title as the upstream publishes it now
    shown,          \* what its search or its browse last showed of it
    held,           \* the listing the client holds
    got             \* the answer to its last press

scraperVars == <<lane, site, shown, held, got>>

-----------------------------------------------------------------------------
(* A provider's calls.                                                         *)

Search(l, s, ans) ==
    CASE l = "serialno" -> SerialnoSearch(s, ans)
      [] l = "kinovezha" -> KinovezhaSearch(s, ans)
      [] l = "uaserialspro" -> UaserialsproSearch(s, ans)
      [] l = "kinotron" -> KinotronSearch(s, ans)
      [] l = "klontv" -> KlontvSearch(s, ans)
      [] l = "eneyida" -> EneyidaSearch(s, ans)
      [] l = "uaflix" -> UaflixSearch(s, ans)
      [] l = "animeon" -> AnimeonSearch(s, ans)
      [] l = "anitubeinua" -> AnitubeSearch(s, ans)
      [] l = "animeua" -> AnimeuaSearch(s, ans)
      [] l = "unimay" -> UnimaySearch(s, ans)
      [] l = "coaninet" -> CoaninetSearch(s, ans)
      [] l = "hentaiukr" -> HentaiukrSearch(s, ans)
      [] l = "cikavaideya" -> CikavaSearch(s, ans)
      [] l = "ufdub" -> UfdubSearch(s, ans)
      [] l = "doramyworld" -> DoramySearch(s, ans)
      [] l = "bambooua" -> BambooSearch(s, ans)
      [] l = "simpsonsuatv" -> SimpsonsSearch(s, ans)
      [] l = "uakino" -> UakinoSearch(s, ans)

Browse(l, s, section, ans) ==
    CASE l = "serialno" -> SerialnoBrowse(s, section, ans)
      [] l = "kinovezha" -> KinovezhaBrowse(s, section, ans)
      [] l = "uaserialspro" -> UaserialsproBrowse(s, section, ans)
      [] l = "kinotron" -> KinotronBrowse(s, section, ans)
      [] l = "klontv" -> KlontvBrowse(s, section, ans)
      [] l = "eneyida" -> EneyidaBrowse(s, section, ans)
      [] l = "uaflix" -> UaflixBrowse(s, section, ans)
      [] l = "animeon" -> AnimeonBrowse(s, section, ans)
      [] l = "anitubeinua" -> AnitubeBrowse(s, section, ans)
      [] l = "animeua" -> AnimeuaBrowse(s, section, ans)
      [] l = "unimay" -> UnimayBrowse(s, section, ans)
      [] l = "coaninet" -> CoaninetBrowse(s, section, ans)
      [] l = "hentaiukr" -> HentaiukrBrowse(s, section, ans)
      [] l = "cikavaideya" -> CikavaBrowse(s, section, ans)
      [] l = "ufdub" -> UfdubBrowse(s, section, ans)
      [] l = "doramyworld" -> DoramyBrowse(s, section, ans)
      [] l = "bambooua" -> BambooBrowse(s, section, ans)
      [] l = "simpsonsuatv" -> SimpsonsBrowse(s, section, ans)
      [] l = "uakino" -> UakinoBrowse(s, section, ans)

Content(l, s, ans) ==
    CASE l = "serialno" -> SerialnoContent(s, ans)
      [] l = "kinovezha" -> KinovezhaContent(s, ans)
      [] l = "uaserialspro" -> UaserialsproContent(s, ans)
      [] l = "kinotron" -> KinotronContent(s, ans)
      [] l = "klontv" -> KlontvContent(s, ans)
      [] l = "eneyida" -> EneyidaContent(s, ans)
      [] l = "uaflix" -> UaflixContent(s, ans)
      [] l = "animeon" -> AnimeonContent(s, ans)
      [] l = "anitubeinua" -> AnitubeContent(s, ans)
      [] l = "animeua" -> AnimeuaContent(s, ans)
      [] l = "unimay" -> UnimayContent(s, ans)
      [] l = "coaninet" -> CoaninetContent(s, ans)
      [] l = "hentaiukr" -> HentaiukrContent(s, ans)
      [] l = "cikavaideya" -> CikavaContent(s, ans)
      [] l = "ufdub" -> UfdubContent(s, ans)
      [] l = "doramyworld" -> DoramyContent(s, ans)
      [] l = "bambooua" -> BambooContent(s, ans)
      [] l = "simpsonsuatv" -> SimpsonsContent(s, ans)
      [] l = "uakino" -> UakinoContent(s, ans)

Stream(l, s, at, dub, ans) ==
    CASE l = "serialno" -> SerialnoStream(s, at, dub, ans)
      [] l = "kinovezha" -> KinovezhaStream(s, at, dub, ans)
      [] l = "uaserialspro" -> UaserialsproStream(s, at, dub, ans)
      [] l = "kinotron" -> KinotronStream(s, at, dub, ans)
      [] l = "klontv" -> KlontvStream(s, at, dub, ans)
      [] l = "eneyida" -> EneyidaStream(s, at, dub, ans)
      [] l = "uaflix" -> UaflixStream(s, at, dub, ans)
      [] l = "animeon" -> AnimeonStream(s, at, dub, ans)
      [] l = "anitubeinua" -> AnitubeStream(s, at, dub, ans)
      [] l = "animeua" -> AnimeuaStream(s, at, dub, ans)
      [] l = "unimay" -> UnimayStream(s, at, dub, ans)
      [] l = "coaninet" -> CoaninetStream(s, at, dub, ans)
      [] l = "hentaiukr" -> HentaiukrStream(s, at, dub, ans)
      [] l = "cikavaideya" -> CikavaStream(s, at, dub, ans)
      [] l = "ufdub" -> UfdubStream(s, at, dub, ans)
      [] l = "doramyworld" -> DoramyStream(s, at, dub, ans)
      [] l = "bambooua" -> BambooStream(s, at, dub, ans)
      [] l = "simpsonsuatv" -> SimpsonsStream(s, at, dub, ans)
      [] l = "uakino" -> UakinoStream(s, at, dub, ans)

-----------------------------------------------------------------------------
Hops == {"page", "show", "player", "list", "direct", "file"}

AllUp == [h \in Hops |-> "page"]

Answers(l) ==
    {[h \in Hops |-> IF h \in DOMAIN bad THEN bad[h] ELSE "page"] :
        bad \in UNION {[hs -> Answer \ {"page"}] :
                          hs \in {x \in SUBSET HopsOf[l] : Cardinality(x) <= MaxFailing[l]}}}

\* The requests that met an outage, and those that were refused.
Outage(ans) == {h \in Hops : ans[h] \in {"error", "down"}}
Refused(ans) == {h \in Hops : ans[h] = "missing"}

\* What a client that lists no row presses: the title itself.
Bare == Row(<<>>, NoFile, {})

NothingShown == [code |-> "none", cards |-> {}]

\* `of` is the title as it was listed, `outage` and `refused` the requests that
\* failed then and `change` what the upstream did since.
NothingHeld(s) == [code |-> "none", rows |-> {}, of |-> s, outage |-> {},
                    refused |-> {}, change |-> "none"]

NoPress == [row |-> Bare, dub |-> 0, code |-> "none", file |-> NoFile, up |-> FALSE]

ScrapersInit ==
    /\ lane \in DOMAIN Sites
    /\ site \in Sites[lane]
    /\ shown = NothingShown
    /\ held = NothingHeld(site)
    /\ got = NoPress

\* A search, or the page of a section the provider has or has not.
Find ==
    /\ held = NothingHeld(site)
    /\ \E ans \in Answers(lane) :
          \/ shown' = Search(lane, site, ans)
          \/ \E section \in BOOLEAN : shown' = Browse(lane, site, section, ans)
    /\ UNCHANGED <<lane, site, held, got>>

\* A card opens the title it is about, or an address nothing is found at.
Open ==
    /\ \E card \in shown.cards, ans \in Answers(lane) :
          LET detail == IF card \in {"own", "alias"} THEN Content(lane, site, ans)
                        ELSE Detail("not_found", {})
          IN  held' = [code |-> detail.code, rows |-> detail.rows, of |-> site,
                       outage |-> Outage(ans), refused |-> Refused(ans), change |-> "none"]
    /\ got' = NoPress
    /\ UNCHANGED <<lane, site, shown>>

\* The id of an animeon episode carries the sources it was minted from.
Minted(at) == IF lane = "animeon" /\ at # <<>> THEN held.of ELSE site

\* The press of a row, in a dub offered for it or in none. Presses leave nothing
\* behind: the next is asked from a listing opened anew.
Press ==
    /\ held.code = "ok" /\ got = NoPress
    /\ \E row \in IF held.rows = {} THEN {Bare} ELSE held.rows :
       \E dub \in row.dubs \cup {0}, ans \in Answers(lane) :
          LET media == Stream(lane, Minted(row.at), row.at, dub, ans)
          IN  got' = [row |-> row, dub |-> dub, code |-> media.code, file |-> media.file,
                      up |-> ans = AllUp]
    /\ UNCHANGED <<lane, site, shown, held>>

\* Bound: a title changes once.
Unrevised == held.code = "ok" /\ held.change = "none" /\ site \in Sites[lane]

\* The upstream adds the next episode of a season in one of its dubs.
Publish ==
    /\ Unrevised /\ site.series /\ site.payload = "list"
    /\ \E f \in ToSet(site.files) :
          LET season == {g \in ToSet(site.files) : g.s = f.s /\ g.d = f.d}
              newest == CHOOSE e \in {g.e : g \in season} : \A g \in season : g.e <= e
          IN  site' = [site EXCEPT !.files = Append(@, [f EXCEPT !.e = newest + 1])]
    /\ held' = [held EXCEPT !.change = "grown"]
    /\ got' = NoPress
    /\ UNCHANGED <<lane, shown>>

\* The upstream takes one of its files down.
Withdraw ==
    /\ Unrevised /\ site.series /\ site.payload = "list"
    /\ \E i \in DOMAIN site.files : site' = [site EXCEPT !.files = RemoveAt(@, i)]
    /\ held' = [held EXCEPT !.change = "shrunk"]
    /\ got' = NoPress
    /\ UNCHANGED <<lane, shown>>

ScrapersNext == Find \/ Open \/ Press \/ Publish \/ Withdraw

ScrapersSpec == ScrapersInit /\ [][ScrapersNext]_scraperVars

-----------------------------------------------------------------------------
(* Where the providers are known to fall short. Each of these is a deviation   *)
(* of the code; the properties below are stated up to them.                    *)

\* The dubs of a title number its seasons and episodes alike, each once. The dubs
\* of eneyida's "tracks" are one season.
Aligned(l, s) ==
    LET tree(d) == IF l = "eneyida" /\ s.shape = "tracks" THEN <<Folder(s.files, "d", d)>>
                   ELSE Folders(Folder(s.files, "d", d), "s")
        lead    == tree(First(s.files).d)
        Same(f, g) == f.s = g.s /\ f.e = g.e
    IN  /\ \A d \in {f.d : f \in ToSet(s.files)} :
              \A i \in DOMAIN tree(d) : \A j \in DOMAIN tree(d)[i] :
                 Same(At(lead, <<i, j>>), tree(d)[i][j])
        /\ \A i, k \in DOMAIN lead : \A j \in DOMAIN lead[i], n \in DOMAIN lead[k] :
              Same(lead[i][j], lead[k][n]) => <<i, j>> = <<k, n>>

\* A dub is found by the position of the listed row, inside the dub's own
\* folder or among the labelled rows of the season.
PicksByPosition(l, s) ==
    l \in {"klontv", "eneyida", "doramyworld"} \/ (l = "serialno" /\ s.shape # "flat")
PicksByLabel(l, s) ==
    l \in {"kinovezha", "uaserialspro"} \/ (l = "serialno" /\ s.shape = "flat")

DubsMatch(l, s) ==
    /\ PicksByLabel(l, s) => \A f, g \in ToSet(s.files) : f.s = g.s => f.d = g.d
    /\ PicksByPosition(l, s) => Aligned(l, s)

\* A number unimay does not find plays its first free episode. A season without
\* a name is season 1 where kinotron lists it and one of its own where it plays.
\* Of the studios that tie for a season anitubeinua lists one and may play by
\* another, which need not number the season alike.
\* A uaflix episode whose page is gone is played from the show's, by position or
\* whatever plays there.
PartlyNamed(s) == {0, 1} \subseteq {f.s : f \in ToSet(s.files)}

StudiosDisagree(s) ==
    \E season \in ToSet(Folders(s.files, "s")) :
    \E j \in DOMAIN CanonicalStudio(season) :
        CanonicalStudio(season)[j].e # JoinStudio(season)[j].e

Misnumbered(l, s) ==
    \/ l = "unimay" /\ \E f \in ToSet(s.files) : f.e = 0
    \/ l = "kinotron" /\ PartlyNamed(s)
    \/ l = "anitubeinua" /\ StudiosDisagree(s)
    \/ /\ l = "uaflix" /\ s.linked
       /\ \E f \in ToSet(s.files) :
             LET there == IF s.payload = "url" THEN First(s.files)
                          ELSE At(Folders(DubFolder(s.files, 0), "s"), <<f.s, f.e>>)
             IN  there # NoFile /\ <<there.s, there.e>> # <<f.s, f.e>>

\* Text that is no address is handed out as one.
Trusting == {"uaserialspro", "kinotron", "eneyida", "animeua"}

\* Listings whose rows name the upstream's own numbers, or carry their sources.
\* uaflix names numbers too, but turns to a position when a page is gone.
Numbering == {"animeon", "coaninet", "simpsonsuatv", "uakino"}

\* Listings that merge the rows of all dubs, or follow the fullest one: what one
\* of several dubs gains may move the rows.
Merges(l, s) ==
    l \in {"kinotron", "animeua", "anitubeinua"} /\ \E f, g \in ToSet(s.files) : f.d # g.d

\* Card ids are read without regard to case, and checked in lower case; a
\* hyphenated section is cut in two; a bare card hides what is episodic.
CaseBlind == {"serialno", "kinovezha", "kinotron", "animeua", "simpsonsuatv", "coaninet"}

CardsMislead(l, s) ==
    \/ l \in CaseBlind \cup {"doramyworld"} /\ s.href = "upper"
    \/ l = "uaflix" /\ s.href = "hyphen"
    \/ l = "eneyida" /\ s.series /\ ~s.label

\* Rows that are listed though they do not play.
DeadRows(l, s, row) ==
    \/ l = "eneyida" /\ s.shape \in {"plain", "wrapped"}
    \/ l = "animeon" /\ ~s.series
    \/ l = "kinotron" /\ PartlyNamed(s)
    \/ l = "anitubeinua" /\ StudiosDisagree(s)
    \/ l = "bambooua" /\ row.says.d = Sponsor

\* Requests whose outage leaves a listing short instead of failing the call.
SoftHops(l) ==
    IF l \in {"klontv", "eneyida", "uaflix", "cikavaideya"} THEN {"player"}
    ELSE IF l \in {"anitubeinua", "animeon", "simpsonsuatv"} THEN {"list"}
    ELSE {}

-----------------------------------------------------------------------------
\* The answer to a press is a file of the episode its row was listed for, in
\* the dub that was asked for when that episode has it.
Meant(s, row, dub, file) ==
    /\ file.s = row.says.s /\ file.e = row.says.e
    /\ dub # 0 /\ file.d # dub => \A f \in ToSet(s.files) :
                           f.d = dub => f.s # row.says.s \/ f.e # row.says.e

Played == got.code = "ok" /\ got.row # Bare

\* The row of an episode plays that episode, in the dub it was asked in, while
\* the upstream stays as it was listed: content() and stream() number the same
\* playlist, each in its own code. What plays is a file of the title, also for a
\* bare title.
PlaysWhatWasListed ==
    held.change = "none" /\ got.code = "ok" =>
        /\ got.file \in ToSet(site.files) \/ (lane \in Trusting /\ got.file = RawText)
        /\ /\ Played /\ got.file # RawText /\ ~Misnumbered(lane, site)
           /\ got.dub # 0 => DubsMatch(lane, site)
           => Meant(site, got.row, got.dub, got.file)

\* An id handed out before the upstream changed plays the same episode after
\* it: whatever the change where rows name numbers, an episode added at the end
\* of a season where they name positions that no other dub shifts.
AddressesSurviveChange ==
    Played /\ ~Misnumbered(lane, site) /\ (got.dub # 0 => DubsMatch(lane, site)) =>
        \/ held.change = "none"
        \/ held.change = "shrunk" /\ lane \notin Numbering
        \/ held.change = "grown" /\ Merges(lane, site)
        \/ Meant(site, got.row, got.dub, got.file)

\* A row listed while the upstream was up plays while it is up.
NoListedDeadEnd ==
    LET whole == /\ site.player \in {"vod", "serial"} /\ ~site.removed
                 /\ site.payload = IF site.series THEN "list" ELSE "url"
    IN  got.up /\ got.row # Bare /\ held.change = "none" /\ whole
        /\ (PicksByPosition(lane, site) => got.dub = 0) /\ ~DeadRows(lane, site, got.row)
            => got.code = "ok"

\* An outage of the upstream is no verdict about the title: what a call reports
\* during one as gated is gated, and a listing it lets through is the listing.
OutageIsReported ==
    LET served == [h \in Hops |-> IF h \in held.refused THEN "missing" ELSE "page"]
        whole  == Content(lane, held.of, served)
    IN  held.outage # {} =>
            /\ held.code = "gated" /\ lane # "uaflix" => whole.code = "gated"
            /\ held.code = "ok" /\ held.outage \cap SoftHops(lane) = {} => held.rows = whole.rows

\* A card a door shows is opened by the id it carries, the title's only one.
CardsOpen == CardsMislead(lane, site) \/ shown.cards \subseteq {"own"}
=============================================================================
