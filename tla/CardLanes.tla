------------------------------- MODULE CardLanes -------------------------------
(* The doors of the scraping providers: what search() and browse() show of a   *)
(* title. A card is told by what its id asks content() for: the title itself   *)
(* ("own"), the title under a second id ("alias"), another address ("other"),  *)
(* or nothing content() accepts ("refused"); a dropped card is "none". The     *)
(* address a card links to is of one of these kinds (`href` of the title):     *)
(*   "page"     a page of the catalog, all in lower case                       *)
(*   "upper"    the same with a capital letter in its slug                     *)
(*   "hyphen"   a page of a section whose name holds a hyphen                  *)
(*   "aside"    a page linked from a block, or a section, beside the catalog   *)
(*   "foreign"  no address of a title                                          *)
(* `label` is whether the card says the title is episodic.                     *)
EXTENDS Scraper

\* The id of a card whose address is of an unusual kind is told by `odd`.
Card(site, odd) ==
    IF site.href \in DOMAIN odd THEN odd[site.href]
    ELSE IF site.href = "foreign" THEN "none" ELSE "own"

Titled(site, card) == IF site.titled THEN card ELSE "none"

Shown(codes, card) ==
    LET code == Refusal(codes)
    IN  [code |-> code, cards |-> IF code = "ok" THEN {card} \ {"none"} ELSE {}]

Known(section) == Unless(section, "not_found")

-----------------------------------------------------------------------------
(* Cards read without regard to case, ids checked in lower case.               *)

SerialnoCard(site) == Card(site, [upper |-> "refused"])
SerialnoSearch(site, ans) == Shown(<<Posted(ans.page)>>, SerialnoCard(site))
SerialnoBrowse(site, section, ans) ==
    Shown(<<Known(section), Lenient(ans.page)>>, SerialnoCard(site))

KinovezhaCard(site) == Card(site, [upper |-> "refused"])
KinovezhaSearch(site, ans) == Shown(<<Posted(ans.page)>>, KinovezhaCard(site))
KinovezhaBrowse(site, section, ans) ==
    Shown(<<Known(section), Lenient(ans.page)>>, KinovezhaCard(site))

KinotronCard(site) == Card(site, [upper |-> "refused"])
KinotronSearch(site, ans) == Shown(<<Posted(ans.page)>>, KinotronCard(site))
KinotronBrowse(site, section, ans) ==
    Shown(<<Known(section), Lenient(ans.page)>>, KinotronCard(site))

AnimeuaCard(site) == Card(site, [upper |-> "refused"])
AnimeuaSearch(site, ans) == Shown(<<Posted(ans.page)>>, AnimeuaCard(site))
AnimeuaBrowse(site, section, ans) ==
    Shown(<<Known(section), Lenient(ans.page)>>, AnimeuaCard(site))

\* The slug is whatever the last segment of the link says.
SimpsonsCard(site) == Card(site, [upper |-> "refused", aside |-> "none"])
SimpsonsSearch(site, ans) == Shown(<<Lenient(ans.page)>>, SimpsonsCard(site))
SimpsonsBrowse(site, section, ans) ==
    Shown(<<Known(section), Lenient(ans.page)>>, SimpsonsCard(site))

CoaninetCard(site) == Card(site, [upper |-> "refused"])
CoaninetSearch(site, ans) == Shown(<<Strict(ans.page)>>, CoaninetCard(site))
CoaninetBrowse(site, section, ans) ==
    Shown(<<Known(section), Strict(ans.page)>>, CoaninetCard(site))

-----------------------------------------------------------------------------
(* Cards read in lower case.                                                   *)

UaserialsproCard(site) == Card(site, [upper |-> "none"])
UaserialsproSearchCard(site) == Card(site, [upper |-> "none"])
UaserialsproSearch(site, ans) == Shown(<<Posted(ans.page)>>, UaserialsproSearchCard(site))
UaserialsproBrowse(site, section, ans) ==
    Shown(<<Known(section), Lenient(ans.page)>>, UaserialsproCard(site))

KlontvCard(site) == Card(site, [upper |-> "none", hyphen |-> "none"])
KlontvSearch(site, ans) == Shown(<<Posted(ans.page)>>, KlontvCard(site))
KlontvBrowse(site, section, ans) ==
    Shown(<<Known(section), Lenient(ans.page)>>, KlontvCard(site))

\* The id carries the kind of the title: browse takes it from the section,
\* search from the card, and a card that does not tell makes it a film.
EneyidaCard(site, told) ==
    LET card == Card(site, [upper |-> "none"])
    IN  IF card = "own" /\ site.series /\ ~told THEN "alias" ELSE card
EneyidaSearch(site, ans) == Shown(<<Posted(ans.page)>>, EneyidaCard(site, site.label))
EneyidaBrowse(site, section, ans) ==
    Shown(<<Known(section), Lenient(ans.page)>>, EneyidaCard(site, TRUE))

\* The id joins section and slug with a hyphen and is split at its first one.
UaflixCard(site) == Titled(site, Card(site, [upper |-> "none", hyphen |-> "other"]))
UaflixSearchCard(site) == Titled(site, Card(site, [upper |-> "none", hyphen |-> "other"]))
UaflixSearch(site, ans) == Shown(<<Posted(ans.page)>>, UaflixSearchCard(site))
UaflixBrowse(site, section, ans) ==
    Shown(<<Known(section), Lenient(ans.page)>>, UaflixCard(site))

CikavaCard(site) == Card(site, [upper |-> "none"])
CikavaSearch(site, ans) == Shown(<<Posted(ans.page)>>, CikavaCard(site))
CikavaBrowse(site, section, ans) ==
    Shown(<<Known(section), Lenient(ans.page)>>, CikavaCard(site))

\* Mistake: the id is split at its first hyphen.
UfdubSplitFirst(site) == Card(site, [upper |-> "none", hyphen |-> "other"])

\* A rotating block beside the category is skipped; a search page has its
\* results inside such a block.
UfdubCard(site) == Card(site, [upper |-> "none"])
UfdubSearch(site, ans) == Shown(<<Posted(ans.page)>>, UfdubCard(site))
UfdubBrowse(site, section, ans) ==
    Shown(<<Known(section), Lenient(ans.page)>>,
          IF site.href = "aside" THEN "none" ELSE UfdubCard(site))

\* The slug is cut at its first capital letter.
DoramyCard(site) == Card(site, [upper |-> "other", hyphen |-> "none"])
DoramySearch(site, ans) == Shown(<<Posted(ans.page)>>, DoramyCard(site))
DoramyBrowse(site, section, ans) ==
    Shown(<<Known(section), Lenient(ans.page)>>, DoramyCard(site))

BambooCard(site) == Titled(site, Card(site, [upper |-> "none"]))
BambooSearch(site, ans) == Shown(<<Posted(ans.page)>>, BambooCard(site))
BambooBrowse(site, section, ans) ==
    Shown(<<Known(section), Lenient(ans.page)>>, BambooCard(site))

AnitubeCard(site) == Titled(site, Card(site, [upper |-> "none"]))
AnitubeSearch(site, ans) == Shown(<<Strict(ans.page)>>, AnitubeCard(site))
AnitubeBrowse(site, section, ans) ==
    Shown(<<Known(section), Lenient(ans.page)>>, AnitubeCard(site))

UakinoCard(site) == Card(site, [upper |-> "none", aside |-> "none"])
UakinoSearch(site, ans) == Shown(<<Posted(ans.page)>>, UakinoCard(site))
UakinoBrowse(site, section, ans) ==
    Shown(<<Known(section), Posted(ans.page)>>, UakinoCard(site))

-----------------------------------------------------------------------------
(* Catalogues that answer JSON: the id is the upstream's own.                  *)

AnimeonCard(site) == Card(site, <<>>)
AnimeonSearch(site, ans) == Shown(<<Strict(ans.page)>>, Titled(site, AnimeonCard(site)))
AnimeonBrowse(site, section, ans) ==
    Shown(<<Known(section), Strict(ans.page)>>, AnimeonCard(site))

UnimayCard(site) == Card(site, <<>>)
UnimaySearch(site, ans) == Shown(<<Posted(ans.page)>>, UnimayCard(site))
UnimayBrowse(site, section, ans) ==
    Shown(<<Known(section), Posted(ans.page)>>, UnimayCard(site))

\* One document is the whole catalog, whatever the page asked for.
HentaiukrCard(site) == IF site.removed THEN "none" ELSE Card(site, <<>>)
HentaiukrSearch(site, ans) == Shown(<<Posted(ans.list)>>, HentaiukrCard(site))
HentaiukrBrowse(site, section, ans) ==
    Shown(<<Known(section), Posted(ans.list)>>, HentaiukrCard(site))
=============================================================================
