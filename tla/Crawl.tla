-------------------------------- MODULE Crawl --------------------------------
(* The nightly crawl: every section of every provider, page by page, into the  *)
(* local index, over a client that revalidates the pages it stored before;     *)
(* providers that answered nothing are asked again after the rest. A provider  *)
(* that refuses night after night is stood down for a cooldown, on the record  *)
(* of a file that is written once, at the end of a run.                        *)
(*                                                                             *)
(* An address is <<provider, section, page>>. Days are relative: an entry of   *)
(* the record counts the days its stand-down has left, and knows whether its   *)
(* last refusal was counted today. A site has one of a few editions, which its *)
(* validators name.                                                            *)
EXTENDS LocalIndex

CONSTANTS
    Listing(_, _),      \* provider, edition |-> its sections: the form asked, the pages
    Refusing,           \* providers that may answer with a 403
    Validated,          \* addresses whose origin may send validators
    BlockAfter,         \* nights of refusals that stand a provider down (0: never)
    Cooldown,           \* days it is left alone
    RetryPasses,        \* times those that answered nothing are asked again
    PageLimit           \* pages read of a section

ASSUME CrawlAssumption ==
    /\ {BlockAfter, RetryPasses} \subseteq Nat
    /\ {Cooldown, PageLimit} \subseteq Nat \ {0}
    /\ Refusing \subseteq Provider

\* A site keeps its sections and their number of pages from edition to edition:
\* a page that goes is listed as an empty one.
ASSUME ListingAssumption ==
    \A p \in Provider, e \in Edition :
        /\ IsSequence(Listing(p, e))
        /\ \A s \in DOMAIN Listing(p, e) :
              IsSequence(Listing(p, e)[s].pages) /\ Listing(p, e)[s].pages # <<>>
        /\ \A f \in Edition :
              /\ Len(Listing(p, f)) = Len(Listing(p, e))
              /\ \A s \in DOMAIN Listing(p, e) :
                    Len(Listing(p, f)[s].pages) = Len(Listing(p, e)[s].pages)

VARIABLES
    stored,             \* the pages stored with their validators
    guard,              \* the record of refusals, as the file holds it
    run,                \* the crawl under way
    lately              \* history: how the last walks of each refusing provider ended, by day

crawlVars == <<stored, guard, run, lately>>

NoPage == [tag |-> "none", body |-> "none"]
Clean == [nights |-> 0, left |-> 0, today |-> FALSE]
NoRun == [pass |-> 0, todo |-> <<>>, section |-> 1, page |-> 1, stat |-> <<>>]
Running == run.pass > 0
Unwalked == [earlier |-> <<>>, today |-> "none"]

Sections(p) == Listing(p, site)

CrawlInit ==
    /\ stored = [u \in Validated |-> NoPage]
    /\ guard = [p \in Provider |-> Clean]
    /\ run = NoRun
    /\ lately = [p \in Refusing |-> Unwalked]

-----------------------------------------------------------------------------
(* The record of refusals. *)

\* Mistake: the stand-down is read from the count of nights, which no day clears.
CountBlocks(entry) == BlockAfter # 0 /\ entry.nights >= BlockAfter

Blocked(entry) == BlockAfter # 0 /\ entry.left > 0

\* Mistake: every refusal counts, whether or not the day has one already.
CountsEvery(entry, verdict) ==
    CASE BlockAfter = 0 -> entry
      [] BlockAfter # 0 /\ verdict = "ok" -> Clean
      [] BlockAfter # 0 /\ verdict = "other" -> [entry EXCEPT !.nights = 0, !.today = FALSE]
      [] BlockAfter # 0 /\ verdict = "403" ->
           LET nights == IF entry.nights < BlockAfter THEN entry.nights + 1 ELSE BlockAfter
           IN  [nights |-> nights, today |-> TRUE,
                left |-> IF nights >= BlockAfter THEN Cooldown ELSE entry.left]

\* A success clears the entry, any other failure the streak but not a cooldown;
\* a refusal counts once a day. Nights past the threshold mean no more than it.
Record(entry, verdict) ==
    CASE BlockAfter = 0 -> entry
      [] BlockAfter # 0 /\ verdict = "ok" -> Clean
      [] BlockAfter # 0 /\ verdict = "other" -> [entry EXCEPT !.nights = 0, !.today = FALSE]
      [] BlockAfter # 0 /\ verdict = "403" ->
           LET nights == IF entry.today \/ entry.nights = BlockAfter THEN entry.nights ELSE entry.nights + 1
           IN  [nights |-> nights, today |-> TRUE,
                left |-> IF nights >= BlockAfter THEN Cooldown ELSE entry.left]

\* The verdict of a provider's walk as it goes on: "ok" once a page answered,
\* "403" while every error is a refusal.
AfterError(stat, error) ==
    CASE stat = "ok" -> "ok"
      [] stat \in {"none", error} -> error
      [] OTHER -> "other"

-----------------------------------------------------------------------------
(* The pages stored and the client in front of them. *)

\* Mistake: a page without validators is stored under those of the page before.
StoreAll(url, sends, page) == [page EXCEPT !.tag = IF sends THEN site ELSE @, !.body = site]

\* _store: only a page whose origin sent validators replaces the stored one.
Store(url, sends, page) == IF sends THEN [tag |-> site, body |-> site] ELSE page

Conditional(url) == url \in Validated /\ stored[url] # NoPage

\* The origin answers 304 to the validators of what it serves now.
NotModified(url) == Conditional(url) /\ stored[url].tag = site

PageAt(url, edition) == Listing(url[1], edition)[url[2]].pages[url[3]]

-----------------------------------------------------------------------------
(* The walk. *)

Here == <<Head(run.todo), run.section, run.page>>

HasNext == run.page < Len(Sections(Head(run.todo))[run.section].pages)

NextProvider(r) == [r EXCEPT !.todo = Tail(@), !.section = 1, !.page = 1]

\* On to the next section, and after the last one to the next provider.
NextSection(r) ==
    IF r.section < Len(Sections(Head(r.todo)))
    THEN [r EXCEPT !.section = @ + 1, !.page = 1]
    ELSE NextProvider(r)

Onward(r, more) == IF more /\ r.page < PageLimit THEN [r EXCEPT !.page = @ + 1] ELSE NextSection(r)

Walking == Running /\ run.todo # <<>>

\* A page answers, from the site or from the store, and the cards of the
\* section's form are written; an empty page or a refused write ends the section.
TakePage(heard) ==
    LET p == Head(run.todo)
        form == Sections(p)[run.section].form
        items == {c \in heard : form \in {"any", c.form}}
        marked == [run EXCEPT !.stat[p] = "ok"]
    IN  \/ rows' = Upsert(rows, items) /\ run' = Onward(marked, heard # {} /\ HasNext)
        \/ items # {} /\ UNCHANGED rows /\ run' = NextSection(marked)

\* A fresh answer passes the store on its way to the parser.
Keep ==
    IF Here \in Validated
    THEN \E sends \in BOOLEAN : stored' = [stored EXCEPT ![Here] = Store(Here, sends, @)]
    ELSE UNCHANGED stored

Fetch ==
    /\ Walking /\ Sections(Head(run.todo)) # <<>>
    /\ ~NotModified(Here)
    /\ TakePage(PageAt(Here, site))
    /\ Keep
    /\ UNCHANGED <<site, guard, lately>>

Revalidate ==
    /\ Walking /\ Sections(Head(run.todo)) # <<>>
    /\ NotModified(Here)
    /\ TakePage(PageAt(Here, stored[Here].body))
    /\ UNCHANGED <<site, stored, guard, lately>>

\* A section that fails is on record and skipped. A page that came and could
\* not be parsed has been stored all the same.
FailSection ==
    /\ Walking /\ Sections(Head(run.todo)) # <<>>
    /\ \E error \in {"403", "other"} :
         /\ error = "403" => Head(run.todo) \in Refusing
         /\ run' = NextSection([run EXCEPT !.stat[Head(run.todo)] = AfterError(@, error)])
         /\ UNCHANGED stored \/ (error = "other" /\ ~NotModified(Here) /\ Keep)
    /\ UNCHANGED <<rows, site, guard, lately>>

\* A provider without sections fails for good and is not asked again.
SkipBare ==
    /\ Walking /\ Sections(Head(run.todo)) = <<>>
    /\ run' = NextProvider([run EXCEPT !.stat[Head(run.todo)] = "other"])
    /\ UNCHANGED <<rows, site, stored, guard, lately>>

-----------------------------------------------------------------------------
(* The run. *)

\* Opening the store drops pages that were not read for long. A run in which
\* everybody is stood down ends at once.
StartRun(selection) ==
    LET active == {p \in selection : ~Blocked(guard[p])}
    IN  /\ ~Running /\ active # {}
        /\ run' = [NoRun EXCEPT !.pass = 1, !.todo = SetToSeq(active), !.stat = [p \in active |-> "none"]]
        /\ \E old \in SUBSET Validated : stored' = [u \in Validated |-> IF u \in old THEN NoPage ELSE stored[u]]
        /\ UNCHANGED <<rows, site, guard, lately>>

Silent == {p \in DOMAIN run.stat : run.stat[p] # "ok" /\ Sections(p) # <<>>}

\* Those that answered no page are asked again; what they then answer stands.
AskAgain ==
    /\ Running /\ run.todo = <<>>
    /\ Silent # {} /\ run.pass <= RetryPasses
    /\ run' = [run EXCEPT !.pass = @ + 1, !.todo = SetToSeq(Silent),
                          !.stat = [p \in DOMAIN @ |-> IF p \in Silent THEN "none" ELSE @[p]]]
    /\ UNCHANGED <<rows, site, stored, guard, lately>>

\* The verdicts are recorded and the file is written, whole, before the exit.
Finish ==
    /\ Running /\ run.todo = <<>>
    /\ Silent = {} \/ run.pass > RetryPasses
    /\ guard' = [p \in Provider |-> IF p \in DOMAIN run.stat THEN Record(guard[p], run.stat[p]) ELSE guard[p]]
    /\ lately' = [p \in Refusing |-> IF p \in DOMAIN run.stat THEN [lately[p] EXCEPT !.today = run.stat[p]] ELSE lately[p]]
    /\ run' = NoRun
    /\ UNCHANGED <<rows, site, stored>>

\* The process dies before the file is written: the night is not on record.
Die ==
    /\ Running
    /\ run' = NoRun
    /\ UNCHANGED <<rows, site, stored, guard, lately>>

Midnight ==
    /\ guard' = [p \in Provider |-> [guard[p] EXCEPT !.left = IF @ > 0 THEN @ - 1 ELSE 0, !.today = FALSE]]
    /\ lately' = [p \in Refusing |->
                    IF lately[p].today = "none" THEN lately[p]
                    ELSE LET days == Append(lately[p].earlier, lately[p].today)
                         IN  [today |-> "none",
                              earlier |-> IF Len(days) < BlockAfter THEN days ELSE Tail(days)]]
    /\ UNCHANGED <<rows, site, stored, run>>

\* The file is deleted or cannot be read: every provider starts clean.
LoseRecord ==
    /\ ~Running
    /\ guard' = [p \in Provider |-> Clean]
    /\ UNCHANGED <<rows, site, stored, run, lately>>

CrawlNext ==
    \/ \E selection \in (SUBSET Provider) \ {{}} : StartRun(selection)
    \/ Fetch \/ Revalidate \/ FailSection \/ SkipBare
    \/ AskAgain \/ Finish \/ Die
    \/ Midnight \/ LoseRecord

-----------------------------------------------------------------------------
(* Properties. *)

\* A provider is stood down only where its walks on the last BlockAfter days
\* it was walked ended in refusals, today's among them: one night walked twice,
\* a night that failed otherwise or a run that died count for nothing.
BlockIsEarned ==
    [][\A p \in Refusing : guard'[p].left > guard[p].left =>
          /\ lately'[p].today = "403"
          /\ Len(lately[p].earlier) >= BlockAfter - 1
          /\ \A i \in 1 .. BlockAfter - 1 : lately[p].earlier[Len(lately[p].earlier) + 1 - i] = "403"]_<<rows, site, crawlVars>>

\* The cards on any page of any site.
ListedNow ==
    UNION {UNION ToSet(section.pages) : section \in UNION {ToSet(Sections(p)) : p \in Provider}}

\* What a crawl writes into the index is what some site lists at that moment,
\* though it may come out of the store, and may have been stored, passed over
\* for want of validators, and come back in the meantime.
WritesWhatIsListed ==
    [][Running => rows' \ rows \subseteq ListedNow]_<<rows, site, crawlVars>>

=============================================================================
