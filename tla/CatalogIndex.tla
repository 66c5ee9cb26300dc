----------------------------- MODULE CatalogIndex -----------------------------
(* The two processes around the local index: the nightly crawler and the API's *)
(* search. They share the rows and the sites, and nothing else. A behaviour    *)
(* follows one of them, chosen at the start. The crawler never reads a row, so *)
(* searches change nothing for it; to a search the crawler is the pages it     *)
(* writes (CrawlPage), between any two of its steps.                           *)
EXTENDS Crawl, CatalogSearch

VARIABLE process

vars == <<rows, site, crawlVars, searchVars, process>>

Init ==
    /\ rows = {}
    /\ site \in Edition
    /\ CrawlInit
    /\ SearchInit
    /\ process \in {"crawler", "api"}

Crawler == process = "crawler" /\ CrawlNext /\ UNCHANGED <<searchVars, process>>

Api == process = "api" /\ SearchNext /\ UNCHANGED <<crawlVars, process>>

\* A site changes a listing, or changes it back.
Revise ==
    /\ process = "api" => Quiet
    /\ \E e \in Edition \ {site} : site' = e
    /\ UNCHANGED <<rows, crawlVars, searchVars, process>>

Next == Crawler \/ Api \/ Revise

-----------------------------------------------------------------------------
(* Days pass; the timer starts a crawl of the whole selection every night,     *)
(* whatever is started by hand; a crawl that does not die goes on.             *)

Night(A) == process = "crawler" /\ A /\ UNCHANGED <<searchVars, process>>

Fairness ==
    /\ WF_vars(Night(Midnight))
    /\ SF_vars(Night(StartRun(Provider)))
    /\ WF_vars(Night(Fetch \/ Revalidate \/ FailSection \/ SkipBare \/ AskAgain \/ Finish))

Spec == Init /\ [][Next]_vars

FairSpec == Spec /\ Fairness

\* However long a provider has refused, and whatever dies or is started by hand
\* meanwhile, it is walked again and again.
WalkedAgain ==
    process = "crawler" => \A p \in Refusing : []<>(Running /\ p \in DOMAIN run.stat)

=============================================================================
