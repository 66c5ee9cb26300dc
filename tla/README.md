# The uk-stream backend in TLA+

This directory holds a TLA+ model of the backend under `src/backend/cs_uk_api`: one
module per component, TLC configurations that check each on a small instance, and
TLAPS proofs that carry the safety results to every value of the constants.
`PROJECT.json` is the index: the components, the runs, the lines each definition
stands for, a mutation of the code each property catches, the hazards, and the
theorems. Paths below are relative to `src/backend/cs_uk_api/`.

    tlc -workers 2 -config CatalogState.cfg MCCatalogState     # a run
    tlapm CatalogStateProofs.tla                               # a proof

## 1. The system

One FastAPI process on one asyncio event loop scrapes some twenty Ukrainian
streaming sites ("providers"), merges their listings into one catalog, and serves
it twice: a native `/api/*` and a Jellyfin facade that the Switchfin client of a
PS4 talks to. It keeps a few JSON files, a SQLite index of the crawled catalog, and a
headless browser for one guarded site. A separate process, the drift monitor, runs
every night and files issues about providers that broke.

| Component | State | Operations | Hard behaviour |
|---|---|---|---|
| **Catalog owner** `_catalog_state/_stores.py`, `cache.py`, `snapshot_store.py` | cached home, resolution map (both with a TTL), group index, search registrations (a TTL each), the snapshot file | publish a build, load the file, register a search, invalidate, look up | four layers with different lives that must name the same things; replacement under live search results; restart |
| **Home snapshot and warm loop** `_catalog_state/snapshot.py`, `warm.py` | build tasks, background gate sweeps, profile warms, the taste profile | read the home, build, heal, warm, refresh the taste | builds have no single flight; stragglers outlive their timeout and write late |
| **Group resolution** `_catalog_state/resolution.py` | in-flight map, content, gate and block caches | resolve a group's page over its members, gate checks | single flight, followers, cancellation, caches changed during the walk |
| **Resume store** `resume_store.py`, `versioned_store.py`, `jellyfin/playback_reports.py` | shelf, finished items, the file, the debounce timer | heartbeat, Stopped report, query, shutdown | a delayed write against an immediate one, a crash, a refusing disk |
| **Play request** `play_request.py`, `jellyfin/delivery.py`, `jellyfin/playback_info.py`, `native/content.py`, `play_attestation.py` | the walk of each request, the attestation's counters | press, resolve, gate, stream, fall through, answer | two records of one outcome, several families and routes, a budget that cancels |
| **Health and watchdog** `health.py`, `watchdog.py`, `http_client.py` | a window of outcomes per lane, startup marks, the shared client, a cooldown | record, judge, reset the client | the client is awaited closed while it is still handed out |
| **Drift monitor** `drift/` | per-provider memory and its file, the tracker's issues, the API's counters as last read | nightly probe, judge, file or close, record | dies between filing and recording; the tracker refuses or hangs; the API restarts between two readings |
| **Providers and extractors** `providers/`, `extractors/playlist.py` | nothing between two calls: the state is the upstream's title and the ids a client holds | search, browse, content, stream of nineteen lanes | an id minted by one call is read by another, days later, from a playlist fetched anew; any page of a call may fail |
| **Uakino session** `uakino_browser.py`, `lifecycle.py` | lock, driver, browser, page, readiness event, heartbeat task, the lane's window | start, bootstrap, warm under a timeout, fetch with one retry, heartbeat, gate of requests, close | close beside a start, a warm cut short anywhere, a loop that dies, a page that dies |
| **Torrent lane** `torrent_lane.py`, `torrent_engine.py`, `providers/yts.py`, `providers/popcorn.py` | caches of candidates and shows (a bound, a TTL); sessions live in the engine | list, open, play: bounded candidates, retries, the engine's conversation | an engine that dies between two calls, slow swarms, hosts in outage, evictions |
| **Catalog index and crawler** `catalog_index.py`, `crawl_guard.py`, `http_cache.py`, `scripts/index_catalog.py` | index rows, the guard's nights and cooldowns, stored pages with validators | nightly crawl, retry passes, write groups | runs that die, refusing providers, pages answered 304 |
| **Search fan-out** `_catalog_state/search.py`, `catalog.py`, `merge.py` | the search cache, with and without uakino | answer locally, ask the providers, merge, fall back | partial answers, an answer cached before the browser was up |
| User state, playback choices, home rows, taste LLM, wire identity, teleport, proxies, facade, wiring, scripts | small or none | mostly pure, or I/O | see section 7 |

How they interact. A build of the *home* publishes rows and a map to the *catalog
owner*; a search registers its groups there. A client opens a card; *group resolution*
asks the owner for the members and walks them. Pressing play walks the members again
at the stream level and leaves two records: the *health tracker*, which the *watchdog*
reads to reset the HTTP client everybody shares, and the *attestation*, which the
*drift monitor* reads over HTTP the next night. The client's playback reports feed
the *resume store* and the attestation. What a card opens and a press plays is read by
the *providers* from the upstream each time; one of them goes through the *uakino
session*, one through the *torrent lane*. The *crawler*, a nightly process, fills the
index a *search* answers from first. All of it but the drift monitor and the crawler runs
on one loop, so a stretch of code without an `await` is one step, and every `await` is a place
where anything else may happen.

What makes each component correct, as the models state it:

* owner: a cached home can be opened; the layers agree; nothing of a replaced snapshot
  survives; a live search result is lost to time only; the file is a snapshot's own map;
* home: anything served that is not the best known is on its way to being replaced;
  the home keeps coming back to the latest listings; the warm loop ends;
* resolution: one walk at a time, joinable while it runs, the same answer to all who
  shared it; a deliberate refusal is on record; everyone is answered;
* resume: what a Stopped report wrote is never lost; the file never goes back; a clean
  shutdown loses nothing; the store is a persisted store;
* play: every counted play is on the attestation's record as it went, attempt by attempt,
  under the lane at fault and with the code told; a lane's window holds only what that
  lane did, as the attestation has it; the answer is the walk's; a wedge gets its reset;
* drift: an issue takes two strikes on record and is never filed twice; a band moves on
  the third shape verdict only; silence is no evidence; fair weather closes every
  issue, and a provider broken for good gets one and keeps it;
* providers: a row plays the episode it was listed for; an id handed out survives what
  the upstream adds or withdraws; a listed row is not dead; an outage is reported as one;
  a shown card opens;
* uakino: a session that looks ready has been on the site; until close() is over every
  browser is within reach of somebody who can stop it; only a call without a timeout can
  keep a fetch; the lane recovers with the site;
* torrents: the best torrent that speaks plays; blame falls on who earned it; an episode
  plays its own file; what is warm survives an outage of the hosts;
* index and search: a provider is stood down for the documented nights and comes back;
  what is written is what is listed; a group is one work; with the browser up, an answer
  has asked it.

## 2. Modules

| Module | Models | Checked by | Proved in |
|---|---|---|---|
| `CatalogState` | the owner: every synchronous method is an action | `MCCatalogState` | `CatalogStateProofs` |
| `HomeSnapshot` | the coroutines around it | `MCHomeSnapshot` | `PersistenceProofs` |
| `GroupResolution` | one group's walks, requests and caches | `MCGroupResolution` | `GroupResolutionProofs` |
| `DurableState` | abstract: what a persisted store promises | as a PROPERTY of `ResumeStore` | `PersistenceProofs` |
| `ResumeStore` | the resume store over the debounced save | `MCResumeStore` | `PersistenceProofs` |
| `PlayWalk` | play requests, the two records, the watchdog | `MCPlayWalk` | `PlayWalkProofs` |
| `DriftMonitor` | the nightly sweep, its memory, the tracker, the API's counters | `MCDriftMonitor` | `DriftMonitorProofs` |
| `Scraper` | what the lanes share: codes, playlists as folders, rows | through `Scrapers` | `LaneProofs` |
| `TortugaLanes`, `PlayerjsLanes`, `AnimeLanes`, `DleLanes` | `content()` and `stream()` of the lanes, by the kind of player they read | through `Scrapers` | `LaneProofs` |
| `CardLanes` | `search()`, `browse()` and the cards of the lanes | through `Scrapers` | `LaneProofs` |
| `Scrapers` | a client and a changing upstream around those operators | `MCScrapers` | `LaneProofs`, `ChangeProofs` |
| `Lines` | a lock's queue and a cache's keys by use: each stands once | through the next two | with them |
| `UakinoSession` | one browser session, the tasks on it, the lane's window | `MCUakinoSession` | `LaneProofs` |
| `TorrentLane` | one play after another, the caches, the engine, the hosts | `MCTorrentLane` | `PlayWalkProofs` |
| `LocalIndex` | the merge, the group keys and the index's rows | through `CatalogIndex` | `CatalogIndexProofs` |
| `Crawl` | the crawler: guard, stored pages, retry passes, deaths | through `CatalogIndex` | `CatalogIndexProofs` |
| `CatalogSearch` | a search: local answer, fan-out, cache, fallback | through `CatalogIndex` | `CatalogIndexProofs` |
| `CatalogIndex` | composes the three: crawl and search over one index | `MCCatalogIndex` | `CatalogIndexProofs` |

`PlayWalk` composes the play request with the health tracker, the watchdog and the
shared client, because its properties relate them. The other modules meet at
interfaces: `HomeSnapshot` moves a whole snapshot where `CatalogState` moves its map;
`PlayWalk` takes the members (`Orders`) that `GroupResolution` and the owner would give
it; `DriftMonitor` has its own copy of the counters `PlayWalk` fills.

A comment that starts with "Mistake:" marks an operator no action uses: it is a
plausible bug in the definition that follows, kept so that each property can be shown
to notice it (`mutants` in `PROJECT.json`). All of them do.

### CatalogState
A resolution map is a set of *sources* `(key, provider, card)`, a card being the number
of the build that listed it or `SearchCard`. `ApplySnapshot` is the one replacement step
(`_apply_snapshot`), used by `BuildLands` (with a disk that may refuse the write) and
`LoadPersisted`; `RegisterSearch` is `register_search` for one group - a search of
several groups is a sequence of these, with no `await` between. `Tick` is the clock: a
deadline is a countdown, so that two lives can be compared without real time. `Restart`
keeps the file alone.

### HomeSnapshot
A snapshot is what tells two builds apart: the edition of the listings it fetched, the
taste and the profiles its rows used, and whether its gate sweep had ended. A build goes
`fanout` -> `sweep` -> (`late` ->) `idle`; `LateSweepDone` is the background
`_finish_sweep` that caches and persists *its own* listings over whatever is there.
A warm goes `running` -> (`late` ->) `idle`; its stragglers still land profiles.

### GroupResolution
A walk is a task named after the request that created it. `Call` joins or leads;
`WalkStarts`, `FetchAnswers`, `FetchRefused` and `CancelLands` are the walk at its awaits;
`GivesUp` is the `wait_for()` of a torrent's PlaybackInfo probe, which cancels the shared
task; `Wakes` is `finally: pop` and the reading of the outcome. `NativeAsks/Ends`,
`SweepAsks/Ends`, `Expires` and `Regroup` are the other writers of what the walk reads.

### ResumeStore, DurableState
`Report` is `record()` for a heartbeat or a Stopped report; `Request`, `TimerFires`,
`WriteNow` and `Shutdown` are `AsyncDebouncedSave` and `VersionedFileStore`. The
timer's payload is a closure that reads the store when it fires (`Encoded`), not a copy.
`DurableState` is three variables and four actions: the live state, the saved one, on or
off; `Save` may only save what is live. `ResumeStore` implements it with
`live <- mem, saved <- disk, on <- up = "up"`.

### PlayWalk
`PressScoped` and `PressGroup` start a request; `Resolved` and `WalksOverNobody` end the
await for its members; `GatePasses/GateRefuses/Serves/Refuses/BudgetOut` are one attempt.
Each ending writes the health window and the attestation the way `attempt_play` does
(`Told`, `Attributed`, `CountsGone`, `Refuted`). The attestation's counters are kept as
sets of the events they count, so that "counted once" can be said. `WatchdogTick`,
`ClientClosed` and `CooldownEnds` are `check_and_reset`; between the first two the closed
client is still the one handed out.

### DriftMonitor
A sweep is `StartSweep` (load, read the counters), `Probe` per provider in registry
order, `JudgeLane` per lane the counters spoke of, then `Record`, `WriteRefused` or
`Killed`. Each settles the tracker through `Reply`: done, refused (`RuntimeError`,
caught), raised (anything else; ends the sweep), or timed out after GitHub carried it
out. `Served`, `NoProgress`, `Refused` and `RestartApi` are the API, at any moment,
during the sweep too. `weather` turns once from foul to *fair* (providers answer, the
tracker works) or *dark* (listings broken for good, the tracker works), to state what
must then happen.

### Scraper, the lane modules, Scrapers
A title is a record of what tells two parses of it apart: whether it says it is a series,
which player it embeds, how its playlist nests, and the files in upstream order, each
with its season, episode and dub. A call gets `ans`, what each of its requests met
(`page`, `missing`, `error`, `down`); `XContent` and `XStream` are the calls of lane X,
with every early return and error code of the method in its order, `XCard`, `XSearch`
and `XBrowse` the listing side. `Scrapers` is the client: `Find` a card, `Open` it, `Press`
a row, while `Publish` and `Withdraw` change the title once in between. A row says what
it is listed as (`says`) and is found again by its id (`at`).

### UakinoSession
`at[t]` is the await a task is suspended at, `line` the queue of the asyncio lock (its head
holds it), `procs` the browsers that exist whoever holds them, `sess` what the session
holds. `Enter`, `Clear`, `Factory`, `Launch`, `Bootstrap` are `_ensure_started` and `_start`
between their awaits, so that `WarmTimesOut` and `Cancel` cut a start at any of them;
`Evaluate` is a fetch with its retry after a 403; `Tick` a heartbeat; `Ask`, `FanOut`,
`GateOpens` and `GateTimesOut` how requests reach it; `Close`, `CloseBrowser` and
`CloseDriver` the shutdown, each taking what the session holds at that moment, since
close() does not wait for the lock. `Unbounded` says which awaits nothing ends but their
own return: a launch by a request, and a call to a live page.

### TorrentLane
`play` is one press from its id to its stream: the pool (`FilmPool`, `EpisodePool`: the
positions of a listing it may draw on), the policy order (`Before`, and `Place` for where
it puts a candidate), one engine call per step (`AddTorrent`, `ListFiles`, `StreamSpeaks`),
the retry of what may only be slow, and who is blamed. `entries` and `shows` are the two
caches as lines by last use (`Lines`), cut at their limits, and `age` how old a show's
fetch is; `RecordTorrents`, `Elapse`, `ListMovie` and `OpenShow` are everybody else. A
file's name is its season and episode, a hint a prefix of them. `touched`, `fetched` and
`seen` are history: every use, which swarms spoke throughout, whether the engine did.

### LocalIndex, Crawl, CatalogSearch, CatalogIndex
A *card* is what a provider lists: aliases as numbers, form, two places a year can come
from, an external key. `Blocks` is `merge_results`' union-find over the listing's order, first by titles
and then by numbers (`United` is one pass), and `GroupKey` the key of a block. `Crawl` walks registry, sections and pages, one request a
step; `guard` is the breaker's file and `stored` the validated pages; `Die` may strike at
any step. `CatalogSearch` is one search: `AnswerLocally`, `AnswerFromCache`, `AskProviders`,
then `Gather` with whichever of them answered in time, or `GatherNothing`; `Deliver` merges
and remembers. In `CatalogIndex` a behaviour follows one of the
two processes, chosen at the start: the crawler never reads the rows, and to the API the
crawler is a page that is written (`CrawlPage`), so the interleavings of the two beyond
that are indistinguishable.

## 3. Runs

All passing runs check deadlock; none turns it off.

| Run | Instance | Shows |
|---|---|---|
| `CatalogState` | 2 keys, 2 providers, HomeTTL 1 > SearchTTL 0, 2 builds; 0.6 M states | `LayersApart`, `CachedHomeResolves`; `PromisesSurvive`, `ReplacementRetires` |
| `HomeSnapshot` | 1 group, 2 builds, 2 warms at once, one change of listings, one taste refresh, one restart; 0.6 M | `StaleIsHealing`; `HomeKeepsUp`, `WarmLoopEnds` |
| `GroupResolution` | 2 members in three maps, 2 requests, one under a budget; 0.3 M | `OneWalkOneAnswer`; `DeliberateOnRecord`, `EveryRequestAnswered` |
| `ResumeStore` | 3 items, shelf of 2, positions before and past the end, 4 reports; 0.15 M | `StoppedSurvives`, `ShutdownLosesNothing`, the refinement `ImplementsDurable` |
| `PlayWalk` | 2 providers (one guarded, one on the engine), 2 requests of every route, window 3, minimum 2, 2 outcomes from elsewhere; 1.3 M | `EveryPlayAttested`, `HealthIsEarned`, `AnswerIsTheWalks`; `DeadClientOnlyInTheReset`, `WedgeIsReset` |
| `DriftSweep` | 2 providers on a 2-night rotation, 3 listings; 0.3 M | the probe axis: `OneIssue`, `StrikesDecide`, `IssuesFollowTheWeather` |
| `DriftPlayback` | 1 lane, counters up to 2; 0.5 M | the playback axis against a live, restarting API: `SilenceDecidesNothing` |
| `Scrapers` | 19 lanes, each with every playlist layout it reads and the faults of a page, one change of the title, one or two failing requests a call | `PlaysWhatWasListed`, `AddressesSurviveChange`, `NoListedDeadEnd`, `OutageIsReported`, `CardsOpen` |
| `UakinoSession` | a warm, its heartbeat, a gated and an ungated request, 4 driver launches, window 2; 0.3 M | `ReadyWasLoaded`, `BrowsersInReach`; `EveryFetchEnds`, `LaneRecovers` |
| `TorrentLane` | 4 movies (one of four torrents, one of none), 2 shows, caches of 2 and 1, TTL 1; 3.8 M | `BestSpeakingPlays`, `BlameIsFair`, `PlaysTheRequested`, `WarmSurvivesOutage` |
| `CatalogIndex` | 3 providers (one crawled, one the browser's, one that lists nothing to the crawler), 6 cards in two editions, block after 2 nights for 2; 0.5 M | `GroupsAreWorks`, `WarmSearchAsksAll`; `BlockIsEarned`, `WritesWhatIsListed`, `WalkedAgain` |
| `SharedWalkCancelled` | as `GroupResolution` | a disagreement of the code with its docstring (section 6) |

**Why the bounds are enough.** Two providers and two keys are the least at which a card
can displace, or survive beside, another; lives of one tick against none keep the order
of the code's defaults (30 and 5 minutes). Two builds are the least that can land in the
wrong order, with a restart between them. Two members and two requests give every
join, lead, cancel and fall-through; `MaxAttempts` is 2 there, so the cap on members is
not reached, and each member has at most one native fetch and one gate check in flight.
Three items on a shelf of two reach the cap and its eviction. The health verdict's
ratios 0.4 and 0.8 are kept as fifths, which agree with the floats for every window the
code can have (20). `StrikeCap` saturates the failure counters, of which the code only
ever asks "at least two".
A playlist of two seasons, two episodes and two dubs, whole, short, late or uneven, is the
least in which a position, a label and a number can each point at different files; one
change of the title between listing and press is what every id has to survive. Two
requests beside the heartbeat give every order of the session's lock; four drivers are
one more than a warm and two requests can start. Four candidates exceed the three the
lane tries. Cards that share an alias without a year, and two works a generation apart,
are what the merge has to keep apart or may bridge; two nights and a cooldown of two give
every order of refusal, cooldown and retry, and one page of the instance carries a
validator.

Symmetry is used in `CatalogState`, `ResumeStore` and `SharedWalkCancelled`, which check
no liveness. `MaxBuild`, `Builds`, `Warms`, `MaxEdition`, `MaxTaste`, `MaxRestart`,
`MaxReports`, `MaxSamples`, `MaxPlays`, `MaxFailing` and `Drivers` bound the behaviours; each is named at its
constant.

**Fairness.** `HomeSnapshot`: a build and a warm go on, because every await in them is
bounded by `asyncio.wait(timeout=...)` or the HTTP client's timeouts; the cached home
lapses by its TTL; clients keep reading the home. `GroupResolution`: a walk and a
waiting request go on, for the same timeouts; nothing is assumed of cancellations,
expiries or other writers. `PlayWalk`: only the watchdog - its loop survives its own
failures (`lifecycle.py:157-162`), `aclose()` returns, the cooldown elapses; nothing is
assumed of requests, so a request may hang for ever without keeping the reset away.
`DriftMonitor`: the timer fires (`Persistent=true`) and an undisturbed sweep goes on,
since every probe and `gh` call has a timeout; nothing is assumed of the weather, and a
sweep may be killed any number of times while the weather is foul. `UakinoSession`: the
lock is handed on, a load of the site ends by playwright's timeout, a warm's start by the
warm's, a call to a page that died raises, the gate's timeout and the heartbeat's sleep
elapse, a shutdown goes on. Nothing is assumed of what has no timeout - `page.evaluate`
and the fetch inside it, and a launch that a request makes: such a call may hold the lock
for ever, so `EveryFetchEnds` says that nothing else can keep a fetch, and `LaneRecovers`
asks that no call stalls for good (`Stalled`). Nor is anything assumed of the site, which
may come and go for ever, or of cancellations. `CatalogIndex`: midnights pass, the timer
starts a crawl of the whole selection again and again although runs by hand and deaths
interrupt (strong fairness), and a crawl that does not die goes on, its requests being
bounded by the client's timeouts. The other runs state no fairness.

## 4. Proofs

Eight modules, checked by `tlapm` to the last leaf, with no assumption but the named
ones on the constants (`TTLAssumption`, `HomeBounds`, `GroupAssumption`, ...), which TLC
evaluates on every run. Those that say what the outside is like: `RegistryAssumption`
(the registry is a sequence), `ListingAssumption` (a site keeps its sections and their
number of pages; one that goes is an empty one), `ListingsAssumption` (a torrent has
files, ids tell themselves apart), `LanesAssumption` (the lanes are those of the code; a
file of a title has a season or a number, and no label that reads like the default's;
where a catalogue knows no seasons a title is one season, a film of animeon is one
episode, and a playlist of cikavaideya has no dubs), `HitsAssumption` (a provider
answers under wire ids of its own and says one thing of each; a card has a title) and
`DigestAssumption` (the hash of the keys has no collisions among the titles at hand).
Each module proves inductive invariants and reads the theorems off them.

* `CatalogStateProofs`. `CatalogInv` has to speak of a map that has lapsed, because a later
  registration revives it, and of the file, because the next load installs it:
  a map is a function of (key, provider) whose build cards are the installed snapshot's,
  it lives at least as long as the home, and the file is pure. `ApplyInv` proves the one
  replacement step once for its two callers. Theorems: `TypeCorrect`, `HomeResolves`,
  `Layered`, `NothingRidesForward`, `FilePure`, their conjunction `Apart`, and the action
  properties `PromisesKept` and `Retirement` (`ApplyRetires`: a replacement with a map of
  its own carries over only what a live registration answers for).
* `PersistenceProofs`, what is kept on disk. *The home*: the three healing properties are
  inductive together with "an idle warm holds nothing". Theorems: `HomeTypeCorrect`,
  `SweepHeals`, `TasteHeals`, `ProfilesHeal`, and their conjunction `StaleHeals`.
  *The resume store*: the versions are ordered, promised <= disk <= memory; a stopped
  process has no timer; a shelf is tidy. Theorems: `ResumeTypeCorrect`, `StoppedIsDurable`,
  `LatestWins`, `CleanShutdown` (with no write pending the file holds the store, or a write
  was refused: `NothingWaits`) and `Durability`, the refinement: every step is a step of
  `DurableState` or stutters.
* `GroupResolutionProofs`. Single flight rests on the bookkeeping of who leads whom: a
  request that is not waiting leads nothing, a waiting one waits on a walk that exists,
  the entry names such a walk, a running walk is the listed one, and an answered request
  that did not give up has what its walk ended with. Theorems: `GroupTypeCorrect`,
  `SingleFlight`, `OneAnswer`, and their conjunction `SharedWalk`. For
  `DeliberateRecorded`, a walk that asks is at one of its attempts (`AskingInRange`), so it
  ends on a deliberate verdict just given, or on one it met on record.
* `PlayWalkProofs`, the two walks of a play. *Play*: `StepShapes` sorts the steps into five shapes; the conjuncts of
  `PlayInv` are then proved shape by shape. `Standing` ties a walk's phase to its log and
  to what is left to ask, which is what the other conjuncts need to see that an attempt is
  logged once. The attestation is compared with the log entry by entry (each record
  charges the lane and the code its entry calls for), a window with the log only, and
  `HealthIsEarned`, where the two records agree on the lane, follows from both. Theorems: `PlayTypeCorrect`, `WalksAnswer`, `PlaysAttested`,
  `HealthEarned`, `DeadClientConfined`.
  *Torrents*: `CachesInv` says that a cache is the tail of the history of uses, of any
  length, to its limit (`CacheFollows`: a use before the cut or after it gives the same); `TorrentInv` that
  a play tries the candidates of its pool in order, and while the engine answered none it
  has passed over spoke all along. Theorems: `OutageSurvived`, `BestPlays`, `BlameHeld`,
  `RequestedPlays`.
* `DriftMonitorProofs`. The point is the sweep that dies: `OnRecord` relates the *file* to
  the verdicts on record, `SoFar` relates the *store* in memory to the same verdicts plus
  tonight's for what has been judged, `Pending` says which lanes those are, and `Silence`
  that a lane with no playing between two readings has equal readings. Theorems:
  `DriftInvariant`, `DriftTypeCorrect`, `IssuesAreUnique`, `SecondStrike`, `ThirdShape`, their
  conjunction `NothingHasty`, and `SilenceIsNoEvidence`.
* `CatalogIndexProofs`, over two processes that share the rows and the sites. Four
  invariants: `AnswersAsk` - what is cached under a key, and what is in flight, asked what
  the key says, whatever `ready` is by then (`WarmAsksAll`). `CrawlInv` - a run stands on a
  page that exists in every edition (`Placed`), has each provider once ahead of it
  (`Pending`), and each stored page is the one its validators name (`StoredAsSent`), so a
  304 replays what the site serves (`WrittenIsListed`). `GuardInv` - an entry's nights and
  what its stand-down has left are accounted for, verdict by verdict, by the history of
  walks (`Accounted`); the day's change, a lost file and a run that ends each keep it
  (`StandDownEarned`). `WorksInv` - every card a search may use, in the index, the cache
  or in flight, is one that was answered, each wire id once. On such cards the merge is
  followed union by union: a pass keeps a partition, puts what it joins into one block and
  joins nothing that a set closed under the relation tells apart (`UnionFacts`,
  `UnitedFacts`), so what is left are the chains of shared titles and numbers, in whatever
  order the cards came (`BlocksAreWorks`), and two cards with one key are related
  (`KeysMeet`). Theorem: `EveryGroupIsAWork`.
* `LaneProofs`, the lane with a browser to mind and the table of the others.
  *Uakino*: `Held` says who is inside the lock at which await and what then runs: at most
  one task starts, fetches or reboots, a warm is first in line and its timeout releases
  what it had, marks of a shutdown are final. `BrowsersHeld` says what runs: until close()
  is over nothing but the session's own browser, from its teardown on none of those that
  ran when it began, and afterwards at most one that the session does not hold. Theorems: `TypeCorrect`, `SessionHeld`,
  `ReadyIsLoaded`, `BrowsersStayInReach`. That no browser runs after close() is not among
  them, and is false (section 6).
  *Scrapers*: `ToldInv` says that what a client holds is a call's answer
  for some title and some outage. The call is then compared, check by check, with the one
  that met no outage (`Steady`, `FirstRefusal`, and a lemma for each lane): either it went
  the same way, or the outage is what it reports. What plays is a matter of playlists of
  any length. Their operators are given by positions, so what they return needs no
  induction over the list: the positions of a set are ranked and each rank is taken once
  (`Ranked`, `Foremost`), a selection is increasing and complete (`PickedFacts`), folders
  part the list, and an arrangement is a permutation. From that each lane has two lemmas:
  `...Real` (whatever id is pressed and whatever fails, what plays is a file of the title)
  and `...Plays` (a row the lane listed finds its own episode again, and finds something
  while the upstream is up); `PressInv` then says that what is held was listed, and what
  was got pressed, of that one title. Theorems: `OutageReported`, `CardsAreOpened`,
  `ListedIsPlayed`, `NoDeadEnds`.
* `ChangeProofs`, the same lanes around a change of the upstream. `Revised` says that the
  title at hand is the listed one with one episode more, numbered behind its season and dub
  (`Grown`), or one file less (`Shrunk`). A playlist that grew at its end keeps its folders,
  each grown at its end (`FoldersBegin`); a playlist that is sorted or arranged by dub first
  keeps them too, because the new file is the last of its label in that order
  (`ArrangedGrows`, which follows two increasing enumerations side by side). So a lane whose
  rows name positions still lists every row it listed (`...Stays`), and a listed row plays
  by `LanePlays`. Where the dubs are merged that takes a title of one dub. A lane whose rows
  name the upstream's own numbers finds the number or nothing, whatever was added or taken
  down. Theorem: `AddressesSurvive`.

The type invariants and the bound of the resume shelf are proved and no longer part of
a run: the theorems cover every instance.

**Model-checked only.** Every liveness property (`HomeKeepsUp`, `WarmLoopEnds`,
`EveryRequestAnswered`, `WedgeIsReset`, `IssuesFollowTheWeather`, `EveryFetchEnds`,
`LaneRecovers`, `WalkedAgain`): liveness under fairness is out of the prover's reach.
Every safety property of the runs, invariant or action property, is proved. Induction
over data is beyond the installed provers: the steps of the merge and of a registry are
recursive functions here, whose values exist by a least counterexample (`StepsExist`),
and not folds. That a typed title is the code's own parse, and that matching finds what
a user meant, is outside the model.

## 5. Abstractions worth knowing

* *Owner*: a snapshot file without a map (an older format) and the skipping of cards that
  fail to decode are left out; a build carries at least one card. Sharing of the map's
  dict between cache and lookup is modelled as copying: no reader mutates it.
* *Home*: row contents are what they were computed from; the deep row pool is left out.
* *Resolution*: one group key; a page is the member that served it; the Russian-content
  block is taken as on; a refusal is deliberate or not.
* *Resume*: one runtime for all items; the wall clock increases.
* *Play*: a request is pressed once; the content resolution before it is
  `GroupResolution`'s and shows here as the members it yields or as nobody; only providers
  of the engine can return its verdict. The attribution of a zero-progress stop and the
  `recent` tail of the attestation are left out.
* *Drift*: a listing is reachable or not, complete or not, a count, and the share of each
  form or style as `gone` (under 5%), `minor` or `major` (a fifth or more), the only
  distinctions the code draws; the day is kept modulo the registry's length. Lanes are
  judged in any order where the code sorts them. An unreadable state file,
  `--no-issues`, the bucket of unknown providers and a manual sweep beside the timer's are
  left out.
* *Providers*: what a page decides is modelled, how it is parsed is not; pagination, the
  decryption of player addresses and the metadata of the detail page (year, cast, poster)
  are left out. The known shortcomings of single lanes are named definitions of `Scrapers`
  (`DubsMatch`, `Misnumbered`, `Merges`, `Trusting`, `DeadRows`, `CardsMislead`, `SoftHops`) and
  excepted where they bite; the properties hold of everything else, and section 6 lists
  what the exceptions are.
* *Uakino*: stopping a browser succeeds; a launch that is cut short leaves no process
  behind; a warm is the first in the lock's queue. A launch by a request and a call to the
  page may never return, and then hold up every later fetch. `LaneRecovers` is asked while
  the page and the heartbeat live: nothing in the code brings either back.
* *Torrents*: one play in flight, other callers in atomic steps; a host fails per call; a
  listing is one step; sessions the engine keeps are its own. An engine is configured:
  without one every play ends `unreachable` at once, charged to the lane (`yts.py:215`).
  An engine that takes a request and answers nothing in time is `hung`: what it leaves
  unanswered reads as a dead swarm, in the code and so in `BlameIsFair`. A torrent is
  tried twice for being slow, but `BestSpeakingPlays` promises nothing of one that spoke
  only the second time.
* *Index and search*: one query, asked of all providers at once; matching is a predicate on
  cards (`InQuery`), ranking and hints are left out; no form or style filter and no search
  of one provider by name; an answer is taken before anything else changes; editions of a
  site are named by their validators; nights are capped at the threshold; the store's size
  cap shows as a page dropped when the store is opened; the merge meets cards in registry
  order; what a search registers is `CatalogState`'s.

## 6. Where the code and its documents disagree

One is a violation run, since it takes two concurrent requests and a timeout to see:

* `SharedWalkCancelled`: the request that gives up cancels the walk it shares, and the
  others get `CancelledError` (`_catalog_state/resolution.py:501`, docstring at 480-483).

The others were met while modelling, and need no more than a reading:

* *Owner*: a search that re-registers an unchanged group renews the registration but not
  the map, so a live registration stops resolving (`_stores.py:459`; the docstring at
  409-413 says results "stay actionable"). A build in which every provider failed replaces
  a good snapshot file with an empty one (`_stores.py:387`, against the comment above it).
* *Home*: a profile that lands after its warm's timeout invalidates nothing (`warm.py:99`,
  docstring at 66-69: "if any NEW profile landed").
* *Resume*: a heartbeat without a runtime, after the report that finished the item, shelves
  it past its end (`resume_store.py:246`, comment at 56-58).
* *Drift*: a missing or hanging `gh` raises past `except RuntimeError` and takes the sweep
  down before it saves (`drift/monitor.py:570`; `drift/issues.py:64-66` says a tracker
  outage must not crash the sweep). A fault only the deep probe sees comes up once a
  rotation, and each healthy listing in between resets its count (`monitor.py:225`).
* *Uakino*: close() does not wait for the lock, so a request whose start is under way
  when it tears the session down launches its browser afterwards, and nobody stops it
  (`uakino_browser.py:289`; `lifecycle.py:282-284`: "close it on shutdown so SIGTERM
  doesn't orphan the browser process"). `BrowsersInReach` leaves room for that browser and
  for no other. The heartbeat "runs until cancelled" (`uakino_browser.py:219`) and ends on
  any error that is not a `SessionError` (232), as of a page that died, after which a lane
  it marked down stays down. The page is held before it has been bootstrapped (178), so
  after a failed start the next fetch evaluates on a blank one.
* *Torrents*: where a series host is configured, a movie that left the cache cannot be
  played (`providers/yts.py:424-472`, against the comment at 466-467), because its id is
  taken to that host as a show's; a 200 of the engine whose body is not JSON escapes as an
  error of the lane; a hint is a substring over all files and can pick a subtitle named
  before its video (`torrent_engine.py:262-266`); an episode without torrents plays the
  file the season's pack offers first (`yts.py:622-624`); an engine that dies at its last
  probe reads as `not_found`.
* *Index and search*: a title whose year is only in its name is dropped by the typeahead
  when another year is known (`catalog_index.py:613` and 633 read the listed year only);
  an answer from the fallback drops the failures of the fan-out; local answers are not
  swept for gated cards; the hybrid answer keeps the older local row over the one just
  fetched; a card without a year joins a 1984 and a 2021 work of its name in one group
  (`merge.py:114-119`), so the two groups the comment at 141-145 keeps apart never exist;
  nights of refusal are not reset by a cooldown (`crawl_guard.py:141`); only the last
  retry pass's errors decide a provider's verdict.
* *Providers*, the exceptions named in `Scrapers`: a pick by label finds the first
  labelled row of a season (serialno, kinovezha, uaserialspro); a pick by position inside
  a dub misses when the dub starts late or lacks a season (serialno, klontv, eneyida,
  doramyworld); a season without a name is listed as season 1 and looked up as one of its
  own (`kinotron.py:235` and 311), so its rows are dead or play a neighbour beside a real
  season 1; an episode whose own page is refused is played by its numbers taken as a
  position in the show's player (`uaflix.py:677-684`), another episode when the player
  does not start at the first, or by the one file that player holds; text of the player
  that is no address is handed out as one (uaserialspro, kinotron, eneyida, animeua); of
  two studios with equally many episodes the listing takes the first met and playback the
  one with the lower id, so that a row may play the other's title of its position, or
  nothing (`anitubeinua.py:331-335` and 378-404, against the comment at 401-402); rows
  are merged over the dubs, or follow the fullest one, so that an episode one of several
  dubs gains may move the rows behind it (kinotron, animeua, anitubeinua); a number that
  is gone plays the first free episode (unimay); rows without a stream are listed
  (those of eneyida's seasons without dub folders, animeon's film default, bambooua's
  sponsor); an outage reads as
  gated (uaflix) or shortens the list (klontv, eneyida, cikavaideya, anitubeinua,
  animeon, simpsonsuatv); ids are matched without regard to case and checked with it, cut
  at a hyphenated section, or minted differently by search and browse (serialno,
  kinovezha, kinotron, animeua, simpsonsuatv, coaninet; uaflix; eneyida).

## 7. Not modelled

* *Small*: user state (two bounds over a dict), the choice of a dub and a quality over a
  page, home rows and recommendation scores (pure arithmetic over listings), the grammar
  of wire ids beyond the group keys (`LocalIndex` has those).
* *Out of a model checker's reach*: audio alignment (teleport: numeric, through ffmpeg and
  fpcalc), SQL full-text matching and ranking, the HTML and the ciphers the scrapers read,
  the LLM, byte proxies.
* *Wiring*: facade routing and rendering, settings, operator scripts.
* Inside modelled components, what section 5 names: the deep row pool, paging of a group
  over several members, redirects of `safe_get`, the report and manual mode of the drift
  monitor, hints and filters of a search.

## 8. Plan

Done, in the order of what the system most depends on: `CatalogState` (the owner of what
can be opened), `HomeSnapshot` (who replaces it and when), `GroupResolution` (what opening
a card does), `DurableState` and `ResumeStore` (what must not be lost), `PlayWalk` (what
pressing play does and records), `DriftMonitor` (who watches all that); then `Scrapers`
(what the calls of all of them read), `UakinoSession`, `TorrentLane` and `CatalogIndex`.

Proved since: every safety property of the runs. Next, the model: `GroupResolution` with
paging over several members; the row pool that grows from a snapshot being replaced;
empty builds in `CatalogState`; the hints of a search.
