------------------------------ MODULE TorrentLane ------------------------------
(* The torrent lane: a play picks the torrents of a movie or of an episode,    *)
(* tries them in policy order on a torrent engine, and hands out the first     *)
(* that speaks. Two caches let it do so without the catalogue hosts: the       *)
(* torrents recorded per movie, and the shows fetched lately.                  *)
(*                                                                             *)
(* One play is followed, in steps between its awaits. Other callers list,      *)
(* search and open titles meanwhile, each in one step; the lane reads the      *)
(* caches only before it turns to the engine, so no such step is taken after.  *)
(* An episode is <<show, season, number>>. A candidate names a torrent, its    *)
(* tier in the quality preference (0 for 1080p, 1 for 720p, 2 for the rest)    *)
(* and its seeds; one of a show names the season and the episode it is listed  *)
(* under as well. Numbers have two digits at most: a file is named, and a hint *)
(* is found in its name, by the season and the episode.                        *)
EXTENDS Lines, FiniteSets

CONSTANTS
    Film,           \* movie |-> its candidates, as upstream lists them
    Guide,          \* show |-> the candidates of its episodes, as upstream lists them
    Episodes,       \* the episodes that are played
    Files,          \* torrent |-> its files: <<season, episode>> or <<>>, the kind
    EntriesLimit,   \* movies whose torrents are kept
    ShowMax,        \* shows kept
    TTL,            \* how long a kept show is good for
    MaxCandidates,    \* candidates a play tries
    MaxTries        \* times it tries one that may only have been slow

Movies == DOMAIN Film
Shows == DOMAIN Guide

Torrents == DOMAIN Files

\* A listing is a sequence of candidates; a torrent has files.
Listed(c) ==
    /\ Len(c) \in Nat /\ DOMAIN c = 1 .. Len(c)
    /\ \A i \in DOMAIN c : c[i].tier \in Nat /\ c[i].seeds \in Int /\ c[i].torrent \in Torrents

Filed(files) ==
    /\ Len(files) \in Nat \ {0} /\ DOMAIN files = 1 .. Len(files)
    /\ \A i \in DOMAIN files : files[i].token \in {<<>>} \cup (Nat \X Nat)

ASSUME BoundsAssumption ==
    {EntriesLimit, ShowMax, TTL, MaxCandidates, MaxTries} \subseteq Nat \ {0}

\* Ids tell themselves apart by their form.
ASSUME ListingsAssumption ==
    /\ Episodes \subseteq Shows \X Nat \X Nat
    /\ Movies \cap Episodes = {} /\ "none" \notin Movies \cup Episodes
    /\ \A m \in Movies : Listed(Film[m])
    /\ \A s \in Shows : Listed(Guide[s])
    /\ \A t \in Torrents : Filed(Files[t])

VARIABLES
    SeriesHost,     \* a host for series is configured: settled at startup
    entries,        \* movies with recorded torrents, least recently used first
    shows,          \* shows kept, least recently used first
    age,            \* how old each show's last fetch is, TTL at most
    engine,         \* what the engine answers with
    swarm,          \* what the torrents of the play's candidates do
    play,           \* the play in flight
    touched,        \* history: every movie ever recorded, by its last use
    fetched,        \* history: every show ever fetched, by its last use
    seen            \* history: what held since the play turned to the engine

torrentVars == <<SeriesHost, entries, shows, age, engine, swarm, play, touched, fetched, seen>>

\* "sick" is any status that blames nobody else or a malformed document;
\* "garbled" is a 200 that is not JSON at all. One that is "hung" takes a request
\* and never answers it.
EngineStates == {"up", "down", "sick", "garbled", "hung"}
Reached == {"up", "hung"}

\* A "bad" magnet is refused for good, a "mute" torrent yields no metadata in
\* time, a "silent" one has a session that sends nothing yet.
SwarmStates == {"bad", "mute", "silent", "speaks"}

NoHint == <<>>
NoPlay == [pc |-> "idle", of |-> "none", cands |-> <<>>, k |-> 1, try |-> 1, hint |-> NoHint,
           stream |-> "none", code |-> "none", blamed |-> "nobody", warm |-> FALSE, own |-> FALSE, age |-> 0]
NoHistory == [steady |-> {}, always |-> TRUE, ever |-> FALSE, garbled |-> FALSE]

TorrentInit ==
    /\ SeriesHost \in BOOLEAN
    /\ entries = <<>> /\ shows = <<>> /\ age = [s \in Shows |-> TTL]
    /\ engine \in EngineStates
    /\ swarm = << >>
    /\ play = NoPlay
    /\ touched = <<>> /\ fetched = <<>>
    /\ seen = NoHistory

-----------------------------------------------------------------------------
(* Caches. *)

\* A payload without torrents records nothing.
RecordTorrents(m) ==
    IF Film[m] = <<>> THEN UNCHANGED <<entries, touched>>
    ELSE /\ entries' = Latest(LastUsed(entries, m), EntriesLimit)
         /\ touched' = LastUsed(touched, m)

\* Mistake: a read does not count as a use.
ReadOnly(m) == UNCHANGED entries /\ touched' = LastUsed(touched, m)

Reuse(m) ==
    /\ entries' = LastUsed(entries, m)
    /\ touched' = LastUsed(touched, m)

Fresh(s) == s \in ToSet(shows) /\ age[s] < TTL

ReuseShow(s) ==
    /\ shows' = LastUsed(shows, s)
    /\ fetched' = LastUsed(fetched, s)
    /\ UNCHANGED age

\* A show is dated from before its fetch.
KeepShow(s, since) ==
    /\ shows' = Latest(LastUsed(shows, s), ShowMax)
    /\ fetched' = LastUsed(fetched, s)
    /\ age' = [age EXCEPT ![s] = since]

-----------------------------------------------------------------------------
(* The candidates of a play. *)

\* Mistake: the most seeded torrent, whatever its quality.
MostSeeded(c, i, j) == c[i].seeds > c[j].seeds \/ (c[i].seeds = c[j].seeds /\ i < j)

Before(c, i, j) ==
    \/ c[i].tier < c[j].tier
    \/ c[i].tier = c[j].tier /\ c[i].seeds > c[j].seeds
    \/ c[i].tier = c[j].tier /\ c[i].seeds = c[j].seeds /\ i < j

\* A pool is part of a listing. The candidates of one in policy order,
\* upstream's order between equals: each stands where the number of those that
\* do not come after it puts it.
Place(pool, i) == Cardinality({j \in pool.at : ~Before(pool.from, i, j)})

Ordered(pool) ==
    [n \in 1 .. Cardinality(pool.at) |-> pool.from[CHOOSE i \in pool.at : Place(pool, i) = n]]

FirstOf(seq, n) == SubSeq(seq, 1, IF Len(seq) < n THEN Len(seq) ELSE n)

FilmPool(m) == [from |-> Film[m], at |-> DOMAIN Film[m], hint |-> NoHint]

SeasonTorrents(e) == {i \in DOMAIN Guide[e[1]] : Guide[e[1]][i].of[1] = e[2]}

TorrentsOf(e) == {i \in DOMAIN Guide[e[1]] : Guide[e[1]][i].of = <<e[2], e[3]>>}

\* Mistake: the torrents of the whole season, for any of its episodes.
SeasonPool(e) == [from |-> Guide[e[1]], at |-> SeasonTorrents(e), hint |-> <<e[2], e[3]>>]

\* The episode's own torrents with its exact token for a hint; an episode that
\* has none is looked for in those of its season.
EpisodePool(e) ==
    IF TorrentsOf(e) # {}
    THEN [from |-> Guide[e[1]], at |-> TorrentsOf(e), hint |-> <<e[2], e[3]>>]
    ELSE [from |-> Guide[e[1]], at |-> SeasonTorrents(e), hint |-> <<e[2]>>]

-----------------------------------------------------------------------------
(* Files of a session. *)

Video == {"mkv", "avi"}

NothingSelected == [token |-> <<>>, kind |-> "none"]

Hit(file, hint) == hint # NoHint /\ IsPrefix(hint, file.token)

SelectFile(files, hint) ==
    LET hits == {i \in DOMAIN files : Hit(files[i], hint)}
        videos == {i \in DOMAIN files : files[i].kind \in Video}
    IN  files[IF hits # {} THEN Min(hits) ELSE IF videos # {} THEN Min(videos) ELSE 1]

SelectSubtitle(files) ==
    LET Of(kinds) == {i \in DOMAIN files : files[i].kind \in kinds}
    IN  IF Of({"en.srt", "srt"}) = {} THEN NothingSelected
        ELSE files[Min(IF Of({"en.srt"}) # {} THEN Of({"en.srt"}) ELSE Of({"srt"}))]

\* The engine serves the containers players take as they are; it remuxes the
\* rest, and nobody can seek in a remux.
EngineStream(t, hint) ==
    LET file == SelectFile(Files[t], hint)
    IN  [torrent |-> t, file |-> file, seekable |-> file.kind = "mkv",
         subtitle |-> SelectSubtitle(Files[t])]

-----------------------------------------------------------------------------
(* A play. *)

engineVars == <<engine, swarm, seen>>
showVars == <<shows, age, fetched>>
cacheVars == <<entries, touched, showVars>>

Finish(code, blamed) ==
    play' = [play EXCEPT !.pc = "done", !.code = code, !.blamed = blamed]

\* Neither the movies' cache nor the shows' would have to ask a host for it now.
Warm(id) ==
    IF id \in Movies THEN id \in ToSet(Latest(touched, EntriesLimit))
    ELSE id[1] \in ToSet(Latest(fetched, ShowMax)) /\ age[id[1]] < TTL

\* With its candidates known a play turns to the engine. What their swarms do
\* is anyone's guess.
TurnToEngine(pool, started) ==
    LET tried == FirstOf(Ordered(pool), MaxCandidates)
    IN  IF tried = <<>>
        THEN /\ play' = [started EXCEPT !.pc = "done", !.code = "not_found"]
             /\ UNCHANGED engineVars
        ELSE /\ play' = [started EXCEPT !.pc = "add", !.age = 0, !.cands = tried, !.hint = pool.hint]
             /\ \E sw \in [{tried[i].torrent : i \in DOMAIN tried} -> SwarmStates] :
                    /\ swarm' = sw
                    /\ seen' = [steady |-> {t \in DOMAIN sw : sw[t] = "speaks"},
                                always |-> engine = "up", ever |-> engine \in Reached,
                                garbled |-> engine = "garbled"]
             /\ UNCHANGED engine

\* An id that is no id of the lane is an item's verdict.
AskNonsense ==
    /\ play.pc = "idle"
    /\ play' = [NoPlay EXCEPT !.pc = "done", !.code = "not_found"]
    /\ UNCHANGED <<engineVars, cacheVars>>
    /\ UNCHANGED SeriesHost

AskMovie(m) ==
    LET started == [NoPlay EXCEPT !.of = m, !.warm = Warm(m)]
    IN  /\ play.pc = "idle"
        /\ IF m \in ToSet(entries)
           THEN TurnToEngine(FilmPool(m), started) /\ Reuse(m)
           ELSE /\ play' = [started EXCEPT !.pc = "details"]
                /\ UNCHANGED <<engineVars, entries, touched>>
        /\ UNCHANGED showVars
        /\ UNCHANGED SeriesHost

AskEpisode(e) ==
    LET started == [NoPlay EXCEPT !.of = e, !.warm = Warm(e), !.own = TorrentsOf(e) # {}]
    IN  /\ play.pc = "idle"
        /\ IF ~SeriesHost
           THEN /\ play' = [started EXCEPT !.pc = "done", !.code = "unreachable", !.blamed = "yts"]
                /\ UNCHANGED <<engineVars, showVars>>
           ELSE IF Fresh(e[1])
           THEN TurnToEngine(EpisodePool(e), started) /\ ReuseShow(e[1])
           ELSE /\ play' = [started EXCEPT !.pc = "show"]
                /\ UNCHANGED <<engineVars, showVars>>
        /\ UNCHANGED <<entries, touched>>
        /\ UNCHANGED SeriesHost

\* A payload without torrents will do for a movie recorded in the meantime.
MovieContent ==
    \/ /\ Film[play.of] # <<>>
       /\ RecordTorrents(play.of) /\ TurnToEngine(FilmPool(play.of), play)
    \/ /\ play.of \in ToSet(entries)
       /\ Reuse(play.of) /\ TurnToEngine(FilmPool(play.of), play)
    \/ /\ play.of \notin ToSet(entries)
       /\ Finish("not_found", "nobody") /\ UNCHANGED <<engineVars, entries, touched>>

\* The movie is read from its details again. Where a series host is configured
\* content() takes every id for a show, and that host knows no movie.
Details ==
    /\ play.pc = "details"
    /\ \/ Finish("unreachable", "yts") /\ UNCHANGED <<engineVars, entries, touched>>
       \/ ~SeriesHost /\ MovieContent
       \/ /\ SeriesHost
          /\ Finish("not_found", "nobody") /\ UNCHANGED <<engineVars, entries, touched>>
    /\ UNCHANGED showVars
    /\ UNCHANGED SeriesHost

FetchShow ==
    /\ play.pc = "show"
    /\ \/ Finish("unreachable", "yts") /\ UNCHANGED <<engineVars, showVars>>
       \/ KeepShow(play.of[1], play.age) /\ TurnToEngine(EpisodePool(play.of), play)
    /\ UNCHANGED <<entries, touched>>
    /\ UNCHANGED SeriesHost

-----------------------------------------------------------------------------
(* The conversation with the engine: add, list the files, probe the stream.    *)

Candidate == play.cands[play.k].torrent

\* A slow candidate is tried once more before the next one.
Rejected(retryable) ==
    IF retryable /\ play.try < MaxTries
    THEN play' = [play EXCEPT !.pc = "add", !.try = @ + 1]
    ELSE IF play.k < Len(play.cands)
    THEN play' = [play EXCEPT !.pc = "add", !.k = @ + 1, !.try = 1]
    ELSE Finish("not_found", "nobody")

\* Mistake: an engine that does not answer is one more dead torrent.
FaultIsARejection == engine # "up" /\ Rejected(FALSE)

\* A dead engine ends the play: it is dead for every candidate. A document that
\* does not parse is nobody's error of the contract, and falls on the lane.
EngineFault ==
    \/ /\ engine \in {"down", "sick"}
       /\ Finish("unreachable", "engine")
    \/ /\ engine = "garbled"
       /\ Finish("crash", "yts")

\* The metadata that does not come in time may be the engine's silence or the
\* swarm's: it is the torrent that is rejected.
AddTorrent ==
    /\ play.pc = "add"
    /\ \/ EngineFault
       \/ engine = "hung" /\ Rejected(TRUE)
       \/ /\ engine = "up" /\ swarm[Candidate] \in {"bad", "mute"}
          /\ Rejected(swarm[Candidate] = "mute")
       \/ /\ engine = "up" /\ swarm[Candidate] \in {"silent", "speaks"}
          /\ play' = [play EXCEPT !.pc = "list"]
    /\ UNCHANGED <<engine, swarm, seen, cacheVars>>
    /\ UNCHANGED SeriesHost

ListFiles ==
    /\ play.pc = "list"
    /\ \/ EngineFault
       \/ engine = "hung" /\ Finish("unreachable", "engine")
       \/ /\ engine = "up"
          /\ play' = [play EXCEPT !.pc = "probe"]
       \/ /\ engine = "up" /\ swarm[Candidate] = "silent"
          /\ Rejected(TRUE)
    /\ UNCHANGED <<engine, swarm, seen, cacheVars>>
    /\ UNCHANGED SeriesHost

\* Any failure of the probe reads as silence.
StreamSpeaks ==
    /\ play.pc = "probe"
    /\ IF engine = "up" /\ swarm[Candidate] = "speaks"
       THEN play' = [play EXCEPT !.pc = "done", !.code = "ok",
                                 !.stream = EngineStream(Candidate, play.hint)]
       ELSE Rejected(TRUE)
    /\ UNCHANGED <<engine, swarm, seen, cacheVars>>
    /\ UNCHANGED SeriesHost

Turn ==
    /\ play.pc = "done"
    /\ play' = NoPlay /\ swarm' = << >> /\ seen' = NoHistory
    /\ UNCHANGED <<engine, cacheVars>>
    /\ UNCHANGED SeriesHost

-----------------------------------------------------------------------------
(* Everybody else. *)

BeforeEngine == play.pc \in {"idle", "details", "show"}

\* A payload of the movie host: a search, a page of the newest, or the page of
\* a movie where no series host is configured.
ListMovie(m) ==
    /\ BeforeEngine
    /\ RecordTorrents(m)
    /\ UNCHANGED <<showVars, play, engineVars>>
    /\ UNCHANGED SeriesHost

\* The page or a season of a show.
OpenShow(s) ==
    /\ BeforeEngine /\ SeriesHost
    /\ IF Fresh(s) THEN ReuseShow(s) ELSE KeepShow(s, 0)
    /\ UNCHANGED <<entries, touched, play, engineVars>>
    /\ UNCHANGED SeriesHost

Later(a) == IF a < TTL THEN a + 1 ELSE a

Elapse ==
    /\ BeforeEngine
    /\ age' = [s \in Shows |-> Later(age[s])]
    /\ play' = IF play.pc = "show" THEN [play EXCEPT !.age = Later(@)] ELSE play
    /\ UNCHANGED <<entries, touched, shows, fetched, engineVars>>
    /\ UNCHANGED SeriesHost

EngineChanges ==
    /\ \E e \in EngineStates \ {engine} :
          /\ engine' = e
          /\ seen' = IF BeforeEngine \/ play.pc = "done" THEN seen
                     ELSE [seen EXCEPT !.always = FALSE, !.ever = @ \/ e \in Reached,
                                       !.garbled = @ \/ e = "garbled"]
          /\ UNCHANGED <<swarm, play, cacheVars>>
    /\ UNCHANGED SeriesHost

\* A swarm comes to life step by step, and may fall silent.
SwarmChanges ==
    /\ play.pc \in {"add", "list", "probe"}
    /\ \E t \in DOMAIN swarm :
        \E w \in CASE swarm[t] = "bad" -> {} [] swarm[t] = "mute" -> {"silent"}
                  [] swarm[t] = "silent" -> {"speaks"} [] swarm[t] = "speaks" -> {"silent"} :
            /\ swarm' = [swarm EXCEPT ![t] = w]
            /\ seen' = [seen EXCEPT !.steady = @ \ {t}]
    /\ UNCHANGED <<engine, play, cacheVars>>
    /\ UNCHANGED SeriesHost

TorrentNext ==
    \/ AskNonsense \/ (\E m \in Movies : AskMovie(m)) \/ (\E e \in Episodes : AskEpisode(e))
    \/ Details \/ FetchShow
    \/ AddTorrent \/ ListFiles \/ StreamSpeaks \/ Turn
    \/ (\E m \in Movies : ListMovie(m)) \/ (\E s \in Shows : OpenShow(s))
    \/ Elapse \/ EngineChanges \/ SwarmChanges

TorrentSpec == TorrentInit /\ [][TorrentNext]_torrentVars

-----------------------------------------------------------------------------
(* Properties. *)

Done == play.pc = "done"
Playing == play.of # "none"

PoolOf(id) == IF id \in Movies THEN FilmPool(id) ELSE EpisodePool(id)

\* The better of two candidates, told without sorting; one is in reach of the
\* policy where few enough are as good as it is.
Better(c, d) == c.tier < d.tier \/ (c.tier = d.tier /\ c.seeds > d.seeds)
InReach(pool) ==
    {i \in pool.at : Cardinality({j \in pool.at : ~Better(pool.from[i], pool.from[j])}) <= MaxCandidates}

\* Where the engine answered all along, a torrent in reach of the policy that
\* spoke all along is not lost to a "not found", nor to a worse one.
BestSpeakingPlays ==
    Done /\ Playing /\ seen.always =>
        LET pool == PoolOf(play.of)
        IN  \A i \in InReach(pool) : pool.from[i].torrent \in seen.steady =>
                /\ play.code = "ok"
                /\ \E j \in pool.at : /\ pool.from[j].torrent = play.stream.torrent
                                      /\ ~Better(pool.from[i], pool.from[j])

\* An engine that was never reached is not passed over as an item's verdict, one
\* that always answered is not blamed, and dead swarms are held against nobody.
\* (One that takes a torrent and hangs cannot be told from a dead swarm.)
BlameIsFair ==
    Done /\ play.cands # <<>> =>
        /\ play.code = "not_found" => seen.ever /\ play.blamed = "nobody"
        /\ play.blamed = "engine" => ~seen.always
        /\ play.blamed = "yts" => seen.garbled

\* An episode that has torrents of its own plays out of one of them, and never
\* a file named for another episode when that torrent names one for it.
PlaysTheRequested ==
    Done /\ play.code = "ok" /\ play.own =>
        LET e == play.of
            t == play.stream.torrent
            named == {i \in DOMAIN Files[t] : Files[t][i].token = <<e[2], e[3]>>}
        IN  /\ \E i \in TorrentsOf(e) : t = Guide[e[1]][i].torrent
            /\ named # {} => play.stream.file \in {Files[t][i] : i \in named}

\* An outage of the catalogue hosts does not reach a movie among the last
\* EntriesLimit listed, opened or played, nor a show among the last ShowMax that
\* was fetched within its TTL.
WarmSurvivesOutage ==
    Done /\ play.warm => play.cands # <<>> \/ PoolOf(play.of).at = {}
=============================================================================
