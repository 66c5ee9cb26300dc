---------------------------- MODULE HomeSnapshot ----------------------------
(***************************************************************************)
(* The coroutines around the catalog owner: load_home() on a miss, the      *)
(* provider fan-out of _build_home(), its gate sweep whose stragglers       *)
(* finish in the background, the profile warm each landing starts, and the  *)
(* taste refresh.  Several of each run at once, interleaved at every await. *)
(*                                                                          *)
(* A snapshot is what distinguishes one build from another: the edition of  *)
(* the upstream listings it fetched, the taste and the profiles its rows    *)
(* were computed from, and whether its gate sweep had finished.  The        *)
(* resolution map that moves with it is CatalogState's.                     *)
(***************************************************************************)
EXTENDS Naturals

CONSTANTS
    Groups,       \* the home's group keys
    Builds,       \* bound: builds in flight at once
    Warms,        \* bound: profile warms in flight at once
    MaxEdition,   \* bound: times the upstream listings change
    MaxTaste,     \* bound: taste refreshes
    MaxRestart    \* bound: process restarts

ASSUME HomeBounds == MaxEdition \in Nat /\ MaxTaste \in Nat /\ MaxRestart \in Nat

VARIABLES
    edition,      \* the upstream listings as they are now
    home,         \* home_cache: at most one snapshot
    file,         \* the persisted snapshot: at most one
    build,        \* the _build_home() and _finish_sweep() tasks
    warm,         \* the _warm_profiles() tasks
    profiles,     \* the groups whose content profile is in _profiles
    taste,        \* the active taste profile (0: none)
    restarts,     \* process starts so far
    strayed       \* history: profiles that landed after their warm's timeout

vars == <<edition, home, file, build, warm, profiles, taste, restarts, strayed>>

Snapshot == [edition: 0..MaxEdition, taste: 0..MaxTaste,
             profiles: SUBSET Groups, swept: BOOLEAN]

\* fanout: fetching; sweep: waiting for the gate sweep; late: landed, with the
\* stragglers of its sweep still running.
BuildPhases == {"idle", "fanout", "sweep", "late"}

\* running: inside the timeout; late: past it, tasks not cancelled.
WarmPhases == {"idle", "running", "late"}

IdleBuild == [phase |-> "idle", edition |-> 0]
IdleWarm == [phase |-> "idle", todo |-> {}, added |-> FALSE]

TypeOK ==
    /\ edition \in 0..MaxEdition
    /\ home \in SUBSET Snapshot
    /\ \A s, t \in home : s = t
    /\ file \in SUBSET Snapshot
    /\ \A s, t \in file : s = t
    /\ build \in [Builds -> [phase: BuildPhases, edition: 0..MaxEdition]]
    /\ warm \in [Warms -> [phase: WarmPhases, todo: SUBSET Groups, added: BOOLEAN]]
    /\ profiles \in SUBSET Groups
    /\ taste \in 0..MaxTaste
    /\ restarts \in 0..MaxRestart
    /\ strayed \in SUBSET profiles

Init ==
    /\ edition = 0
    /\ home = {}
    /\ file = {}
    /\ build = [b \in Builds |-> IdleBuild]
    /\ warm = [w \in Warms |-> IdleWarm]
    /\ profiles = {}
    /\ taste = 0
    /\ restarts = 0
    /\ strayed = {}

-----------------------------------------------------------------------------
\* Mistake: the persisted snapshot is served and nothing rebuilds it.
NoHeal(b) == IF file # {} THEN build ELSE [build EXCEPT ![b].phase = "fanout"]

StartBuild(b) == [build EXCEPT ![b].phase = "fanout"]

\* load_home() on a miss.  With a readable file its snapshot is served at once
\* and a build starts in the background; without one the build runs inline.
\* Nothing makes two callers share a build.
LoadHome(b) ==
    /\ home = {}
    /\ build[b].phase = "idle"
    /\ home' = file
    /\ build' = StartBuild(b)
    /\ UNCHANGED <<edition, file, warm, profiles, taste, restarts, strayed>>

\* The fan-out ends, complete or cut off at the budget.
Fetched(b) ==
    /\ build[b].phase = "fanout"
    /\ build' = [build EXCEPT ![b] = [phase |-> "sweep", edition |-> edition]]
    /\ UNCHANGED <<edition, home, file, warm, profiles, taste, restarts, strayed>>

\* _cache_home(): the rows are computed now, from the current profiles and
\* taste; the write to disk may fail (logged, never raised).
Land(b, swept) ==
    LET s == [edition |-> build[b].edition, taste |-> taste,
              profiles |-> profiles, swept |-> swept]
    IN  /\ home' = {s}
        /\ file' \in {{s}, file}

\* create_task(_warm_profiles(resp)): one task per group without a profile.
StartWarm ==
    \E w \in Warms :
        /\ warm[w].phase = "idle"
        /\ warm' = [warm EXCEPT ![w] = [phase |-> "running",
                                        todo |-> Groups \ profiles, added |-> FALSE]]

\* Mistake: the stragglers are forgotten once the home has landed.
DropStragglers(b) == [build EXCEPT ![b] = IdleBuild]

KeepStragglers(b) == [build EXCEPT ![b].phase = "late"]

\* The gate sweep ends within its budget (or there was nothing to sweep).
SweepDone(b) ==
    /\ build[b].phase = "sweep"
    /\ Land(b, TRUE)
    /\ StartWarm
    /\ build' = [build EXCEPT ![b] = IdleBuild]
    /\ UNCHANGED <<edition, profiles, taste, restarts, strayed>>

\* GATE_CHECK_TIMEOUT_S passes first: the partly swept home is cached and the
\* stragglers go on in _finish_sweep().
SweepTimeout(b) ==
    /\ build[b].phase = "sweep"
    /\ Land(b, FALSE)
    /\ StartWarm
    /\ build' = KeepStragglers(b)
    /\ UNCHANGED <<edition, profiles, taste, restarts, strayed>>

\* _finish_sweep(): the same listings, now clean, are cached again - over
\* whatever has landed since.
LateSweepDone(b) ==
    /\ build[b].phase = "late"
    /\ Land(b, TRUE)
    /\ StartWarm
    /\ build' = [build EXCEPT ![b] = IdleBuild]
    /\ UNCHANGED <<edition, profiles, taste, restarts, strayed>>

-----------------------------------------------------------------------------
\* _one(): a profile lands, inside its warm's timeout or after it.
ProfileLands(w, g) ==
    /\ g \in warm[w].todo
    /\ profiles' = profiles \cup {g}
    /\ strayed' = IF warm[w].phase = "late" /\ g \notin profiles
                  THEN strayed \cup {g} ELSE strayed
    /\ warm' = [warm EXCEPT ![w].todo = @ \ {g}, ![w].added = TRUE]
    /\ UNCHANGED <<edition, home, file, build, taste, restarts>>

\* _one(): the content is unavailable or raises; the signal is just missing.
ProfileFails(w, g) ==
    /\ g \in warm[w].todo
    /\ warm' = [warm EXCEPT ![w].todo = @ \ {g}]
    /\ UNCHANGED <<edition, home, file, build, profiles, taste, restarts, strayed>>

\* Mistake: a warm that added nothing invalidates too.
AlwaysInvalidate(w) == TRUE

\* Mistake: a warm never invalidates.
NeverInvalidate(w) == FALSE

ShouldInvalidate(w) == warm[w].added

\* asyncio.wait() returns, everything done or timed out; the tasks left are not
\* cancelled.
WarmReturns(w) ==
    /\ warm[w].phase = "running"
    /\ home' = IF ShouldInvalidate(w) THEN {} ELSE home
    /\ warm' = [warm EXCEPT ![w] = IF @.todo = {} THEN IdleWarm
                                  ELSE [@ EXCEPT !.phase = "late"]]
    /\ UNCHANGED <<edition, file, build, profiles, taste, restarts, strayed>>

\* The last straggler of a warm is over.
WarmOver(w) ==
    /\ warm[w].phase = "late"
    /\ warm[w].todo = {}
    /\ warm' = [warm EXCEPT ![w] = IdleWarm]
    /\ UNCHANGED <<edition, home, file, build, profiles, taste, restarts, strayed>>

\* Mistake: the new taste waits for the home's own expiry.
KeepHome == home

DropHome == {}

\* refresh_profile(): the taste is installed and the home invalidated at once.
RefreshTaste ==
    /\ taste < MaxTaste
    /\ taste' = taste + 1
    /\ home' = DropHome
    /\ UNCHANGED <<edition, file, build, warm, profiles, restarts, strayed>>

-----------------------------------------------------------------------------
\* The home's cache lifetime ends.
HomeExpires ==
    /\ home # {}
    /\ home' = {}
    /\ UNCHANGED <<edition, file, build, warm, profiles, taste, restarts, strayed>>

\* The providers list something new.
UpstreamChanges ==
    /\ edition < MaxEdition
    /\ edition' = edition + 1
    /\ UNCHANGED <<home, file, build, warm, profiles, taste, restarts, strayed>>

\* The process dies and starts again: every task and all memory is lost.
Restart ==
    /\ restarts < MaxRestart
    /\ restarts' = restarts + 1
    /\ home' = {}
    /\ build' = [b \in Builds |-> IdleBuild]
    /\ warm' = [w \in Warms |-> IdleWarm]
    /\ profiles' = {}
    /\ taste' = 0
    /\ strayed' = {}
    /\ UNCHANGED <<edition, file>>

BuildStep(b) == Fetched(b) \/ SweepDone(b) \/ SweepTimeout(b) \/ LateSweepDone(b)
WarmStep(w) ==
    \/ \E g \in Groups : ProfileLands(w, g) \/ ProfileFails(w, g)
    \/ WarmReturns(w)
    \/ WarmOver(w)

Next ==
    \/ \E b \in Builds : LoadHome(b) \/ BuildStep(b)
    \/ \E w \in Warms : WarmStep(w)
    \/ RefreshTaste
    \/ HomeExpires
    \/ UpstreamChanges
    \/ Restart

Spec == Init /\ [][Next]_vars

\* Every await of a build or a warm is bounded by a timeout or by the HTTP
\* client's; the cached home lapses; clients keep reading the home.
Fairness ==
    /\ \A b \in Builds : WF_vars(BuildStep(b))
    /\ \A w \in Warms : WF_vars(WarmStep(w))
    /\ WF_vars(\E b \in Builds : LoadHome(b))
    /\ WF_vars(HomeExpires)

FairSpec == Spec /\ Fairness

-----------------------------------------------------------------------------
Healing == \E b \in Builds : build[b].phase # "idle"

\* Issue #168: a home cached before its gate sweep was over is never left to
\* its lifetime; something in flight will cache a clean one.
PartlySweptIsHealing == \A s \in home : s.swept \/ Healing

\* A home built under another taste is only served while a rebuild is on its
\* way - including one read back from disk after the refresh.
OldTasteIsHealing == \A s \in home : s.taste = taste \/ Healing

\* A profile that landed in time is in the rows, or a warm will invalidate
\* them, or a rebuild is on its way.
TimelyProfilesSurface ==
    \A s \in home :
        \/ profiles \ strayed \subseteq s.profiles
        \/ Healing
        \/ \E w \in Warms : warm[w].phase = "running" /\ warm[w].added

\* Whatever a served home lacks - the end of its sweep, the current taste, a
\* profile that landed in time - is on its way.
StaleIsHealing == PartlySweptIsHealing /\ OldTasteIsHealing /\ TimelyProfilesSurface

\* The persisted snapshot heals: however old the file that was served, and
\* however late an older build's sweep lands on top of a newer one, the home
\* keeps coming back to the latest listings.
HomeKeepsUp == []<>(\E s \in home : s.edition = edition)

\* "The rebuild -> warm loop terminates": from some point on no warm
\* invalidates the home it was started for.
WarmLoopEnds ==
    <>[][home # {} /\ home' = {} => warm' = warm]_vars
=============================================================================
