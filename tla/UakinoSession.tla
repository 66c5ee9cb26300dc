----------------------------- MODULE UakinoSession -----------------------------
(* The browser session uakino is read through, and the process life around it: *)
(* one headless browser, one page, and a lock that the warm, the heartbeat and *)
(* every request take in turn. close() alone does not take it.                 *)
(*                                                                             *)
(* A step of this module is what happens between two awaits. Stopping a browser *)
(* that runs always succeeds, and a launch that is cut short before it returns *)
(* leaves no process.                                                          *)
EXTENDS Lines, FiniteSets

CONSTANTS
    Requests,       \* the tasks that fetch
    Gated,          \* those that wait for the session to be ready: search and play
    Drivers,        \* names for browser processes
    Window,         \* samples the health tracker keeps
    MinSamples      \* samples it wants before it calls a lane down

Beat == "beat"      \* the task that warms the session and then probes it

ASSUME NamesAssumption ==
    /\ Gated \subseteq Requests /\ Beat \notin Requests
    /\ Drivers # {} /\ 0 \notin Drivers
    /\ Window \in Nat \ {0} /\ MinSamples \in 1..Window

Tasks == Requests \cup {Beat}

VARIABLES
    sess,           \* what the session holds: its driver, its page, who started it
    procs,          \* the browser processes that run
    ready,          \* ready_event
    line,           \* the lock's queue; its head holds the lock
    at,             \* where each task is
    pw,             \* the driver of the start in flight
    tries,          \* the attempt a fetch is at
    marker,         \* the startup marker of the lane
    samples,        \* the lane's window of outcomes
    up,             \* the site answers
    life,           \* where the process is in its shutdown
    old             \* the processes that ran when close() began

vars == <<sess, procs, ready, line, at, pw, tries, marker, samples, up, life, old>>

\* A page is "blank" before its first navigation, "site" on the site, "lost" on
\* an error page and "dead" when its browser is gone.
Pages == {"none", "blank", "site", "lost", "dead"}
Starting == {"clear", "factory", "launch", "boot"}
Points == {"idle", "gate", "warm", "queued", "eval", "reboot", "sleep", "ended"} \cup Starting

Nothing == [driver |-> 0, page |-> "none", by |-> "none"]

Init ==
    /\ sess = Nothing /\ procs = {} /\ ready = FALSE
    /\ line = <<Beat>>
    /\ at = [t \in Tasks |-> IF t = Beat THEN "warm" ELSE "idle"]
    /\ pw = 0
    /\ tries = [t \in Tasks |-> 1]
    /\ marker = "none"
    /\ samples = <<>>
    /\ up \in BOOLEAN
    /\ life = "serving" /\ old = {}

TypeOK ==
    /\ sess \in [driver: Drivers \cup {0}, page: Pages, by: Tasks \cup {"none"}]
    /\ procs \in SUBSET Drivers /\ old \in SUBSET Drivers
    /\ ready \in BOOLEAN /\ up \in BOOLEAN
    /\ line \in Seq(Tasks)
    /\ at \in [Tasks -> Points]
    /\ pw \in Drivers \cup {0}
    /\ tries \in [Tasks -> {1, 2}]
    /\ marker \in {"none", "warm_failed", "warm_timeout"}
    /\ samples \in Seq(BOOLEAN) /\ Len(samples) <= Window
    /\ life \in {"serving", "cancelled", "browser", "driver", "closed"}

-----------------------------------------------------------------------------
(* The lane's health, and who is kept away from a session that cannot serve.   *)

Failed == Cardinality({i \in DOMAIN samples : ~samples[i]})
Down == marker # "none" \/ (Len(samples) >= MinSamples /\ 5 * Failed >= 4 * Len(samples))

\* HealthTracker.record()
Newest(s) == IF Len(s) > Window THEN Tail(s) ELSE s
Record(ok) == samples' = Newest(Append(samples, ok))

Holds(t) == line # <<>> /\ Head(line) = t

Advance(t, next) == at' = [at EXCEPT ![t] = next]

\* Leaving the lock, and where the task is then.
Leave(t, next) ==
    /\ line' = Tail(line)
    /\ Advance(t, next)
    /\ tries' = [tries EXCEPT ![t] = 1]

Outside == UNCHANGED <<up, life, old>>
Unlocked == UNCHANGED <<sess, procs, ready, pw, tries, samples, marker>> /\ Outside

-----------------------------------------------------------------------------
(* How a task comes to the session.                                            *)

\* A poster or a gate check fetches at once; a search or a play that names the
\* lane waits for the event first, and is told at once of a lane that is marked.
Ask(r) ==
    /\ at[r] = "idle"
    /\ IF r \in Gated
       THEN marker = "none" /\ Advance(r, "gate") /\ UNCHANGED line
       ELSE Advance(r, "queued") /\ line' = Append(line, r)
    /\ Unlocked

\* await_uakino_ready() lets it through ...
GateOpens(r) ==
    /\ at[r] = "gate" /\ ready
    /\ Advance(r, "queued") /\ line' = Append(line, r)
    /\ Unlocked

\* ... or answers "warming" when its time is over.
GateTimesOut(r) ==
    /\ at[r] = "gate" /\ ~ready
    /\ Advance(r, "idle") /\ UNCHANGED line
    /\ Unlocked

\* A fan-out over all lanes asks this one only while it can serve.
should_skip_uakino_in_fanout == Down \/ ~ready

FanOut(r) ==
    /\ r \in Gated /\ at[r] = "idle" /\ ~should_skip_uakino_in_fanout
    /\ Advance(r, "queued") /\ line' = Append(line, r)
    /\ Unlocked

\* The next probe of the heartbeat.
Tick ==
    /\ at[Beat] = "sleep"
    /\ Advance(Beat, "queued") /\ line' = Append(line, Beat)
    /\ Unlocked

\* With the lock: a warm always starts anew, a fetch only without a page.
Enter(t) ==
    /\ Holds(t) /\ at[t] \in {"warm", "queued"}
    /\ Advance(t, IF at[t] = "warm" \/ sess.page = "none" THEN "clear" ELSE "eval")
    /\ UNCHANGED line /\ Unlocked

-----------------------------------------------------------------------------
(* Starting the session. Only a warm is in Starting as the heartbeat task: its *)
(* probes find a page for as long as the process serves.                       *)

\* What becomes of a task whose call raises. The heartbeat survives a
\* SessionError alone; a warm that fails marks the lane and is over.
Raise(t, sessionError) ==
    LET warming == t = Beat /\ at[t] \in Starting
    IN  /\ Leave(t, IF t # Beat THEN "idle" ELSE IF sessionError /\ ~warming THEN "sleep" ELSE "ended")
        /\ marker' = IF warming THEN "warm_failed" ELSE marker
        /\ IF t \in Gated \/ (t = Beat /\ sessionError /\ ~warming)
           THEN Record(FALSE) ELSE UNCHANGED samples

\* Mistake: what an earlier start left behind is kept running.
ClearNothing(t) ==
    /\ Holds(t) /\ at[t] = "clear"
    /\ ready' = FALSE /\ sess' = Nothing
    /\ Advance(t, "factory")
    /\ UNCHANGED <<procs, line, pw, tries, samples, marker>> /\ Outside

Clear(t) ==
    /\ Holds(t) /\ at[t] = "clear"
    /\ ready' = FALSE
    /\ procs' = procs \ {sess.driver} /\ sess' = Nothing
    /\ Advance(t, "factory")
    /\ UNCHANGED <<line, pw, tries, samples, marker>> /\ Outside

Factory(t) ==
    /\ Holds(t) /\ at[t] = "factory"
    /\ \/ \E d \in Drivers \ (procs \cup old) :
             /\ procs' = procs \cup {d} /\ pw' = d
             /\ sess' = [sess EXCEPT !.driver = d, !.by = t]
             /\ Advance(t, "launch")
             /\ UNCHANGED <<line, tries, samples, marker>>
       \/ Raise(t, TRUE) /\ UNCHANGED <<sess, procs, pw>>
    /\ UNCHANGED ready /\ Outside

\* Mistake: the session is ready once it has a page.
LaunchReady(t) ==
    /\ Holds(t) /\ at[t] = "launch"
    /\ \/ /\ pw \in procs
          /\ sess' = [sess EXCEPT !.page = "blank"]
          /\ ready' = TRUE
          /\ Advance(t, "boot")
          /\ UNCHANGED <<line, tries, samples, marker>>
       \/ Raise(t, FALSE) /\ UNCHANGED <<sess, ready>>
    /\ pw' = 0
    /\ UNCHANGED procs /\ Outside

\* The browser, its context and its page: the page is held before it has been
\* anywhere.
Launch(t) ==
    /\ Holds(t) /\ at[t] = "launch"
    /\ \/ /\ pw \in procs
          /\ sess' = [sess EXCEPT !.page = "blank"]
          /\ Advance(t, "boot")
          /\ UNCHANGED <<line, tries, samples, marker>>
       \/ Raise(t, FALSE) /\ UNCHANGED sess
    /\ pw' = 0
    /\ UNCHANGED <<procs, ready>> /\ Outside

\* Back on the page: a start is over, a fetch asks (again).
Loaded(t) ==
    /\ sess' = [sess EXCEPT !.page = "site"]
    /\ ready' = TRUE
    /\ IF t = Beat /\ at[t] = "boot" THEN Leave(t, "sleep")
       ELSE Advance(t, "eval") /\ UNCHANGED <<line, tries>>
    /\ UNCHANGED <<samples, marker>>

\* _bootstrap(): the site answers, or its challenge or an error page does, or
\* nothing does; a page that dies while it settles raises what it likes.
Bootstrap(t) ==
    /\ Holds(t) /\ at[t] \in {"boot", "reboot"}
    /\ LET live == sess.page \notin {"none", "dead"}
       IN  \/ live /\ Loaded(t)
           \/ /\ live /\ ~up
              /\ \E p \in {"site", "lost", sess.page} : sess' = [sess EXCEPT !.page = p]
              /\ Raise(t, TRUE) /\ UNCHANGED ready
           \/ /\ ~live /\ \E sessionError \in BOOLEAN : Raise(t, sessionError)
              /\ UNCHANGED <<sess, ready>>
    /\ UNCHANGED <<procs, pw>> /\ Outside

\* The warm is cut short: what it launched is released, and the lane marked.
\* Mistake: what it launched is left for later.
TimeoutKeeps ==
    /\ Holds(Beat) /\ at[Beat] \in Starting
    /\ pw' = 0
    /\ marker' = "warm_timeout"
    /\ Leave(Beat, "ended")
    /\ UNCHANGED <<sess, procs, ready, samples>> /\ Outside

WarmTimesOut ==
    /\ Holds(Beat) /\ at[Beat] \in Starting
    /\ procs' = procs \ {sess.driver} /\ sess' = Nothing /\ pw' = 0
    /\ marker' = "warm_timeout"
    /\ Leave(Beat, "ended")
    /\ UNCHANGED <<ready, samples>> /\ Outside

-----------------------------------------------------------------------------
(* A fetch inside the page.                                                    *)

\* Mistake: only probes that fail are recorded.
FailuresOnly(t, ok) ==
    /\ Leave(t, IF t = Beat THEN "sleep" ELSE "idle")
    /\ IF t \in Gated \cup {Beat} /\ ~ok THEN Record(ok) ELSE UNCHANGED samples

Answered(t, ok) ==
    /\ Leave(t, IF t = Beat THEN "sleep" ELSE "idle")
    /\ IF t \in Gated \cup {Beat} THEN Record(ok) ELSE UNCHANGED samples

\* Mistake: every 403 is worth another try.
EvaluateForever(t) ==
    /\ Holds(t) /\ at[t] = "eval"
    /\ IF sess.page # "site" THEN Raise(t, FALSE)
       ELSE \E status \in IF up THEN {"200"} ELSE {"200", "403", "500", "0"} :
              IF status = "403"
              THEN Advance(t, "reboot") /\ UNCHANGED <<line, tries, samples, marker>>
              ELSE IF status = "0" THEN Raise(t, TRUE)
              ELSE Answered(t, status = "200") /\ UNCHANGED marker
    /\ UNCHANGED <<sess, procs, ready, pw>> /\ Outside

\* The first 403 bootstraps the page again, an opaque answer is a SessionError,
\* and a page that is not on the site raises an error of the browser's own.
Evaluate(t) ==
    /\ Holds(t) /\ at[t] = "eval"
    /\ IF sess.page # "site" THEN Raise(t, FALSE)
       ELSE \E status \in IF up THEN {"200"} ELSE {"200", "403", "500", "0"} :
              IF status = "403" /\ tries[t] = 1
              THEN /\ Advance(t, "reboot") /\ tries' = [tries EXCEPT ![t] = 2]
                   /\ UNCHANGED <<line, samples, marker>>
              ELSE IF status = "0" THEN Raise(t, TRUE)
              ELSE Answered(t, status = "200") /\ UNCHANGED marker
    /\ UNCHANGED <<sess, procs, ready, pw>> /\ Outside

-----------------------------------------------------------------------------
(* The site, the browser and the end of the process.                           *)

SiteChanges ==
    /\ up' = ~up
    /\ UNCHANGED <<line, at, life, old>>
    /\ UNCHANGED <<sess, procs, ready, pw, tries, samples, marker>>

PageDies ==
    /\ sess.page \notin {"none", "dead"}
    /\ sess' = [sess EXCEPT !.page = "dead"]
    /\ UNCHANGED <<procs, ready, line, at, pw, tries, samples, marker>> /\ Outside

\* lifespan cancels the warm and heartbeat task, wherever it is.
Cancel ==
    /\ life = "serving"
    /\ life' = "cancelled"
    /\ line' = Without(line, Beat)
    /\ Advance(Beat, "ended")
    /\ pw' = IF at[Beat] \in Starting THEN 0 ELSE pw
    /\ UNCHANGED <<sess, procs, ready, tries, samples, marker, up, old>>

\* close(), in the three pieces between its awaits: it stops what the session
\* holds when it comes to it, without the lock, and waits for nothing when the
\* session holds nothing.
Close ==
    /\ life = "cancelled"
    /\ life' = IF sess = Nothing THEN "closed" ELSE "browser"
    /\ ready' = FALSE
    /\ old' = procs
    /\ UNCHANGED <<sess, procs, line, at, pw, tries, samples, marker, up>>

\* Mistake: the references are dropped before they are stopped.
ForgetBrowser ==
    /\ life = "browser"
    /\ life' = "driver"
    /\ sess' = Nothing
    /\ UNCHANGED <<procs, ready, line, at, pw, tries, samples, marker, up, old>>

CloseBrowser ==
    /\ life = "browser"
    /\ life' = IF sess.driver = 0 THEN "closed" ELSE "driver"
    /\ sess' = [sess EXCEPT !.page = IF @ = "none" THEN "none" ELSE "dead"]
    /\ procs' = procs \ {sess.driver}
    /\ UNCHANGED <<ready, line, at, pw, tries, samples, marker, up, old>>

CloseDriver ==
    /\ life = "driver"
    /\ life' = "closed"
    /\ sess' = Nothing
    /\ UNCHANGED <<procs, ready, line, at, pw, tries, samples, marker, up, old>>

-----------------------------------------------------------------------------
Step(t) ==
    Enter(t) \/ Clear(t) \/ Factory(t) \/ Launch(t) \/ Bootstrap(t) \/ Evaluate(t)

Next ==
    \/ \E t \in Tasks : Step(t)
    \/ \E r \in Requests : Ask(r) \/ FanOut(r) \/ GateOpens(r) \/ GateTimesOut(r)
    \/ Tick \/ WarmTimesOut
    \/ SiteChanges \/ PageDies
    \/ Cancel \/ Close \/ CloseBrowser \/ CloseDriver

\* What nothing ends but its own return: the driver and the browser of a start
\* that is not the warm's, and a call to a live page, which has no timeout, nor
\* has the fetch inside it.
Unbounded(t) ==
    \/ at[t] \in {"factory", "launch"} /\ t # Beat
    \/ at[t] = "eval" /\ sess.page = "site"

Stalled(t) == Holds(t) /\ Unbounded(t)

Settles(t) == ~Unbounded(t) /\ Step(t)

\* The lock is handed on, a load of the site times out, the warm's timer ends its
\* start if nothing else does, a page that is gone raises, and a shutdown goes on.
\* Nothing is asked of the calls that nothing bounds.
Fairness ==
    /\ \A t \in Tasks : WF_vars(Settles(t))
    /\ \A r \in Requests : WF_vars(GateOpens(r) \/ GateTimesOut(r))
    /\ WF_vars(Tick)
    /\ WF_vars(Close \/ CloseBrowser \/ CloseDriver)

Spec == Init /\ [][Next]_vars
FairSpec == Spec /\ Fairness

-----------------------------------------------------------------------------
\* Whatever is started, cut short and started again, and however far close() has
\* come: until it is over no browser runs that the session does not hold.
NoBrowserLost == life # "closed" => procs \subseteq {sess.driver}

\* While the event is set the session has been on the site: a start that is under
\* way, or one that failed, never looks ready, though a re-bootstrap may have
\* lost the page since.
ReadyWasLoaded ==
    ready /\ life = "serving" =>
        sess.page \notin {"none", "blank"} /\ \A t \in Tasks : at[t] \notin Starting \ {"clear"}

\* A warm that was cut short holds nothing: what runs under a lane marked
\* warm_timeout was started by a request.
TimedOutWarmReleases == marker = "warm_timeout" => sess.by # Beat

\* Every browser that ran when close() began is gone when it returns, even with a
\* fetch in flight that close() does not wait for.
CloseStopsWhatRan == life = "closed" => procs \cap old = {}

\* The references that close() drops at its end may be those of a start that was
\* made meanwhile, of one browser and no more.
OneStrayAtMost == \E d \in Drivers : procs \ {sess.driver} \subseteq {d}

\* As long as the process serves, and until close() is over, a browser that runs
\* is within reach of the next start, of the warm's timeout and of close(), and
\* close() stops every browser that ran when it began. It does not promise that
\* none runs afterwards, though lifecycle.py has it so: close() takes no lock, and
\* a start in flight launches its browser when the teardown has passed. What can
\* outlive close() is bounded here: it was launched after close() began, and at
\* most one such browser is held by nobody.
BrowsersInReach ==
    NoBrowserLost /\ TimedOutWarmReleases /\ CloseStopsWhatRan /\ OneStrayAtMost

\* Every fetch ends, in an answer or an error, behind however many others and
\* through its retry, unless one task holds the lock for ever in a call that has
\* no timeout: nothing else can keep a fetch.
EveryFetchEnds ==
    \A r \in Requests :
        at[r] # "idle" ~> (at[r] = "idle" \/ \E t \in Tasks : []Stalled(t))

\* A lane called down comes back by its heartbeat alone once the site answers, as
\* long as the page and the heartbeat themselves are well and every call to the
\* page returns.
Well == up /\ sess.page = "site" /\ at[Beat] # "ended" /\ marker = "none" /\ life = "serving"
LaneRecovers == (\A t \in Tasks : []<>~Stalled(t)) /\ <>[]Well => <>[]~Down
=============================================================================
