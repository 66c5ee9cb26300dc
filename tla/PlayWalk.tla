------------------------------ MODULE PlayWalk ------------------------------
(***************************************************************************)
(* A play request, from the press to its stream or its refusal: the two     *)
(* playable id families and the walk over a group's members                 *)
(* (resolve_stream), the attempt at one provider with its two records       *)
(* (attempt_play: lane health and play attestation), and the watchdog that   *)
(* resets the HTTP client the walks hold when every lane looks dead.         *)
(*                                                                          *)
(* A request is made once.  The counters of the attestation are kept as the  *)
(* sets of the events they count.                                            *)
(***************************************************************************)
EXTENDS Integers, Sequences, FiniteSets

CONSTANTS
    Providers,    \* PROVIDERS, the ids the watchdog looks at
    EngineUsers,  \* those that stream through the torrent engine
    Guarded,      \* those that are awaited before a native attempt (uakino)
    Engine,       \* ENGINE_TRACKER_ID, a lane that is no provider
    Unknown,      \* UNKNOWN_PROVIDER, also for no provider at all
    Orders,       \* a group's members that can be asked, first seen first
    MaxAttempts,  \* MAX_MEMBER_ATTEMPTS
    Requests,     \* play requests
    Presses,      \* what the requests can be
    Background,   \* stands for whoever else records outcomes
    Window, MinSamples,  \* of the health tracker
    Elsewhere, MaxSamples  \* bound: lanes, and number, of outcomes that others record

Lanes == Providers \cup {Engine}

Families == {"group", "scoped"}
Routes == {"facade", "native", "subtitle"}
Kinds == [family: Families, route: Routes, pinned: BOOLEAN, hurried: BOOLEAN]

ASSUME PlayAssumption ==
    /\ EngineUsers \subseteq Providers /\ Guarded \subseteq Providers
    /\ Engine \notin Providers /\ Unknown \notin Lanes
    /\ Providers \cap {"pending", "refused", "optimistic"} = {}
    /\ Orders \subseteq Seq(Providers)
    /\ MaxAttempts \in Nat \ {0}
    /\ Presses \subseteq [Requests -> Kinds]
    /\ \A f \in Presses : \A r \in Requests :
          f[r].route = "native" => f[r].family = "scoped"
    /\ Background \notin Requests
    /\ Window \in Nat \ {0} /\ MinSamples \in 1..Window
    /\ Elsewhere \subseteq Lanes /\ MaxSamples \in Nat

VARIABLES
    press,     \* what each request is
    walk,      \* where each request stands, what it holds and its answer
    log,       \* history: each attempt of a request and its verdict
    samples,   \* HealthTracker._samples
    pinned,    \* HealthTracker._markers
    faults,    \* refusals PLAY_ATTESTATION counted
    served,    \* servings it counted
    client,    \* http_client._client: none, open, or being closed
    watchdog,  \* "idle" or awaiting close_client()
    cooling,   \* the cooldown of the last reset has not elapsed
    recorded   \* outcomes recorded in the background

tracker == <<samples, pinned>>
attestation == <<faults, served>>
dog == <<watchdog, cooling>>
vars == <<press, walk, log, samples, pinned, faults, served, client, watchdog,
          cooling, recorded>>

\* The verdicts of an attempt.  "engine" is an unreachable that carries the
\* engine_path mark, "bad_track" either translation verdict, "crash" a failure
\* without a code and "lane" any other lane code.
LaneFaults == {"lane", "engine", "crash"}
ItemVerdicts == {"gated", "not_found", "bad_track"}
Verdicts == LaneFaults \cup ItemVerdicts \cup {"served"}
\* The codes a client is told.
Codes == ItemVerdicts \cup {"lane", "crash", "upstream", "warming"}

Phases == {"idle", "resolving", "gate", "stream", "ended"}
Asking == {"gate", "stream"}
Answers == Providers \cup {"pending", "refused", "optimistic"}

Sample == [ok: BOOLEAN, by: Requests \cup {Background}]
Attempt == [member: Providers, verdict: Verdicts]
Fault == [item: Requests, nth: Nat, lane: Lanes \cup {Unknown}, code: Codes]

TypeOK ==
    /\ press \in Presses
    /\ walk \in [Requests -> [phase: Phases, todo: Seq(Providers), http: {"live", "dead"},
                              answer: Answers]]
    /\ log \in [Requests -> Seq(Attempt)]
    /\ samples \in [Lanes -> Seq(Sample)]
    /\ \A l \in Lanes : Len(samples[l]) <= Window
    /\ pinned \in SUBSET Providers
    /\ faults \in SUBSET Fault
    /\ served \in SUBSET (Requests \X Providers)
    /\ client \in {"none", "open", "closing"}
    /\ watchdog \in {"idle", "closing"}
    /\ cooling \in BOOLEAN
    /\ recorded \in 0..MaxSamples

Init ==
    /\ press \in Presses
    /\ walk = [r \in Requests |-> [phase |-> "idle", todo |-> <<>>, http |-> "live",
                                   answer |-> "pending"]]
    /\ log = [r \in Requests |-> <<>>]
    /\ samples = [l \in Lanes |-> <<>>]
    /\ pinned = {}
    /\ faults = {} /\ served = {}
    /\ client = "none"
    /\ watchdog = "idle" /\ cooling = FALSE
    /\ recorded = 0

-----------------------------------------------------------------------------
\* HealthTracker.status(): the ratios 0.4 and 0.8 in fifths.
Failures(s) == Cardinality({i \in DOMAIN s : ~s[i].ok})

StatusOf(s, mark) ==
    IF mark THEN "down"
    ELSE IF Len(s) < MinSamples THEN "ok"
    ELSE IF 5 * Failures(s) >= 4 * Len(s) THEN "down"
    ELSE IF 5 * Failures(s) >= 2 * Len(s) THEN "degraded"
    ELSE "ok"

Status(l) == StatusOf(samples[l], l \in pinned)

\* HealthTracker.record(): a deque of Window samples.
Newest(s) == IF Len(s) > Window THEN Tail(s) ELSE s

Recorded(l, ok, by) ==
    [samples EXCEPT ![l] = Newest(Append(@, [ok |-> ok, by |-> by]))]

\* all_relevant_down(): a pinned provider neither vetoes nor satisfies it.
\* Mistake: every lane the tracker knows is asked, the engine's too.
EveryLaneDown == \A l \in Lanes \ pinned : Status(l) = "down"

AllRelevantDown ==
    /\ Providers \ pinned # {}
    /\ \A p \in Providers \ pinned : Status(p) = "down"

-----------------------------------------------------------------------------
\* member_attempts(): at most MaxAttempts members, and the lead before the
\* others when it is among them.
Capped(o) == SubSeq(o, 1, IF Len(o) < MaxAttempts THEN Len(o) ELSE MaxAttempts)

Fronted(s, k) == [i \in DOMAIN s |-> IF i = 1 THEN s[k] ELSE IF i <= k THEN s[i - 1] ELSE s[i]]

Led(s, lead) ==
    IF \E k \in DOMAIN s : s[k] = lead
    THEN Fronted(s, CHOOSE k \in DOMAIN s : s[k] = lead)
    ELSE s

\* A None surface is the subtitle route's.
Counted(r) == press[r].route # "subtitle"

\* The lane of an attempt's verdict.
Attributed(p, v) == IF v = "engine" THEN Engine ELSE p

\* record_verdict(): item verdicts are no lane's fault.
\* Mistake: a title that is gone is taken for a fault of its lane.
CountsGone(v) == v \in LaneFaults \cup {"not_found"}

LaneFault(v) == v \in LaneFaults

\* refusal_code: native folds what it does not pass through into its 502.
Told(r, v) ==
    IF press[r].route = "native" /\ v \notin {"gated", "bad_track"} THEN "upstream"
    ELSE IF v = "engine" THEN "lane" ELSE v

\* WALKABLE_VERDICT_CODES, and a crash without a code.
\* Mistake: whatever a member answers, the next one is asked.
AnyVerdict(v) == TRUE

Walkable(v) == v # "gated"

-----------------------------------------------------------------------------
\* provider_for_item() of a group key: its first member, when it is known.
FirstSeen == {o[1] : o \in Orders \ {<<>>}} \cup {Unknown}

\* attest_refusal()
Refuted(r, nth, lane, code) ==
    IF Counted(r)
    THEN faults \cup {[item |-> r, nth |-> nth, lane |-> lane, code |-> code]}
    ELSE faults

\* A request that ends before any attempt.
RefusedEarly(r, lane, code) ==
    /\ faults' = Refuted(r, 0, lane, code)
    /\ walk' = [walk EXCEPT ![r].phase = "ended", ![r].answer = "refused"]
    /\ UNCHANGED <<press, log, tracker, served, client, dog, recorded>>

FirstPhase(r) == IF press[r].pinned THEN "gate" ELSE "stream"

\* get_client(): makes a client when there is none, and does not see that
\* the one it returns is being closed.
GotClient == IF client = "none" THEN "open" ELSE client

\* The attempts begin, all with the client there is now.
Begins(r, attempts) ==
    /\ attempts # <<>>
    /\ client' = GotClient
    /\ walk' = [walk EXCEPT ![r].phase = FirstPhase(r), ![r].todo = attempts,
                            ![r].http = IF client = "closing" THEN "dead" ELSE "live"]
    /\ UNCHANGED <<press, log, tracker, attestation, dog, recorded>>

\* A scoped id: an id that names no provider is refused, and the native route
\* awaits a guarded provider first, unless a marker says it is pointless.
PressScoped(r) ==
    /\ walk[r].phase = "idle" /\ press[r].family = "scoped"
    /\ \/ RefusedEarly(r, Unknown, "not_found")
       \/ \E p \in Providers :
             IF press[r].route = "native" /\ p \in Guarded
             THEN IF p \in pinned
                  THEN RefusedEarly(r, p, "upstream")
                  ELSE /\ walk' = [walk EXCEPT ![r].phase = "resolving", ![r].todo = <<p>>]
                       /\ UNCHANGED <<press, log, tracker, attestation, client, dog, recorded>>
             ELSE Begins(r, <<p>>)

\* The session of the guarded provider is ready, or not in time.
Awaited(r) ==
    /\ walk[r].phase = "resolving" /\ press[r].family = "scoped"
    /\ \/ Begins(r, walk[r].todo)
       \/ RefusedEarly(r, Head(walk[r].todo), "warming")

\* A group key: a season is refused under the first member seen, anything else
\* resolves the group's content.
PressGroup(r) ==
    /\ walk[r].phase = "idle" /\ press[r].family = "group"
    /\ \/ \E l \in FirstSeen : RefusedEarly(r, l, "not_found")
       \/ /\ walk' = [walk EXCEPT ![r].phase = "resolving"]
          /\ UNCHANGED <<press, log, tracker, attestation, client, dog, recorded>>

\* Mistake: a walk over nobody is not looked at.
WalksOverNobody(r, attempts) ==
    /\ attempts = <<>>
    /\ walk' = [walk EXCEPT ![r].phase = "ended", ![r].answer = "refused"]
    /\ UNCHANGED <<press, log, tracker, attestation, client, dog, recorded>>

NoAttempts(r, attempts) ==
    attempts = <<>> /\ RefusedEarly(r, Unknown, "not_found")

\* The content answered: no movie, no members, no member that can be asked, or
\* a walk led by the member of the page if it is still known.
Resolved(r) ==
    /\ walk[r].phase = "resolving" /\ press[r].family = "group"
    /\ \/ \E l \in FirstSeen : RefusedEarly(r, l, "not_found")
       \/ \E o \in Orders, lead \in Providers \cup {Unknown} :
             \/ Begins(r, Led(Capped(o), lead))
             \/ NoAttempts(r, Led(Capped(o), lead))

-----------------------------------------------------------------------------
Asked(r) == Head(walk[r].todo)

\* What a refusal leaves of the walk: the next member, or the answer.
AfterRefusal(r, v) ==
    IF Walkable(v) /\ Tail(walk[r].todo) # <<>>
    THEN [walk EXCEPT ![r].phase = FirstPhase(r), ![r].todo = Tail(@)]
    ELSE [walk EXCEPT ![r].phase = "ended", ![r].todo = Tail(@), ![r].answer = "refused"]

Logged(r, v) == [log EXCEPT ![r] = Append(@, [member |-> Asked(r), verdict |-> v])]

\* Mistake: the member that was asked is on record for what the engine did.
AttestedMember(r, v) ==
    Refuted(r, Len(log[r]) + 1, Asked(r), Told(r, v))

Attested(r, v) ==
    Refuted(r, Len(log[r]) + 1, Attributed(Asked(r), v), Told(r, v))

\* _translation_error(): the hook passes the pinned track, or does not apply,
\* or fails, which accepts it; only a track it knows to be missing refuses,
\* before the provider's stream is asked.
GatePasses(r) ==
    /\ walk[r].phase = "gate"
    /\ walk' = [walk EXCEPT ![r].phase = "stream"]
    /\ UNCHANGED <<press, log, tracker, attestation, client, dog, recorded>>

GateRefuses(r) ==
    /\ walk[r].phase = "gate"
    /\ log' = Logged(r, "bad_track")
    /\ faults' = Attested(r, "bad_track")
    /\ walk' = AfterRefusal(r, "bad_track")
    /\ UNCHANGED <<press, tracker, served, client, dog, recorded>>

\* provider.stream() answers with a stream ...
Serves(r) ==
    /\ walk[r].phase = "stream"
    /\ log' = Logged(r, "served")
    /\ samples' = Recorded(Asked(r), TRUE, r)
    /\ served' = IF Counted(r) THEN served \cup {<<r, Asked(r)>>} ELSE served
    /\ walk' = [walk EXCEPT ![r].phase = "ended", ![r].todo = <<>>, ![r].answer = Asked(r)]
    /\ UNCHANGED <<press, pinned, faults, client, dog, recorded>>

\* ... or refuses.  A call on a closed client crashes, which is one of the
\* verdicts; the guarded provider does not use the client.
Refuses(r, v) ==
    /\ walk[r].phase = "stream"
    /\ v = "engine" => Asked(r) \in EngineUsers
    /\ log' = Logged(r, v)
    /\ samples' = IF LaneFault(v)
                  THEN Recorded(Attributed(Asked(r), v), FALSE, r) ELSE samples
    /\ faults' = Attested(r, v)
    /\ walk' = AfterRefusal(r, v)
    /\ UNCHANGED <<press, pinned, served, client, dog, recorded>>

\* PlaybackInfo's budget for a torrent: the walk is cancelled where it awaits,
\* records nothing more, and the client is told an optimistic source.
BudgetOut(r) ==
    /\ press[r].hurried /\ walk[r].phase \in Asking \cup {"resolving"}
    /\ walk' = [walk EXCEPT ![r].phase = "ended", ![r].todo = <<>>, ![r].answer = "optimistic"]
    /\ UNCHANGED <<press, log, tracker, attestation, client, dog, recorded>>

-----------------------------------------------------------------------------
\* Whoever else records an outcome: the sweeps, the searches, the content
\* routes, the engine's probe, the guarded provider's heartbeat.
RecordsElsewhere(l, ok) ==
    /\ recorded < MaxSamples
    /\ recorded' = recorded + 1
    /\ samples' = Recorded(l, ok, Background)
    /\ UNCHANGED <<press, walk, log, pinned, attestation, client, dog>>

\* mark_startup() for the guarded provider, whose warming failed or was late.
MarkStartup(p) ==
    /\ p \in Guarded \ pinned
    /\ pinned' = pinned \cup {p}
    /\ UNCHANGED <<press, walk, log, samples, attestation, client, dog, recorded>>

\* Other callers of get_client().
OthersGetClient ==
    /\ client' = GotClient /\ client # GotClient
    /\ UNCHANGED <<press, walk, log, tracker, attestation, dog, recorded>>

\* check_and_reset(): a client is closed first and dropped when it is closed,
\* and the cooldown starts then; without one there is nothing to await.
ShouldReset == AllRelevantDown /\ ~cooling

WatchdogTick ==
    /\ watchdog = "idle" /\ ShouldReset
    /\ IF client = "none"
       THEN cooling' = TRUE /\ UNCHANGED <<client, watchdog, walk>>
       ELSE /\ client' = "closing" /\ watchdog' = "closing" /\ UNCHANGED cooling
            /\ walk' = [r \in Requests |->
                           IF walk[r].phase \in Asking
                           THEN [walk[r] EXCEPT !.http = "dead"] ELSE walk[r]]
    /\ UNCHANGED <<press, log, tracker, attestation, recorded>>

\* Mistake: the closed client stays in its variable.
KeptClient == client

DroppedClient == "none"

ClientClosed ==
    /\ watchdog = "closing"
    /\ client' = DroppedClient /\ watchdog' = "idle" /\ cooling' = TRUE
    /\ UNCHANGED <<press, walk, log, tracker, attestation, recorded>>

CooldownEnds ==
    /\ cooling /\ watchdog = "idle"
    /\ cooling' = FALSE
    /\ UNCHANGED <<press, walk, log, tracker, attestation, client, watchdog, recorded>>

-----------------------------------------------------------------------------
WalkStep(r) ==
    \/ PressScoped(r) \/ PressGroup(r) \/ Awaited(r) \/ Resolved(r)
    \/ GatePasses(r) \/ GateRefuses(r) \/ Serves(r) \/ BudgetOut(r)
    \/ \E v \in Verdicts \ {"served"} : Refuses(r, v)

\* The requests may all be done, and nobody recording; the process lives on.
Quiet ==
    /\ \A r \in Requests : walk[r].phase = "ended"
    /\ UNCHANGED vars

Next ==
    \/ \E r \in Requests : WalkStep(r)
    \/ \E l \in Elsewhere, ok \in BOOLEAN : RecordsElsewhere(l, ok)
    \/ \E p \in Providers : MarkStartup(p)
    \/ OthersGetClient
    \/ WatchdogTick \/ ClientClosed \/ CooldownEnds
    \/ Quiet

Spec == Init /\ [][Next]_vars

\* The watchdog's loop survives its failures, aclose() returns and the
\* cooldown elapses.
Fairness == WF_vars(WatchdogTick) /\ WF_vars(ClientClosed) /\ WF_vars(CooldownEnds)

FairSpec == Spec /\ Fairness

-----------------------------------------------------------------------------
FaultsOf(r) == {f \in faults : f.item = r}

\* A refusal on record fits the attempt e of r: it is charged to the engine when
\* that failed and to the member otherwise, and its code is what the client was
\* told, which on the native route folds all but the gate's and the track's.
Charges(r, f, e) ==
    /\ e.verdict # "served"
    /\ f.lane = IF e.verdict = "engine" THEN Engine ELSE e.member
    /\ f.code = "upstream" <=>
          press[r].route = "native" /\ e.verdict \notin {"gated", "bad_track"}
    /\ f.code # "upstream" =>
          f.code = IF e.verdict = "engine" THEN "lane" ELSE e.verdict

\* A playback request that was refused is on the attestation's record, and its
\* attempts one by one: each refused attempt exactly once, under the lane at
\* fault and with the code the client was told, and a served one under the member
\* that served it. Nothing is on record that no attempt stands for, but the one
\* refusal of a request that ended before any. What crosses the seam only for a
\* subtitle leaves no record (attempt_play, attest_refusal).
EveryPlayAttested ==
    \A r \in Requests :
        IF press[r].route = "subtitle"
        THEN FaultsOf(r) = {} /\ \A p \in Providers : <<r, p>> \notin served
        ELSE /\ walk[r].answer = "refused" => FaultsOf(r) # {}
             /\ \A p \in Providers : <<r, p>> \in served <=> walk[r].answer = p
             /\ \A i \in DOMAIN log[r] :
                   IF log[r][i].verdict = "served" THEN <<r, log[r][i].member>> \in served
                   ELSE \E f \in FaultsOf(r) : f.nth = i
             /\ \A f \in FaultsOf(r) :
                   IF f.nth = 0 THEN log[r] = <<>> /\ walk[r].answer = "refused"
                   ELSE f.nth \in DOMAIN log[r] /\ Charges(r, f, log[r][f.nth])
             /\ \A f, g \in FaultsOf(r) : f.nth = g.nth => f = g

\* Every sample a play put into a lane's window stands for an attempt of that
\* play: a serving by that lane, or a fault of that lane, and when the play
\* counts it is on the attestation's record under the same lane. So no verdict
\* about a title ever counts against a lane, an engine that is down never counts
\* against the provider that asked it, and the two records never disagree on who
\* failed (ADR-0002, record_verdict). A call that crashes on a client somebody
\* else closed is a fault of the lane that made it.
HealthIsEarned ==
    \A l \in Lanes : \A i \in DOMAIN samples[l] :
        LET s == samples[l][i]
        IN  s.by \in Requests =>
            \E j \in DOMAIN log[s.by] :
                LET e == log[s.by][j]
                IN  IF s.ok
                    THEN /\ e.verdict = "served" /\ e.member = l
                         /\ Counted(s.by) => <<s.by, l>> \in served
                    ELSE /\ \/ e.verdict \in {"lane", "crash"} /\ e.member = l
                            \/ e.verdict = "engine" /\ l = Engine
                         /\ Counted(s.by) => \E f \in FaultsOf(s.by) : f.nth = j /\ f.lane = l

\* The answer of a walk is its last member's: it is refused only when every
\* member it had was asked or one of them gated, and nobody is asked after a
\* member that gated or served (resolve_stream).
AnswerIsTheWalks ==
    \A r \in Requests :
        /\ \A i \in DOMAIN log[r] :
              log[r][i].verdict \in {"gated", "served"} =>
                  /\ i = Len(log[r])
                  /\ walk[r].phase = "ended"
        /\ walk[r].answer \in Providers =>
              /\ log[r] # <<>>
              /\ log[r][Len(log[r])] = [member |-> walk[r].answer, verdict |-> "served"]
        /\ walk[r].answer = "refused" /\ log[r] # <<>> =>
              walk[r].todo = <<>> \/ log[r][Len(log[r])].verdict = "gated"

\* Attempts get a client that is closed only while the reset that closes it is
\* under way: what begins after a reset has a client that works
\* (get_client, close_client).
DeadClientOnlyInTheReset ==
    [][\A r \in Requests :
          walk[r].phase \notin Asking /\ walk'[r].phase \in Asking /\ watchdog = "idle"
          => walk'[r].http = "live"]_vars

\* When every provider that is not pinned stays down, the watchdog gets to
\* reset the client, again after every cooldown (all_relevant_down,
\* check_and_reset).
Wedged ==
    Providers \ pinned # {} /\ \A p \in Providers \ pinned : Status(p) = "down"

WedgeIsReset ==
    Wedged ~> ~Wedged \/ watchdog = "closing" \/ client = "none"
=============================================================================
