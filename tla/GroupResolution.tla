-------------------------- MODULE GroupResolution --------------------------
(***************************************************************************)
(* resolve_group_content() for one group key: the single-flight walk over   *)
(* the group's members, the requests that share it, and the other writers   *)
(* of the caches it reads - the native content route and the gate sweep.    *)
(*                                                                          *)
(* A walk is a task named after the request that created it; a request is   *)
(* made once.  A content page is the member that served it.                 *)
(***************************************************************************)
EXTENDS Naturals, Sequences

CONSTANTS
    Members,      \* the providers that may carry the group
    Registered,   \* those whose provider object is still registered
    CanGate,      \* those whose cards the gate sweep checks
    Maps,         \* what the map can hold for the key: orders of members
    MaxAttempts,  \* MAX_MEMBER_ATTEMPTS
    Requests,     \* calls of resolve_group_content()
    Hurried       \* those under a wait_for() (a torrent's PlaybackInfo)

ASSUME GroupAssumption ==
    /\ Registered \subseteq Members /\ CanGate \subseteq Registered
    /\ Maps \subseteq Seq(Members)
    /\ MaxAttempts \in Nat \ {0}
    /\ Hurried \subseteq Requests
    /\ Members \cap {"deliberate", "failed", "cancelled", "pending", "none"} = {}

VARIABLES
    order,      \* resolve_group(): the members, first seen first; <<>> = absent
    content,    \* content_cache: the members with a cached page
    gated,      \* gated_cache: what it holds for each member
    blocked,    \* blocklist_cache: the members in it
    native,     \* native content fetches in flight
    sweep,      \* gate checks in flight
    inflight,   \* _resolve_inflight[group_key], as a set
    walk,       \* the _resolve_group_content_once() tasks
    req         \* the requests

caches == <<content, gated, blocked>>
others == <<order, native, sweep>>
vars == <<order, content, gated, blocked, native, sweep, inflight, walk, req>>

\* How a walk ends.  Its caller gets None for both refusals; history tells
\* them apart.
Refusals == {"deliberate", "failed"}
Verdicts == Members \cup Refusals \cup {"cancelled", "pending"}
Answers == Members \cup {"none", "cancelled", "pending"}

AnswerOf(verdict) == IF verdict \in Refusals THEN "none" ELSE verdict

WalkPhases == {"none", "created", "asking", "cancelling", "done"}
Running == {"created", "asking", "cancelling"}

NoWalk == [phase |-> "none", attempts |-> <<>>, pos |-> 0, try |-> 1,
           verdict |-> "pending"]

TypeOK ==
    /\ order \in Maps \cup {<<>>}
    /\ content \in SUBSET Members
    /\ gated \in [Members -> {"unknown", "gated", "free"}]
    /\ blocked \in SUBSET Members
    /\ native \in SUBSET Registered
    /\ sweep \in SUBSET CanGate
    /\ inflight \in SUBSET Requests
    /\ walk \in [Requests -> [phase: WalkPhases, attempts: Seq(Members), pos: Nat,
                              try: 1..2, verdict: Verdicts]]
    /\ req \in [Requests -> [phase: {"idle", "waiting", "answered"},
                             on: Requests, late: BOOLEAN, answer: Answers]]

Init ==
    /\ order \in Maps \cup {<<>>}
    /\ content = {}
    /\ gated = [m \in Members |-> "unknown"]
    /\ blocked = {}
    /\ native = {}
    /\ sweep = {}
    /\ inflight = {}
    /\ walk = [r \in Requests |-> NoWalk]
    /\ req = [r \in Requests |-> [phase |-> "idle", on |-> r, late |-> FALSE,
                                  answer |-> "pending"]]

-----------------------------------------------------------------------------
\* _member_cached(): a deliberate verdict is read before a page.
Deliberate(m) == gated[m] = "gated" \/ m \in blocked
Hit(m) == ~Deliberate(m) /\ m \in content
Miss(m) == ~Deliberate(m) /\ m \notin content

\* The first of some positions, as a set.
First(positions) == {p \in positions : \A q \in positions : p <= q}

\* member_attempts(): one attempt per member, capped.
Attempts == SubSeq(order, 1, IF Len(order) < MaxAttempts THEN Len(order) ELSE MaxAttempts)

KnownPositions == {p \in DOMAIN Attempts : ~Miss(Attempts[p])}
FirstKnown == {Attempts[p] : p \in First(KnownPositions)}

\* _cached_group_page(): its answer, as a set; a member with a deliberate
\* verdict answers nothing.
Peek == {m \in FirstKnown : Hit(m)}

\* is_hard_unavailable()
HardUnavailable ==
    order = <<>> \/ \E m \in FirstKnown : Deliberate(m)

Ended(verdict) == [NoWalk EXCEPT !.phase = "done", !.verdict = verdict]

\* The loop of the walk from position p on, up to its next await.  A member
\* without a provider object is passed over.
Stops(r, p) == {q \in DOMAIN walk[r].attempts :
                   q >= p /\ (~Miss(walk[r].attempts[q]) \/ walk[r].attempts[q] \in Registered)}

MeetsAt(r, q) ==
    LET m == walk[r].attempts[q]
    IN  IF Hit(m) THEN Ended(m)
        ELSE IF Deliberate(m) THEN Ended("deliberate")
        ELSE [walk[r] EXCEPT !.phase = "asking", !.pos = q, !.try = 1]

\* What becomes of the walk, as a set of one.
Proceed(r, p) ==
    IF Stops(r, p) = {} THEN {Ended("failed")}
    ELSE {MeetsAt(r, q) : q \in First(Stops(r, p))}

-----------------------------------------------------------------------------
MayLead(r) == inflight = {}

\* resolve_group_content() up to its await: a cold key answers None at once, a
\* walk in flight is joined, and otherwise a task is created.
Call(r) ==
    /\ req[r].phase = "idle"
    /\ IF order = <<>>
       THEN /\ req' = [req EXCEPT ![r].phase = "answered", ![r].answer = "none"]
            /\ UNCHANGED <<inflight, walk>>
       ELSE \/ /\ MayLead(r)
               /\ inflight' = {r}
               /\ walk' = [walk EXCEPT ![r] = [NoWalk EXCEPT !.phase = "created",
                                                             !.attempts = Attempts]]
               /\ req' = [req EXCEPT ![r].phase = "waiting"]
            \/ \E leader \in inflight :
               /\ ~MayLead(r)
               /\ req' = [req EXCEPT ![r].phase = "waiting", ![r].on = leader]
               /\ UNCHANGED <<inflight, walk>>
    /\ UNCHANGED <<caches, others>>

\* The task starts: any cached page of the group as it is NOW answers first.
WalkStarts(r) ==
    /\ walk[r].phase = "created"
    /\ \E w \in IF Peek # {} THEN {Ended(m) : m \in Peek} ELSE Proceed(r, 1) :
          walk' = [walk EXCEPT ![r] = w]
    /\ UNCHANGED <<caches, others, inflight, req>>

\* Mistake: a gated answer ends the walk but is not remembered.
Forgotten(m) == gated

GatedNow(m) == [gated EXCEPT ![m] = "gated"]

\* provider.content() answers with a page, or with one of a blocked country, or
\* that the title is gated; each ends the walk.
FetchAnswers(r, m) ==
    /\ walk[r].phase = "asking"
    /\ m = walk[r].attempts[walk[r].pos]
    /\ \/ /\ content' = content \cup {m}
          /\ walk' = [walk EXCEPT ![r] = Ended(m)]
          /\ UNCHANGED <<gated, blocked>>
       \/ /\ blocked' = blocked \cup {m}
          /\ walk' = [walk EXCEPT ![r] = Ended("deliberate")]
          /\ UNCHANGED <<content, gated>>
       \/ /\ gated' = GatedNow(m)
          /\ walk' = [walk EXCEPT ![r] = Ended("deliberate")]
          /\ UNCHANGED <<content, blocked>>
    /\ UNCHANGED <<others, inflight, req>>

\* Mistake: the attempts are counted anew after the second refusal.
RetryAlways(r) == {[walk[r] EXCEPT !.try = 3 - @]}

\* One retry after a pause, then the next member.
AfterRefusal(r) ==
    IF walk[r].try = 1 THEN {[walk[r] EXCEPT !.try = 2]}
    ELSE Proceed(r, walk[r].pos + 1)

\* provider.content() fails with a walkable verdict (lane fault, not_found, crash).
FetchRefused(r) ==
    /\ walk[r].phase = "asking"
    /\ \E w \in AfterRefusal(r) : walk' = [walk EXCEPT ![r] = w]
    /\ UNCHANGED <<caches, others, inflight, req>>

\* wait_for() gives up on a hurried request: the cancellation reaches the
\* awaited walk, whoever else awaits it.
GivesUp(r) ==
    /\ r \in Hurried
    /\ req[r].phase = "waiting"
    /\ ~req[r].late
    /\ req' = [req EXCEPT ![r].late = TRUE]
    /\ walk' = IF walk[req[r].on].phase \in Running
               THEN [walk EXCEPT ![req[r].on] = [NoWalk EXCEPT !.phase = "cancelling"]]
               ELSE walk
    /\ UNCHANGED <<caches, others, inflight>>

\* CancelledError surfaces in the task at its await.
CancelLands(r) ==
    /\ walk[r].phase = "cancelling"
    /\ walk' = [walk EXCEPT ![r] = Ended("cancelled")]
    /\ UNCHANGED <<caches, others, inflight, req>>

\* Mistake: the entry is dropped on the normal return only (no finally).
KeptOnCancel(r) ==
    IF r \in inflight /\ ~req[r].late THEN {} ELSE inflight

Popped(r) == IF r \in inflight THEN {} ELSE inflight

\* Mistake: a follower reads the caches again instead of the walk's verdict.
Reread(r) ==
    IF req[r].late THEN "cancelled"
    ELSE IF req[r].on = r THEN AnswerOf(walk[r].verdict)
    ELSE IF Peek = {} THEN "none" ELSE CHOOSE m \in Peek : TRUE

Outcome(r) ==
    IF req[r].late THEN "cancelled" ELSE AnswerOf(walk[req[r].on].verdict)

\* The await returns (or raises) in the request; the leader drops the entry.
Wakes(r) ==
    /\ req[r].phase = "waiting"
    /\ walk[req[r].on].phase = "done"
    /\ req' = [req EXCEPT ![r].phase = "answered", ![r].answer = Outcome(r)]
    /\ inflight' = Popped(r)
    /\ UNCHANGED <<caches, others, walk>>

-----------------------------------------------------------------------------
\* cached_provider_content(): a native content call that misses every cache.
NativeAsks(m) ==
    /\ m \in Registered \ native
    /\ Miss(m)
    /\ native' = native \cup {m}
    /\ UNCHANGED <<caches, order, sweep, inflight, walk, req>>

\* ... and its answer; a gated or failed one is the route's alone.
NativeEnds(m) ==
    /\ m \in native
    /\ native' = native \ {m}
    /\ \/ content' = content \cup {m} /\ UNCHANGED blocked
       \/ blocked' = blocked \cup {m} /\ UNCHANGED content
       \/ UNCHANGED <<content, blocked>>
    /\ UNCHANGED <<gated, order, sweep, inflight, walk, req>>

\* filter_gated_items(): a card without a verdict; a cached page is one.
SweepAsks(m) ==
    /\ m \in CanGate \ sweep
    /\ gated[m] = "unknown"
    /\ IF m \in content
       THEN gated' = [gated EXCEPT ![m] = "free"] /\ UNCHANGED sweep
       ELSE sweep' = sweep \cup {m} /\ UNCHANGED gated
    /\ UNCHANGED <<content, blocked, order, native, inflight, walk, req>>

SweepEnds(m) ==
    /\ m \in sweep
    /\ sweep' = sweep \ {m}
    /\ \/ gated' = [gated EXCEPT ![m] = "gated"] /\ UNCHANGED <<content, blocked>>
       \/ blocked' = blocked \cup {m} /\ UNCHANGED <<content, gated>>
       \/ /\ content' = content \cup {m}
          /\ gated' = [gated EXCEPT ![m] = "free"]
          /\ UNCHANGED blocked
       \/ UNCHANGED caches
    /\ UNCHANGED <<order, native, inflight, walk, req>>

\* An entry of one of the caches reaches its TTL.
Expires(m) ==
    /\ \/ m \in content /\ content' = content \ {m} /\ UNCHANGED <<gated, blocked>>
       \/ m \in blocked /\ blocked' = blocked \ {m} /\ UNCHANGED <<content, gated>>
       \/ /\ gated[m] # "unknown"
          /\ gated' = [gated EXCEPT ![m] = "unknown"]
          /\ UNCHANGED <<content, blocked>>
    /\ UNCHANGED <<others, inflight, walk, req>>

\* A home build or a search changes what the map holds for the key.
Regroup ==
    /\ order' \in Maps \cup {<<>>}
    /\ order' # order
    /\ UNCHANGED <<caches, native, sweep, inflight, walk, req>>

WalkStep(r) ==
    \/ WalkStarts(r)
    \/ \E m \in Members : FetchAnswers(r, m)
    \/ FetchRefused(r)
    \/ CancelLands(r)

OtherStep(m) ==
    NativeAsks(m) \/ NativeEnds(m) \/ SweepAsks(m) \/ SweepEnds(m) \/ Expires(m)

Next ==
    \/ \E r \in Requests : Call(r) \/ WalkStep(r) \/ GivesUp(r) \/ Wakes(r)
    \/ \E m \in Members : OtherStep(m)
    \/ Regroup

Spec == Init /\ [][Next]_vars

\* The loop runs what is ready, and every fetch ends: the shared HTTP client
\* has timeouts, and the pause before the retry is fixed.
FairSpec ==
    /\ Spec
    /\ \A r \in Requests : WF_vars(WalkStep(r)) /\ WF_vars(Wakes(r))

-----------------------------------------------------------------------------
\* Ticket #224: at most one walk of the group runs at a time, and it can be
\* joined - a storm of requests costs the upstreams one walk - through any
\* cancellation and any reorder of the group.  The in-flight entry never outlives
\* the request that will remove it: a dead one would answer every later request
\* with an old verdict.
EntryIsLed ==
    /\ \A r \in inflight : req[r].phase = "waiting" /\ req[r].on = r
    /\ \A r \in Requests : walk[r].phase \in Running => inflight = {r}

\* Requests that shared a walk got the same answer, unless one gave up itself,
\* whatever happened to the caches between their wake-ups.
AnswersAgree ==
    \A r, s \in Requests :
        /\ req[r].phase = "answered" /\ req[s].phase = "answered"
        /\ req[r].on = req[s].on /\ walk[req[r].on].phase # "none"
        /\ ~req[r].late /\ ~req[s].late
        => req[r].answer = req[s].answer

\* Ticket #224: concurrent requests of a group share one walk and its answer.
OneWalkOneAnswer == EntryIsLed /\ AnswersAgree

\* Ticket #139: a walk that ends on a deliberate verdict leaves it on record, so
\* an unchanged group is not asked again and is not answered with a degraded
\* card - unless a page landed meanwhile for a member before it.
Recorded(r) ==
    /\ walk[r].phase = "asking"
    /\ walk[r]'.phase = "done"
    /\ walk[r]'.verdict = "deliberate"
    /\ Attempts' = walk[r].attempts
    => HardUnavailable' \/ Peek' # {}

DeliberateOnRecord == [][\A r \in Requests : Recorded(r)]_vars

\* Every request that waits is answered.
EveryRequestAnswered ==
    \A r \in Requests : req[r].phase = "waiting" ~> req[r].phase = "answered"

-----------------------------------------------------------------------------
\* The docstring of resolve_group_content: the waiters share the verdict,
\* success or failure; only a request that gave up is cut off.
OnlyItsOwnCancellation ==
    \A r \in Requests : req[r].answer = "cancelled" => req[r].late
=============================================================================
