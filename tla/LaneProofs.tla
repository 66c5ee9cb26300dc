------------------------------ MODULE LaneProofs ------------------------------
(* The lanes to the upstreams, each proved for itself.                         *)
(* The browser session, for any requests, drivers and window: whoever acts on  *)
(* the browser holds the lock, and from that what runs stays the session's own *)
(* until close() is over. The scraping lanes, for any titles: what a call      *)
(* reports during an outage is measured against the same call without it,      *)
(* check by check; and what a press plays against the row it was listed as,    *)
(* lane by lane, from what the playlist operators pick out.                    *)
EXTENDS UakinoSession, Scrapers, SequenceTheorems, FiniteSetTheorems, WellFoundedInduction,
    TLAPS

\* Where a task is when it acts on the browser.
Inside == Starting \cup {"eval", "reboot"}

Exclusive == \A t \in Tasks : at[t] \in Inside => Holds(t)

\* A session that is being started anew holds nothing yet.
StartsFromNothing == \A t \in Tasks : at[t] = "factory" => sess = Nothing

\* What runs: the session's own browser until close() is over, none of those
\* that ran when it began from then on, and beside the session's no more than one.
BrowsersHeld ==
    /\ life # "closed" => procs \subseteq {sess.driver}
    /\ life \in {"driver", "closed"} => procs \cap old = {}
    /\ life = "closed" => OneStrayAtMost

\* The one warm: until it is over nobody else has been inside, ...
WarmComesFirst ==
    at[Beat] \in {"warm"} \cup Starting =>
        /\ Holds(Beat) /\ ~ready
        /\ marker = "none"

\* ... and once it succeeded the session is not started again.
WarmHolds ==
    at[Beat] \in {"sleep", "queued", "eval", "reboot"} =>
        /\ sess.page # "none"
        /\ \A t \in Tasks : at[t] \notin Starting

OnlyBeatWarms == \A t \in Tasks : at[t] = "warm" => t = Beat
ShutdownEndsBeat == life # "serving" => at[Beat] = "ended"
MarkedIsOver == marker # "none" => at[Beat] = "ended"

-----------------------------------------------------------------------------
\* The window of outcomes stays a window.
LEMMA RecordFacts ==
    ASSUME TypeOK, NEW ok \in BOOLEAN, Record(ok)
    PROVE  samples' \in Seq(BOOLEAN) /\ Len(samples') <= Window
<1> DEFINE s == Append(samples, ok)
<1>1. s \in Seq(BOOLEAN) /\ Len(s) = Len(samples) + 1 /\ s # <<>>
  BY DEF TypeOK
<1>2. Window \in Nat /\ Len(samples) <= Window /\ Len(samples) \in Nat
  BY NamesAssumption DEF TypeOK
<1>3. Tail(s) \in Seq(BOOLEAN) /\ Len(Tail(s)) = Len(s) - 1
  BY <1>1
<1> HIDE DEF s
<1>4. samples' = IF Len(s) > Window THEN Tail(s) ELSE s
  BY DEF Record, Newest, s
<1>5. CASE Len(s) > Window
  BY <1>1, <1>2, <1>3, <1>4, <1>5
<1>6. CASE ~(Len(s) > Window)
  <2>1. samples' = s
    BY <1>4, <1>6
  <2> QED BY <1>1, <1>2, <1>6, <2>1
<1> QED BY <1>5, <1>6

\* A task leaves the queue, and unless it held the lock the holder stays.
LEMMA WithoutFacts ==
    ASSUME NEW q \in Seq(Tasks), NEW t \in Tasks
    PROVE  /\ Without(q, t) \in Seq(Tasks)
           /\ q # <<>> /\ Head(q) # t => Without(q, t) # <<>> /\ Head(Without(q, t)) = Head(q)
<1> DEFINE here == {n \in DOMAIN q : q[n] = t}
           p == CHOOSE n \in here : TRUE
<1>1. CASE here = {}
  BY <1>1 DEF Without
<1>2. CASE here # {}
  <2>1. p \in here
    BY <1>2
  <2>2. p \in 1..Len(q) /\ q[p] = t /\ Len(q) \in Nat
    BY <2>1
  <2>3. Without(q, t) = SubSeq(q, 1, p - 1) \o SubSeq(q, p + 1, Len(q))
    BY <1>2 DEF Without, RemoveAt
  <2> HIDE DEF here, p
  <2> DEFINE a == SubSeq(q, 1, p - 1)
             b == SubSeq(q, p + 1, Len(q))
  <2>4. a \in Seq(Tasks) /\ Len(a) = p - 1 /\ \A i \in 1..(p - 1) : a[i] = q[i]
    BY <2>2
  <2>5. b \in Seq(Tasks)
    BY <2>2, SubSeqProperties
  <2> HIDE DEF a, b
  <2>6. a \o b \in Seq(Tasks) /\ Len(a \o b) = Len(a) + Len(b)
    BY <2>4, <2>5, ConcatProperties
  <2>7. ASSUME q # <<>>, Head(q) # t
        PROVE  a \o b # <<>> /\ Head(a \o b) = Head(q)
    <3>1. p # 1
      BY <2>2, <2>7
    <3>2. Len(a) >= 1 /\ a[1] = q[1]
      BY <2>2, <2>4, <3>1
    <3>3. Len(a \o b) >= 1 /\ (a \o b)[1] = a[1]
      BY <2>4, <2>5, <2>6, <3>2, ConcatProperties
    <3> DEFINE c == a \o b
    <3>4. c \in Seq(Tasks) /\ Len(c) >= 1 /\ c[1] = q[1]
      BY <2>6, <3>2, <3>3
    <3> HIDE DEF c
    <3>5. c # <<>> /\ Head(c) = c[1] /\ Head(q) = q[1]
      BY <2>7, <3>4
    <3> QED BY <3>4, <3>5 DEF c
  <2> QED BY <2>3, <2>6, <2>7 DEF a, b
<1> QED BY <1>1, <1>2

-----------------------------------------------------------------------------
\* Joining the queue, leaving the lock and raising keep the types.
LEMMA JoinTypes ==
    ASSUME TypeOK, NEW t \in Tasks, line' = Append(line, t)
    PROVE  line' \in Seq(Tasks)
BY DEF TypeOK

LEMMA AdvanceTypes ==
    ASSUME TypeOK, NEW t, NEW p \in Points, Advance(t, p)
    PROVE  at' \in [Tasks -> Points]
BY DEF TypeOK, Advance

LEMMA LeaveTypes ==
    ASSUME TypeOK, NEW t \in Tasks, Holds(t), NEW p \in Points, Leave(t, p)
    PROVE  line' \in Seq(Tasks) /\ at' \in [Tasks -> Points] /\ tries' \in [Tasks -> {1, 2}]
<1>1. line' \in Seq(Tasks)
  BY DEF TypeOK, Leave, Holds
<1>2. at' \in [Tasks -> Points]
  BY AdvanceTypes DEF Leave
<1>3. tries' \in [Tasks -> {1, 2}]
  BY DEF TypeOK, Leave
<1> QED BY <1>1, <1>2, <1>3

LEMMA RaiseTypes ==
    ASSUME TypeOK, NEW t \in Tasks, Holds(t), NEW e \in BOOLEAN, Raise(t, e)
    PROVE  /\ line' \in Seq(Tasks) /\ at' \in [Tasks -> Points] /\ tries' \in [Tasks -> {1, 2}]
           /\ marker' \in {"none", "warm_failed", "warm_timeout"}
           /\ samples' \in Seq(BOOLEAN) /\ Len(samples') <= Window
<1> DEFINE warming == t = Beat /\ at[t] \in Starting
           p == IF t # Beat THEN "idle" ELSE IF e /\ ~warming THEN "sleep" ELSE "ended"
<1>1. Leave(t, p) /\ p \in Points
  BY DEF Raise, Points
<1>2. marker' \in {"none", "warm_failed", "warm_timeout"}
  BY DEF Raise, TypeOK
<1>3. Record(FALSE) \/ samples' = samples
  BY DEF Raise
<1> HIDE DEF p
<1>4. samples' \in Seq(BOOLEAN) /\ Len(samples') <= Window
  BY <1>3, RecordFacts DEF TypeOK
<1> QED BY <1>1, <1>2, <1>4, LeaveTypes

LEMMA AnsweredTypes ==
    ASSUME TypeOK, NEW t \in Tasks, Holds(t), NEW ok \in BOOLEAN, Answered(t, ok)
    PROVE  /\ line' \in Seq(Tasks) /\ at' \in [Tasks -> Points] /\ tries' \in [Tasks -> {1, 2}]
           /\ samples' \in Seq(BOOLEAN) /\ Len(samples') <= Window
<1> DEFINE p == IF t = Beat THEN "sleep" ELSE "idle"
<1>1. Leave(t, p) /\ p \in Points
  BY DEF Answered, Points
<1>2. Record(ok) \/ samples' = samples
  BY DEF Answered
<1> HIDE DEF p
<1>3. samples' \in Seq(BOOLEAN) /\ Len(samples') <= Window
  BY <1>2, RecordFacts DEF TypeOK
<1> QED BY <1>1, <1>3, LeaveTypes

-----------------------------------------------------------------------------
LEMMA TypeInit == Init => TypeOK
<1> SUFFICES ASSUME Init PROVE TypeOK
  OBVIOUS
<1>1. Nothing \in [driver: Drivers \cup {0}, page: Pages, by: Tasks \cup {"none"}]
  BY DEF Nothing, Pages
<1>2. line \in Seq(Tasks)
  BY DEF Init, Tasks
<1>3. samples \in Seq(BOOLEAN) /\ Len(samples) <= Window
  BY NamesAssumption DEF Init
<1> QED BY <1>1, <1>2, <1>3 DEF Init, TypeOK, Points, Starting

\* A step of a task.
LEMMA TypeTask ==
    ASSUME TypeOK, NEW t \in Tasks, Step(t)
    PROVE  TypeOK'
<1>1. Nothing \in [driver: Drivers \cup {0}, page: Pages, by: Tasks \cup {"none"}]
  BY DEF Nothing, Pages
<1>2. CASE Enter(t)
  <2>1. at' \in [Tasks -> Points]
    BY <1>2, AdvanceTypes DEF Enter, Points, Starting
  <2> QED BY <1>2, <2>1 DEF TypeOK, Enter, Unlocked, Outside
<1>3. CASE Clear(t)
  <2>1. at' \in [Tasks -> Points]
    BY <1>3, AdvanceTypes DEF Clear, Points, Starting
  <2> QED BY <1>1, <1>3, <2>1 DEF TypeOK, Clear, Outside
<1>4. CASE Factory(t)
  <2>1. CASE \E d \in Drivers \ (procs \cup old) :
                 /\ procs' = procs \cup {d} /\ pw' = d
                 /\ sess' = [sess EXCEPT !.driver = d, !.by = t]
                 /\ Advance(t, "launch")
                 /\ UNCHANGED <<line, tries, samples, marker>>
    <3>1. at' \in [Tasks -> Points]
      BY <2>1, AdvanceTypes DEF Points, Starting
    <3> QED BY <1>4, <2>1, <3>1 DEF TypeOK, Factory, Outside
  <2>2. CASE Raise(t, TRUE) /\ UNCHANGED <<sess, procs, pw>>
    <3>1. Holds(t)
      BY <1>4 DEF Factory
    <3> QED BY <1>4, <2>2, <3>1, RaiseTypes DEF TypeOK, Factory, Outside
  <2> QED BY <1>4, <2>1, <2>2 DEF Factory
<1>5. CASE Launch(t)
  <2>1. CASE /\ sess' = [sess EXCEPT !.page = "blank"]
             /\ Advance(t, "boot")
             /\ UNCHANGED <<line, tries, samples, marker>>
    <3>1. at' \in [Tasks -> Points]
      BY <2>1, AdvanceTypes DEF Points, Starting
    <3> QED BY <1>5, <2>1, <3>1 DEF TypeOK, Launch, Outside, Pages
  <2>2. CASE Raise(t, FALSE) /\ UNCHANGED sess
    <3>1. Holds(t)
      BY <1>5 DEF Launch
    <3> QED BY <1>5, <2>2, <3>1, RaiseTypes DEF TypeOK, Launch, Outside
  <2> QED BY <1>5, <2>1, <2>2 DEF Launch
<1>6. CASE Bootstrap(t)
  <2>0. Holds(t)
    BY <1>6 DEF Bootstrap
  <2>1. CASE Loaded(t)
    <3>1. at' \in [Tasks -> Points] /\ line' \in Seq(Tasks) /\ tries' \in [Tasks -> {1, 2}]
      BY <2>0, <2>1, AdvanceTypes, LeaveTypes DEF Loaded, Points, TypeOK
    <3> QED BY <1>6, <2>1, <3>1 DEF TypeOK, Bootstrap, Loaded, Outside, Pages
  <2>2. CASE /\ \E p \in {"site", "lost", sess.page} : sess' = [sess EXCEPT !.page = p]
             /\ Raise(t, TRUE) /\ UNCHANGED ready
    BY <1>6, <2>0, <2>2, RaiseTypes DEF TypeOK, Bootstrap, Outside, Pages
  <2>3. CASE (\E e \in BOOLEAN : Raise(t, e)) /\ UNCHANGED <<sess, ready>>
    BY <1>6, <2>0, <2>3, RaiseTypes DEF TypeOK, Bootstrap, Outside
  <2> QED BY <1>6, <2>1, <2>2, <2>3 DEF Bootstrap
<1>7. CASE Evaluate(t)
  <2> DEFINE Again == /\ Advance(t, "reboot") /\ tries' = [tries EXCEPT ![t] = 2]
                      /\ UNCHANGED <<line, samples, marker>>
             Over  == (\E ok \in BOOLEAN : Answered(t, ok)) /\ UNCHANGED marker
  <2>0. Holds(t)
    BY <1>7 DEF Evaluate
  <2>1. CASE (\E e \in BOOLEAN : Raise(t, e))
    BY <1>7, <2>0, <2>1, RaiseTypes DEF TypeOK, Evaluate, Outside
  <2>2. CASE Again
    <3>1. at' \in [Tasks -> Points]
      BY <2>2, AdvanceTypes DEF Points
    <3> QED BY <1>7, <2>2, <3>1 DEF TypeOK, Evaluate, Outside
  <2>3. CASE Over
    BY <1>7, <2>0, <2>3, AnsweredTypes DEF TypeOK, Evaluate, Outside
  <2>4. Raise(t, FALSE) \/ Raise(t, TRUE) \/ Again \/ Over
    BY <1>7 DEF Evaluate
  <2> QED BY <2>1, <2>2, <2>3, <2>4
<1> QED BY <1>2, <1>3, <1>4, <1>5, <1>6, <1>7 DEF Step

\* Every other step.
LEMMA TypeStep ==
    TypeOK /\ [Next]_vars => TypeOK'
<1> SUFFICES ASSUME TypeOK, [Next]_vars PROVE TypeOK'
  OBVIOUS
<1>0. Beat \in Tasks /\ Requests \subseteq Tasks
  BY DEF Tasks
<1>1. CASE \E t \in Tasks : Step(t)
  BY <1>1, TypeTask
<1>2. ASSUME NEW r \in Requests, Ask(r)
      PROVE  TypeOK'
  <2>1. at' \in [Tasks -> Points]
    BY <1>2, AdvanceTypes DEF Ask, Points
  <2>2. line' \in Seq(Tasks)
    BY <1>0, <1>2, JoinTypes DEF Ask, TypeOK
  <2> QED BY <1>2, <2>1, <2>2 DEF TypeOK, Ask, Unlocked, Outside
<1>3. ASSUME NEW r \in Requests, FanOut(r) \/ GateOpens(r)
      PROVE  TypeOK'
  <2>1. at' \in [Tasks -> Points]
    BY <1>3, AdvanceTypes DEF FanOut, GateOpens, Points
  <2>2. line' \in Seq(Tasks)
    BY <1>0, <1>3, JoinTypes DEF FanOut, GateOpens
  <2> QED BY <1>3, <2>1, <2>2 DEF TypeOK, FanOut, GateOpens, Unlocked, Outside
<1>4. ASSUME NEW r \in Requests, GateTimesOut(r)
      PROVE  TypeOK'
  <2>1. at' \in [Tasks -> Points]
    BY <1>4, AdvanceTypes DEF GateTimesOut, Points
  <2> QED BY <1>4, <2>1 DEF TypeOK, GateTimesOut, Unlocked, Outside
<1>5. CASE Tick
  <2>1. at' \in [Tasks -> Points]
    BY <1>5, AdvanceTypes DEF Tick, Points
  <2>2. line' \in Seq(Tasks)
    BY <1>0, <1>5, JoinTypes DEF Tick
  <2> QED BY <1>5, <2>1, <2>2 DEF TypeOK, Tick, Unlocked, Outside
<1>6. CASE WarmTimesOut
  <2>1. Nothing \in [driver: Drivers \cup {0}, page: Pages, by: Tasks \cup {"none"}]
    BY DEF Nothing, Pages
  <2>2. line' \in Seq(Tasks) /\ at' \in [Tasks -> Points] /\ tries' \in [Tasks -> {1, 2}]
    BY <1>0, <1>6, LeaveTypes DEF WarmTimesOut, Points
  <2> QED BY <1>6, <2>1, <2>2 DEF TypeOK, WarmTimesOut, Outside
<1>7. CASE SiteChanges
  BY <1>7 DEF TypeOK, SiteChanges
<1>8. CASE PageDies
  BY <1>8 DEF TypeOK, PageDies, Outside, Pages
<1>9. CASE Cancel
  <2>1. at' \in [Tasks -> Points]
    BY <1>9, AdvanceTypes DEF Cancel, Points
  <2>2. line' \in Seq(Tasks)
    BY <1>0, <1>9, WithoutFacts DEF Cancel, TypeOK
  <2>3. pw' \in Drivers \cup {0}
    BY <1>9 DEF Cancel, TypeOK
  <2> QED BY <1>9, <2>1, <2>2, <2>3 DEF TypeOK, Cancel
<1>10. CASE Close
  BY <1>10 DEF TypeOK, Close
<1>11. CASE CloseBrowser
  BY <1>11 DEF TypeOK, CloseBrowser, Pages
<1>12. CASE CloseDriver
  BY <1>12 DEF TypeOK, CloseDriver, Nothing, Pages
<1>13. CASE UNCHANGED vars
  BY <1>13 DEF TypeOK, vars
<1> QED BY <1>1, <1>2, <1>3, <1>4, <1>5, <1>6, <1>7, <1>8, <1>9, <1>10, <1>11, <1>12, <1>13 DEF Next

\* The session's state has its types for any requests, drivers and window.
THEOREM TypeCorrect == Spec => []TypeOK
<1>1. TypeOK /\ [Next]_vars => TypeOK'
  BY TypeStep
<1> QED BY <1>1, TypeInit, PTL DEF Spec

-----------------------------------------------------------------------------
(* The lock.                                                                   *)

\* Who joins the queue does not come before its head.
LEMMA JoinHolds ==
    ASSUME TypeOK, NEW t \in Tasks, line' = Append(line, t)
    PROVE  \A u \in Tasks : Holds(u) => Holds(u)'
BY DEF TypeOK, Holds

\* One task holds the lock.
LEMMA OneHolds ==
    ASSUME NEW t, NEW u, Holds(t), Holds(u)
    PROVE  t = u
BY DEF Holds

\* Whoever leaves leaves nobody inside.
LEMMA LeaveEmpties ==
    ASSUME TypeOK, Exclusive, NEW t \in Tasks, Holds(t), NEW p \in Points \ Inside, Leave(t, p)
    PROVE  \A u \in Tasks : at'[u] \notin Inside
BY OneHolds DEF TypeOK, Exclusive, Leave, Advance

LEMMA RaiseEmpties ==
    ASSUME TypeOK, Exclusive, NEW t \in Tasks, Holds(t), NEW e \in BOOLEAN, Raise(t, e)
    PROVE  \A u \in Tasks : at'[u] \notin Inside
<1> DEFINE p == IF t # Beat THEN "idle"
                ELSE IF e /\ ~(t = Beat /\ at[t] \in Starting) THEN "sleep" ELSE "ended"
<1>1. Leave(t, p) /\ p \in Points \ Inside
  BY DEF Raise, Points, Inside, Starting
<1> HIDE DEF p
<1> QED BY <1>1, LeaveEmpties

LEMMA AnsweredEmpties ==
    ASSUME TypeOK, Exclusive, NEW t \in Tasks, Holds(t), NEW ok \in BOOLEAN, Answered(t, ok)
    PROVE  \A u \in Tasks : at'[u] \notin Inside
<1> DEFINE p == IF t = Beat THEN "sleep" ELSE "idle"
<1>1. Leave(t, p) /\ p \in Points \ Inside
  BY DEF Answered, Points, Inside, Starting
<1> HIDE DEF p
<1> QED BY <1>1, LeaveEmpties

-----------------------------------------------------------------------------
(* The invariant, action by action.                                            *)

\* What the steps keep besides the types.
Held ==
    /\ Exclusive /\ StartsFromNothing /\ BrowsersHeld
    /\ WarmComesFirst /\ WarmHolds
    /\ OnlyBeatWarms /\ ShutdownEndsBeat /\ MarkedIsOver
    /\ ReadyWasLoaded /\ TimedOutWarmReleases

\* With nobody inside only the task that left and what is held matter.
LEMMA EmptyHeld ==
    ASSUME \A u \in Tasks : at'[u] \notin Inside, \A u \in Tasks : at'[u] # "warm",
           BrowsersHeld', ShutdownEndsBeat', MarkedIsOver', TimedOutWarmReleases',
           at'[Beat] \in {"sleep", "queued"} => sess'.page # "none",
           ready' /\ life' = "serving" => sess'.page \notin {"none", "blank"}
    PROVE  Held'
<1>1. Beat \in Tasks
  BY DEF Tasks
<1>2. \A u \in Tasks : at'[u] \notin Starting /\ at'[u] \notin {"factory", "eval", "reboot"}
  BY DEF Inside, Starting
<1>3. Exclusive' /\ StartsFromNothing' /\ WarmComesFirst' /\ WarmHolds' /\ ReadyWasLoaded'
             /\ OnlyBeatWarms'
  BY <1>1, <1>2 DEF Exclusive, StartsFromNothing, WarmComesFirst, WarmHolds, ReadyWasLoaded, OnlyBeatWarms
<1> QED BY <1>3 DEF Held

\* Coming to the queue, to the gate or back from it disturbs nobody.
LEMMA QueueHeld ==
    ASSUME TypeOK, Held, NEW t \in Tasks, NEW p \in {"idle", "gate", "queued"}, Advance(t, p),
           t = Beat => at[Beat] = "sleep" /\ p = "queued",
           line' = line \/ line' = Append(line, t), Unlocked
    PROVE  Held'
<1>1. \A u \in Tasks : Holds(u) => Holds(u)'
  <2>1. CASE line' = line
    BY <2>1 DEF Holds
  <2>2. CASE line' = Append(line, t)
    BY <2>2, JoinHolds
  <2> QED BY <2>1, <2>2
<1>2. \A u \in Tasks : at'[u] = at[u] \/ (u = t /\ at'[u] = p)
  BY DEF TypeOK, Advance
<1>3. p \notin Inside /\ p \notin Starting /\ p # "factory" /\ p # "ended" /\ p # "warm"
  BY DEF Inside, Starting
<1>4. Beat \in Tasks
  BY DEF Tasks
<1>5. at'[Beat] = at[Beat] \/ (at[Beat] = "sleep" /\ at'[Beat] = "queued")
  <2>1. CASE t = Beat
    BY <1>2, <1>4, <2>1
  <2>2. CASE t # Beat
    BY <1>2, <1>4, <2>2
  <2> QED BY <2>1, <2>2
<1>6. /\ sess' = sess /\ procs' = procs /\ ready' = ready /\ marker' = marker
      /\ life' = life /\ old' = old
  BY DEF Unlocked, Outside
<1>7. Exclusive' /\ StartsFromNothing'
  BY <1>1, <1>2, <1>3, <1>6 DEF Held, Exclusive, StartsFromNothing
<1>8. BrowsersHeld'
  BY <1>6 DEF Held, BrowsersHeld, OneStrayAtMost
<1>9. WarmComesFirst'
  BY <1>1, <1>4, <1>5, <1>6 DEF Held, WarmComesFirst, Starting
<1>10. WarmHolds'
  BY <1>2, <1>3, <1>5, <1>6 DEF Held, WarmHolds
<1>13. OnlyBeatWarms'
  BY <1>2, <1>3 DEF Held, OnlyBeatWarms
<1>11. ShutdownEndsBeat' /\ MarkedIsOver' /\ TimedOutWarmReleases'
  BY <1>5, <1>6 DEF Held, ShutdownEndsBeat, MarkedIsOver, TimedOutWarmReleases
<1>12. ReadyWasLoaded'
  BY <1>2, <1>3, <1>6 DEF Held, ReadyWasLoaded
<1> QED BY <1>7, <1>8, <1>9, <1>10, <1>11, <1>12, <1>13 DEF Held

\* A task inside moves on: the others are outside, before and after.
LEMMA InsideMoves ==
    ASSUME TypeOK, Held, NEW t \in Tasks, Holds(t), NEW p \in Points, Advance(t, p), line' = line
    PROVE  /\ Holds(t)' /\ at'[t] = p
           /\ \A u \in Tasks \ {t} : at'[u] = at[u] /\ at'[u] \notin Inside
           /\ Exclusive'
<1>1. at'[t] = p /\ \A u \in Tasks \ {t} : at'[u] = at[u]
  BY DEF TypeOK, Advance
<1>2. \A u \in Tasks \ {t} : at[u] \notin Inside
  BY OneHolds DEF Held, Exclusive
<1>3. Holds(t)'
  BY DEF Holds
<1> QED BY <1>1, <1>2, <1>3 DEF Exclusive

LEMMA EnterHeld ==
    ASSUME TypeOK, Held, NEW t \in Tasks, Enter(t)
    PROVE  Held'
<1> DEFINE p == IF at[t] = "warm" \/ sess.page = "none" THEN "clear" ELSE "eval"
<1>0. p \in {"clear", "eval"} /\ p \in Points
  BY DEF Points, Starting
<1>1. /\ Holds(t)' /\ at'[t] = p
      /\ \A u \in Tasks \ {t} : at'[u] = at[u] /\ at'[u] \notin Inside
      /\ Exclusive'
  BY <1>0, InsideMoves DEF Enter
<1>2. /\ sess' = sess /\ procs' = procs /\ ready' = ready /\ marker' = marker
      /\ life' = life /\ old' = old
  BY DEF Enter, Unlocked, Outside
<1>3. Beat \in Tasks
  BY DEF Tasks
<1>4. at[t] = "warm" => t = Beat
  BY DEF Held, OnlyBeatWarms
<1>5. at[t] \in {"warm", "queued"} /\ (t # Beat => at[Beat] # "warm")
  BY <1>3, OneHolds DEF Enter, Held, WarmComesFirst
<1>6. \A u \in Tasks \ {t} : at'[u] \notin Starting \cup {"factory", "eval", "reboot"}
  BY <1>1 DEF Inside, Starting
<1>7. StartsFromNothing' /\ BrowsersHeld' /\ OnlyBeatWarms'
  BY <1>0, <1>1, <1>2, <1>6 DEF Held, StartsFromNothing, BrowsersHeld, OneStrayAtMost, OnlyBeatWarms
<1>8. p = "eval" => at[t] = "queued" /\ sess.page # "none"
  BY <1>5
<1>9. p = "clear" => at[t] = "warm" \/ sess.page = "none"
  OBVIOUS
<1> HIDE DEF p
<1>10. WarmComesFirst'
  <2>1. CASE t = Beat
    <3>1. p = "clear" => at[Beat] = "warm"
      BY <1>5, <1>9, <2>1 DEF Held, WarmHolds
    <3> QED BY <1>0, <1>1, <1>2, <2>1, <3>1 DEF Held, WarmComesFirst, Starting
  <2>2. CASE t # Beat
    BY <1>1, <1>3, <1>5, <1>6, <2>2 DEF WarmComesFirst
  <2> QED BY <2>1, <2>2
<1>11. WarmHolds'
  <2>1. CASE t = Beat
    <3>1. p = "eval" => sess'.page # "none" /\ at'[t] \notin Starting
      BY <1>1, <1>2, <1>8 DEF Starting
    <3> QED BY <1>0, <1>1, <1>6, <2>1, <3>1 DEF WarmHolds
  <2>2. CASE t # Beat
    <3>1. at'[Beat] = at[Beat]
      BY <1>1, <1>3, <2>2
    <3>2. at[Beat] \in {"sleep", "queued", "eval", "reboot"} => p = "eval"
      BY <1>0, <1>4, <1>9, <2>2 DEF Held, WarmHolds
    <3>3. p = "eval" => at'[t] \notin Starting
      BY <1>1 DEF Starting
    <3> QED BY <1>2, <1>6, <3>1, <3>2, <3>3 DEF Held, WarmHolds
  <2> QED BY <2>1, <2>2
<1>12. ShutdownEndsBeat' /\ MarkedIsOver' /\ TimedOutWarmReleases'
  BY <1>1, <1>2, <1>3, <1>5 DEF Held, ShutdownEndsBeat, MarkedIsOver, TimedOutWarmReleases
<1>13. ReadyWasLoaded'
  BY <1>0, <1>1, <1>2, <1>6 DEF Held, ReadyWasLoaded, Starting
<1> QED BY <1>1, <1>7, <1>10, <1>11, <1>12, <1>13 DEF Held

\* A start keeps the warm first and the warmed session alone.
LEMMA StartHeld ==
    ASSUME TypeOK, Held, NEW t \in Tasks, Holds(t), at[t] \in Starting,
           NEW p \in Starting, Advance(t, p), line' = line,
           marker' = marker, life' = life, ~(ready' /\ life' = "serving")
    PROVE  /\ Exclusive' /\ WarmComesFirst' /\ WarmHolds' /\ ReadyWasLoaded'
           /\ OnlyBeatWarms' /\ ShutdownEndsBeat' /\ MarkedIsOver'
           /\ t = Beat => marker = "none"
           /\ \A u \in Tasks \ {t} : at'[u] \notin Inside /\ at'[u] \notin Starting
<1>0. Beat \in Tasks /\ p \in Points
  BY DEF Tasks, Points
<1>1. /\ Holds(t)' /\ at'[t] = p
      /\ \A u \in Tasks \ {t} : at'[u] = at[u] /\ at'[u] \notin Inside
      /\ Exclusive'
  BY <1>0, InsideMoves
<1>2. \A u \in Tasks \ {t} : at'[u] \notin Starting
  BY <1>1 DEF Inside
<1>3. t = Beat => Holds(Beat) /\ marker = "none" /\ life = "serving"
  BY DEF Held, WarmComesFirst, ShutdownEndsBeat, Starting
<1>4. p \notin {"warm", "sleep", "queued", "eval", "reboot"}
  BY DEF Starting
<1>5. WarmComesFirst' /\ WarmHolds'
  <2>1. CASE t = Beat
    BY <1>1, <1>3, <1>4, <2>1 DEF WarmComesFirst, WarmHolds
  <2>2. CASE t # Beat
    <3>1. at'[Beat] = at[Beat] /\ at[Beat] \notin Inside /\ at[Beat] \notin Starting
      BY <1>0, <1>1, <1>2, <2>2
    <3>2. at[Beat] # "warm"
      BY <2>2, OneHolds DEF Held, WarmComesFirst
    <3>3. at[Beat] \notin {"sleep", "queued", "eval", "reboot"}
      BY DEF Held, WarmHolds
    <3> QED BY <3>1, <3>2, <3>3 DEF WarmComesFirst, WarmHolds
  <2> QED BY <2>1, <2>2
<1>6. ReadyWasLoaded'
  BY DEF ReadyWasLoaded
<1>7. OnlyBeatWarms'
  BY <1>1, <1>4 DEF Held, OnlyBeatWarms
<1>8. ShutdownEndsBeat' /\ MarkedIsOver'
  <2>1. CASE t = Beat
    BY <1>3, <2>1 DEF ShutdownEndsBeat, MarkedIsOver
  <2>2. CASE t # Beat
    BY <1>0, <1>1, <2>2 DEF Held, ShutdownEndsBeat, MarkedIsOver
  <2> QED BY <2>1, <2>2
<1> QED BY <1>1, <1>2, <1>3, <1>5, <1>6, <1>7, <1>8

LEMMA ClearHeld ==
    ASSUME TypeOK, Held, NEW t \in Tasks, Clear(t)
    PROVE  Held'
<1> USE DEF Clear
<1>1. "factory" \in Starting /\ "clear" \in Starting
  BY DEF Starting
<1>2. /\ Exclusive' /\ WarmComesFirst' /\ WarmHolds' /\ ReadyWasLoaded'
      /\ OnlyBeatWarms' /\ ShutdownEndsBeat' /\ MarkedIsOver'
  BY <1>1, StartHeld DEF Outside
<1>3. StartsFromNothing'
  BY DEF StartsFromNothing
<1>4. BrowsersHeld'
  BY DEF BrowsersHeld, OneStrayAtMost, Held, Nothing, Outside
<1>5. TimedOutWarmReleases'
  BY DEF TimedOutWarmReleases, Nothing, Beat
<1> QED BY <1>2, <1>3, <1>4, <1>5 DEF Held

\* Raising disturbs the marker alone.
LEMMA RaiseHeld ==
    ASSUME TypeOK, Held, NEW t \in Tasks, Holds(t), at[t] \in Inside, NEW e \in BOOLEAN, Raise(t, e),
           sess'.driver = sess.driver, sess'.by = sess.by,
           sess.page # "none" => sess'.page # "none",
           ready' => ready /\ (sess.page # "blank" => sess'.page # "blank"),
           procs' = procs, life' = life, old' = old
    PROVE  Held'
<1> DEFINE p == IF t # Beat THEN "idle"
                ELSE IF e /\ ~(t = Beat /\ at[t] \in Starting) THEN "sleep" ELSE "ended"
<1>0. Beat \in Tasks /\ \A u \in Tasks : at'[u] \notin Inside
  BY RaiseEmpties DEF Tasks, Held
<1>1. at' = [at EXCEPT ![t] = p] /\ (marker' = marker \/ (marker' = "warm_failed" /\ p = "ended" /\ t = Beat))
  BY DEF Raise, Leave, Advance
<1>2. \A u \in Tasks : at'[u] = at[u] \/ (u = t /\ at'[u] = p)
  BY <1>1 DEF TypeOK
<1>3. p # "warm" /\ (p # "ended" => t # Beat \/ at[t] \notin Starting) /\ (t = Beat => p \in {"sleep", "ended"})
  OBVIOUS
<1>4. at'[t] = p
  BY <1>1 DEF TypeOK
<1> HIDE DEF p
<1>5. \A u \in Tasks : at'[u] # "warm"
  <2>1. at[Beat] = "warm" => Holds(Beat)
    BY DEF Held, WarmComesFirst
  <2>2. at[t] # "warm"
    BY DEF Inside, Starting
  <2>3. at[Beat] # "warm"
    BY <2>1, <2>2, OneHolds
  <2> QED BY <1>2, <1>3, <2>3 DEF Held, OnlyBeatWarms
<1>6. BrowsersHeld'
  BY DEF Held, BrowsersHeld, OneStrayAtMost
<1>7. t = Beat => life = "serving" /\ marker = "none"
  BY DEF Held, ShutdownEndsBeat, MarkedIsOver, Inside, Starting
<1>8. ShutdownEndsBeat' /\ MarkedIsOver' /\ TimedOutWarmReleases'
  <2>1. CASE t = Beat
    BY <1>1, <1>4, <1>7, <2>1 DEF ShutdownEndsBeat, MarkedIsOver, TimedOutWarmReleases
  <2>2. CASE t # Beat
    BY <1>0, <1>1, <1>2, <2>2 DEF Held, ShutdownEndsBeat, MarkedIsOver, TimedOutWarmReleases
  <2> QED BY <2>1, <2>2
<1>9. at'[Beat] \in {"sleep", "queued"} => sess'.page # "none"
  <2>1. CASE t = Beat
    <3>1. p = "sleep" => at[Beat] \in {"eval", "reboot"}
      BY <1>3, <2>1 DEF Inside
    <3> QED BY <1>3, <1>4, <2>1, <3>1 DEF Held, WarmHolds
  <2>2. CASE t # Beat
    BY <1>0, <1>2, <2>2 DEF Held, WarmHolds
  <2> QED BY <2>1, <2>2
<1>10. ready' /\ life' = "serving" => sess'.page \notin {"none", "blank"}
  BY DEF Held, ReadyWasLoaded
<1> QED BY <1>0, <1>5, <1>6, <1>8, <1>9, <1>10, EmptyHeld

LEMMA FactoryHeld ==
    ASSUME TypeOK, Held, NEW t \in Tasks, Factory(t)
    PROVE  Held'
<1>0. Holds(t) /\ at[t] = "factory" /\ "factory" \in Starting /\ "launch" \in Starting
  BY DEF Factory, Starting
<1>1. ready' = ready /\ life' = life /\ old' = old
  BY DEF Factory, Outside
<1>2. CASE Raise(t, TRUE) /\ UNCHANGED <<sess, procs, pw>>
  BY <1>0, <1>1, <1>2, RaiseHeld DEF Inside
<1>3. ASSUME NEW d \in Drivers \ (procs \cup old),
             procs' = procs \cup {d}, sess' = [sess EXCEPT !.driver = d, !.by = t],
             Advance(t, "launch"), UNCHANGED <<line, tries, samples, marker>>
      PROVE  Held'
  <2>1. sess = Nothing
    BY <1>0 DEF Held, StartsFromNothing
  <2>2. sess'.driver = d /\ sess'.by = t
    BY <1>3, <2>1 DEF Nothing
  <2>3. CASE ready /\ life = "serving"
    BY <1>0, <2>3 DEF Held, ReadyWasLoaded, Starting
  <2>4. CASE ~(ready /\ life = "serving")
    <3>1. /\ Exclusive' /\ WarmComesFirst' /\ WarmHolds' /\ ReadyWasLoaded'
          /\ OnlyBeatWarms' /\ ShutdownEndsBeat' /\ MarkedIsOver'
          /\ t = Beat => marker = "none"
          /\ \A u \in Tasks \ {t} : at'[u] \notin Starting
      BY <1>0, <1>1, <1>3, <2>4, StartHeld
    <3>2. StartsFromNothing'
      <4>1. at'[t] = "launch"
        BY <1>3 DEF TypeOK, Advance
      <4> QED BY <3>1, <4>1 DEF StartsFromNothing, Starting
    <3>3. BrowsersHeld'
      <4>1. /\ life # "closed" => procs = {}
            /\ life = "closed" => \E e \in Drivers : procs \subseteq {e}
        BY <2>1, NamesAssumption DEF Held, BrowsersHeld, OneStrayAtMost, Nothing, TypeOK
      <4>2. life \in {"driver", "closed"} => procs \cap old = {}
        BY DEF Held, BrowsersHeld
      <4>3. life = "closed" => OneStrayAtMost'
        BY <1>3, <2>2, <4>1 DEF OneStrayAtMost
      <4> QED BY <1>1, <1>3, <2>2, <4>1, <4>2, <4>3 DEF BrowsersHeld
    <3>4. TimedOutWarmReleases'
      BY <1>3, <2>2, <3>1 DEF TimedOutWarmReleases
    <3> QED BY <3>1, <3>2, <3>3, <3>4 DEF Held
  <2> QED BY <2>3, <2>4
<1> QED BY <1>2, <1>3 DEF Factory

LEMMA LaunchHeld ==
    ASSUME TypeOK, Held, NEW t \in Tasks, Launch(t)
    PROVE  Held'
<1>0. Holds(t) /\ at[t] = "launch" /\ "launch" \in Starting /\ "boot" \in Starting
  BY DEF Launch, Starting
<1>1. ready' = ready /\ life' = life /\ old' = old /\ procs' = procs
  BY DEF Launch, Outside
<1>2. CASE Raise(t, FALSE) /\ UNCHANGED sess
  BY <1>0, <1>1, <1>2, RaiseHeld DEF Inside
<1>3. CASE /\ sess' = [sess EXCEPT !.page = "blank"]
           /\ Advance(t, "boot")
           /\ UNCHANGED <<line, tries, samples, marker>>
  <2>1. sess'.driver = sess.driver /\ sess'.by = sess.by
    BY <1>3 DEF TypeOK
  <2>2. ~(ready /\ life = "serving")
    BY <1>0 DEF Held, ReadyWasLoaded, Starting
  <2>3. /\ Exclusive' /\ WarmComesFirst' /\ WarmHolds' /\ ReadyWasLoaded'
        /\ OnlyBeatWarms' /\ ShutdownEndsBeat' /\ MarkedIsOver'
        /\ \A u \in Tasks \ {t} : at'[u] \notin Starting
    BY <1>0, <1>1, <1>3, <2>2, StartHeld
  <2>4. StartsFromNothing'
    <3>1. at'[t] = "boot"
      BY <1>3 DEF TypeOK, Advance
    <3> QED BY <2>3, <3>1 DEF StartsFromNothing, Starting
  <2>5. BrowsersHeld' /\ TimedOutWarmReleases'
    BY <1>1, <1>3, <2>1 DEF Held, BrowsersHeld, OneStrayAtMost, TimedOutWarmReleases
  <2> QED BY <2>3, <2>4, <2>5 DEF Held
<1> QED BY <1>2, <1>3 DEF Launch

\* The page is on the site again: the warm is over, or a fetch asks again.
LEMMA LoadedHeld ==
    ASSUME TypeOK, Held, NEW t \in Tasks, Holds(t), at[t] \in {"boot", "reboot"}, Loaded(t),
           procs' = procs, life' = life, old' = old
    PROVE  Held'
<1>0. Beat \in Tasks
  BY DEF Tasks
<1>1. /\ sess'.driver = sess.driver /\ sess'.by = sess.by /\ sess'.page = "site"
      /\ marker' = marker
  BY DEF Loaded, TypeOK
<1>2. BrowsersHeld' /\ TimedOutWarmReleases'
  <2>1. marker = "warm_timeout" => sess.by # Beat
    BY DEF Held, TimedOutWarmReleases
  <2> QED BY <1>1, <2>1 DEF Held, BrowsersHeld, OneStrayAtMost, TimedOutWarmReleases
<1>3. t # Beat => at[Beat] # "warm"
  BY OneHolds DEF Held, WarmComesFirst
<1>4. t = Beat => life = "serving" /\ marker = "none"
  BY DEF Held, ShutdownEndsBeat, MarkedIsOver
<1>5. CASE Leave(t, "sleep") /\ t = Beat
  <2>1. \A u \in Tasks : at'[u] \notin Inside
    BY <1>5, LeaveEmpties DEF Held, Points, Inside, Starting
  <2>2. at'[t] = "sleep" /\ \A u \in Tasks \ {t} : at'[u] = at[u]
    BY <1>5 DEF TypeOK, Leave, Advance
  <2>3. (\A u \in Tasks : at'[u] # "warm") /\ ShutdownEndsBeat' /\ MarkedIsOver'
    BY <1>1, <1>4, <1>5, <2>2 DEF Held, OnlyBeatWarms, ShutdownEndsBeat, MarkedIsOver
  <2> QED BY <1>1, <1>2, <2>1, <2>3, EmptyHeld
<1>6. CASE Advance(t, "eval") /\ line' = line
  <2>1. /\ Holds(t)' /\ at'[t] = "eval"
        /\ \A u \in Tasks \ {t} : at'[u] = at[u] /\ at'[u] \notin Inside
        /\ Exclusive'
    BY <1>6, InsideMoves DEF Points
  <2>2. \A u \in Tasks : at'[u] \notin Starting
    BY <2>1 DEF Inside, Starting
  <2>3. StartsFromNothing' /\ ReadyWasLoaded'
    BY <1>1, <2>2 DEF StartsFromNothing, ReadyWasLoaded, Starting
  <2>4. WarmComesFirst' /\ WarmHolds'
    <3>1. at'[Beat] # "warm"
      BY <1>0, <1>3, <2>1
    <3> QED BY <1>0, <1>1, <2>2, <3>1 DEF WarmComesFirst, WarmHolds
  <2>5. OnlyBeatWarms'
    BY <2>1 DEF Held, OnlyBeatWarms
  <2>6. ShutdownEndsBeat' /\ MarkedIsOver'
    <3>1. CASE t = Beat
      BY <1>1, <1>4, <3>1 DEF ShutdownEndsBeat, MarkedIsOver
    <3>2. CASE t # Beat
      BY <1>0, <1>1, <2>1, <3>2 DEF Held, ShutdownEndsBeat, MarkedIsOver
    <3> QED BY <3>1, <3>2
  <2> QED BY <1>2, <2>1, <2>3, <2>4, <2>5, <2>6 DEF Held
<1> QED BY <1>5, <1>6 DEF Loaded

LEMMA BootstrapHeld ==
    ASSUME TypeOK, Held, NEW t \in Tasks, Bootstrap(t)
    PROVE  Held'
<1>0. /\ Holds(t) /\ at[t] \in {"boot", "reboot"} /\ at[t] \in Inside
      /\ procs' = procs /\ life' = life /\ old' = old
  BY DEF Bootstrap, Outside, Inside, Starting
<1>1. CASE Loaded(t)
  BY <1>0, <1>1, LoadedHeld
<1>2. CASE /\ sess.page # "none"
           /\ \E p \in {"site", "lost", sess.page} : sess' = [sess EXCEPT !.page = p]
           /\ Raise(t, TRUE) /\ UNCHANGED ready
  <2>1. /\ sess'.driver = sess.driver /\ sess'.by = sess.by
        /\ sess'.page \in {"site", "lost", sess.page}
    BY <1>2 DEF TypeOK
  <2> QED BY <1>0, <1>2, <2>1, RaiseHeld
<1>3. CASE (\E e \in BOOLEAN : Raise(t, e)) /\ UNCHANGED <<sess, ready>>
  BY <1>0, <1>3, RaiseHeld
<1> QED BY <1>1, <1>2, <1>3 DEF Bootstrap

\* A fetch or a probe ends in an answer.
LEMMA AnsweredHeld ==
    ASSUME TypeOK, Held, NEW t \in Tasks, Holds(t), at[t] = "eval",
           NEW ok \in BOOLEAN, Answered(t, ok), marker' = marker,
           sess' = sess, ready' = ready, procs' = procs, life' = life, old' = old
    PROVE  Held'
<1> DEFINE p == IF t = Beat THEN "sleep" ELSE "idle"
<1>0. Beat \in Tasks /\ \A u \in Tasks : at'[u] \notin Inside
  BY AnsweredEmpties DEF Tasks, Held
<1>1. at'[t] = p /\ \A u \in Tasks \ {t} : at'[u] = at[u]
  BY DEF Answered, Leave, Advance, TypeOK
<1>2. p \in {"sleep", "idle"}
  OBVIOUS
<1> HIDE DEF p
<1>3. at[Beat] # "warm"
  BY OneHolds DEF Held, WarmComesFirst
<1>4. \A u \in Tasks : at'[u] # "warm"
  BY <1>1, <1>2, <1>3 DEF Held, OnlyBeatWarms
<1>5. t = Beat => life = "serving" /\ marker = "none" /\ sess.page # "none"
  BY DEF Held, ShutdownEndsBeat, MarkedIsOver, WarmHolds
<1>6. BrowsersHeld' /\ TimedOutWarmReleases'
  BY DEF Held, BrowsersHeld, OneStrayAtMost, TimedOutWarmReleases
<1>7. /\ ShutdownEndsBeat' /\ MarkedIsOver'
      /\ at'[Beat] \in {"sleep", "queued"} => sess'.page # "none"
  <2>1. CASE t = Beat
    BY <1>5, <2>1 DEF ShutdownEndsBeat, MarkedIsOver
  <2>2. CASE t # Beat
    BY <1>0, <1>1, <2>2 DEF Held, ShutdownEndsBeat, MarkedIsOver, WarmHolds
  <2> QED BY <2>1, <2>2
<1>8. ready' /\ life' = "serving" => sess'.page \notin {"none", "blank"}
  BY DEF Held, ReadyWasLoaded
<1> QED BY <1>0, <1>4, <1>6, <1>7, <1>8, EmptyHeld

LEMMA EvaluateHeld ==
    ASSUME TypeOK, Held, NEW t \in Tasks, Evaluate(t)
    PROVE  Held'
<1> DEFINE Again == Advance(t, "reboot") /\ UNCHANGED <<line, samples, marker>>
           Over  == (\E ok \in BOOLEAN : Answered(t, ok)) /\ UNCHANGED marker
<1>0. /\ Holds(t) /\ at[t] = "eval" /\ at[t] \in Inside
      /\ sess' = sess /\ ready' = ready /\ procs' = procs /\ life' = life /\ old' = old
  BY DEF Evaluate, Outside, Inside
<1>1. CASE \E e \in BOOLEAN : Raise(t, e)
  BY <1>0, <1>1, RaiseHeld
<1>2. CASE Over
  BY <1>0, <1>2, AnsweredHeld
<1>3. CASE Again
  <2>0. Beat \in Tasks
    BY DEF Tasks
  <2>1. /\ Holds(t)' /\ at'[t] = "reboot"
        /\ \A u \in Tasks \ {t} : at'[u] = at[u] /\ at'[u] \notin Inside
        /\ Exclusive'
    BY <1>0, <1>3, InsideMoves DEF Points
  <2>2. \A u \in Tasks : at'[u] \notin Starting
    BY <2>1 DEF Inside, Starting
  <2>3. at[Beat] # "warm"
    BY <1>0, OneHolds DEF Held, WarmComesFirst
  <2>4. StartsFromNothing' /\ ReadyWasLoaded' /\ BrowsersHeld' /\ TimedOutWarmReleases'
    BY <1>0, <1>3, <2>2
       DEF Held, StartsFromNothing, ReadyWasLoaded, BrowsersHeld, OneStrayAtMost, TimedOutWarmReleases, Starting
  <2>5. WarmComesFirst' /\ OnlyBeatWarms'
    BY <2>0, <2>1, <2>2, <2>3 DEF Held, WarmComesFirst, OnlyBeatWarms
  <2>6. WarmHolds' /\ ShutdownEndsBeat' /\ MarkedIsOver'
    <3>1. CASE t = Beat
      BY <1>0, <1>3, <2>2, <3>1 DEF Held, WarmHolds, ShutdownEndsBeat, MarkedIsOver
    <3>2. CASE t # Beat
      BY <1>0, <1>3, <2>0, <2>1, <2>2, <3>2 DEF Held, WarmHolds, ShutdownEndsBeat, MarkedIsOver
    <3> QED BY <3>1, <3>2
  <2> QED BY <2>1, <2>4, <2>5, <2>6 DEF Held
<1>4. Raise(t, FALSE) \/ Raise(t, TRUE) \/ Again \/ Over
  BY DEF Evaluate
<1> QED BY <1>1, <1>2, <1>3, <1>4

\* The warm is cut short: nothing is held, and it is over.
LEMMA TimeoutHeld ==
    ASSUME TypeOK, Held, WarmTimesOut
    PROVE  Held'
<1>0. Beat \in Tasks /\ at[Beat] \in Inside
  BY DEF Tasks, WarmTimesOut, Inside
<1>1. \A u \in Tasks : at'[u] \notin Inside
  BY <1>0, LeaveEmpties DEF WarmTimesOut, Held, Points, Inside, Starting
<1>2. at'[Beat] = "ended" /\ \A u \in Tasks \ {Beat} : at'[u] = at[u]
  BY <1>0 DEF WarmTimesOut, Leave, Advance, TypeOK
<1>3. /\ sess'.driver = 0 /\ sess'.by # Beat /\ procs' = procs \ {sess.driver}
      /\ ready' = ready /\ life' = life /\ old' = old
  BY DEF WarmTimesOut, Nothing, Outside, Beat
<1>4. ~ready /\ life = "serving"
  BY <1>0 DEF WarmTimesOut, Held, WarmComesFirst, ShutdownEndsBeat, Starting
<1>5. BrowsersHeld'
  BY <1>3, <1>4 DEF Held, BrowsersHeld
<1>6. (\A u \in Tasks : at'[u] # "warm") /\ ShutdownEndsBeat' /\ MarkedIsOver' /\ TimedOutWarmReleases'
  BY <1>2, <1>3 DEF Held, OnlyBeatWarms, ShutdownEndsBeat, MarkedIsOver, TimedOutWarmReleases
<1> QED BY <1>1, <1>2, <1>3, <1>4, <1>5, <1>6, EmptyHeld

\* A page that dies is held still.
LEMMA DeathHeld ==
    ASSUME TypeOK, Held, PageDies
    PROVE  Held'
<1>1. /\ sess'.driver = sess.driver /\ sess'.by = sess.by /\ sess'.page = "dead" /\ sess.page # "none"
      /\ procs' = procs /\ ready' = ready /\ line' = line /\ at' = at
      /\ marker' = marker /\ life' = life /\ old' = old
  BY DEF PageDies, Outside, TypeOK
<1>2. Exclusive' /\ OnlyBeatWarms' /\ ShutdownEndsBeat' /\ MarkedIsOver'
  BY <1>1 DEF Held, Exclusive, Holds, OnlyBeatWarms, ShutdownEndsBeat, MarkedIsOver
<1>3. StartsFromNothing'
  BY <1>1 DEF Held, StartsFromNothing, Nothing
<1>4. BrowsersHeld' /\ TimedOutWarmReleases'
  BY <1>1 DEF Held, BrowsersHeld, OneStrayAtMost, TimedOutWarmReleases
<1>5. WarmComesFirst' /\ WarmHolds' /\ ReadyWasLoaded'
  BY <1>1 DEF Held, WarmComesFirst, WarmHolds, ReadyWasLoaded, Holds
<1> QED BY <1>2, <1>3, <1>4, <1>5 DEF Held

\* The shutdown ends the heartbeat; whoever else held the lock keeps it.
LEMMA CancelHeld ==
    ASSUME TypeOK, Held, Cancel
    PROVE  Held'
<1>0. Beat \in Tasks /\ line \in Seq(Tasks)
  BY DEF Tasks, TypeOK
<1>1. at'[Beat] = "ended" /\ \A u \in Tasks \ {Beat} : at'[u] = at[u]
  BY <1>0 DEF Cancel, Advance, TypeOK
<1>2. /\ sess' = sess /\ procs' = procs /\ ready' = ready /\ marker' = marker
      /\ life = "serving" /\ life' = "cancelled" /\ line' = Without(line, Beat)
  BY DEF Cancel
<1>3. ASSUME NEW u \in Tasks \ {Beat}, at'[u] \in Inside
      PROVE  Holds(u)'
  <2>1. Holds(u)
    BY <1>1, <1>3 DEF Held, Exclusive
  <2>2. line # <<>> /\ Head(line) = u /\ u # Beat
    BY <2>1 DEF Holds
  <2>3. Without(line, Beat) # <<>> /\ Head(Without(line, Beat)) = u
    BY <1>0, <2>2, WithoutFacts
  <2> QED BY <1>2, <2>3 DEF Holds
<1>4. Exclusive'
  BY <1>1, <1>3 DEF Exclusive, Inside, Starting
<1>5. StartsFromNothing' /\ OnlyBeatWarms'
  BY <1>1, <1>2 DEF Held, StartsFromNothing, OnlyBeatWarms
<1>6. BrowsersHeld' /\ TimedOutWarmReleases' /\ ReadyWasLoaded'
  BY <1>2 DEF Held, BrowsersHeld, OneStrayAtMost, TimedOutWarmReleases, ReadyWasLoaded
<1>7. WarmComesFirst' /\ WarmHolds' /\ ShutdownEndsBeat' /\ MarkedIsOver'
  BY <1>1 DEF WarmComesFirst, WarmHolds, ShutdownEndsBeat, MarkedIsOver, Starting
<1> QED BY <1>4, <1>5, <1>6, <1>7 DEF Held

\* close() takes no lock: what it stops is what ran when it began.
LEMMA CloseHeld ==
    ASSUME TypeOK, Held, Close \/ CloseBrowser \/ CloseDriver
    PROVE  Held'
<1>1. /\ line' = line /\ at' = at /\ marker' = marker
      /\ life \notin {"serving"} /\ life' \notin {"serving"}
  BY DEF Close, CloseBrowser, CloseDriver
<1>2. Exclusive' /\ OnlyBeatWarms' /\ ShutdownEndsBeat' /\ MarkedIsOver' /\ ReadyWasLoaded'
  BY <1>1 DEF Held, Exclusive, Holds, OnlyBeatWarms, ShutdownEndsBeat, MarkedIsOver, ReadyWasLoaded
<1>3. WarmComesFirst' /\ WarmHolds'
  BY <1>1 DEF Held, ShutdownEndsBeat, WarmComesFirst, WarmHolds, Starting
<1>4. StartsFromNothing'
  <2>1. CASE Close
    BY <2>1 DEF Close, Held, StartsFromNothing
  <2>2. CASE CloseBrowser
    BY <2>2 DEF CloseBrowser, Held, StartsFromNothing, Nothing
  <2>3. CASE CloseDriver
    BY <2>3 DEF CloseDriver, StartsFromNothing
  <2> QED BY <2>1, <2>2, <2>3
<1>5. BrowsersHeld'
  <2>1. life # "closed" /\ procs \subseteq {sess.driver}
    BY DEF Held, BrowsersHeld, Close, CloseBrowser, CloseDriver
  <2>2. \A y : \E d \in Drivers : procs \ {y} \subseteq {d}
    <3>1. PICK e \in Drivers : TRUE
      BY NamesAssumption
    <3>2. sess.driver \notin Drivers => procs = {}
      BY <2>1 DEF TypeOK
    <3> QED BY <2>1, <3>1, <3>2
  <2>3. CASE Close
    <3>1. life' = "closed" => procs = {}
      BY <2>1, <2>3, NamesAssumption DEF Close, Nothing, TypeOK
    <3> QED BY <2>1, <2>2, <2>3, <3>1 DEF Close, BrowsersHeld, OneStrayAtMost
  <2>4. CASE CloseBrowser
    <3>1. procs' = {} /\ life' \in {"driver", "closed"}
      BY <2>1, <2>4 DEF CloseBrowser
    <3> QED BY <2>2, <3>1 DEF BrowsersHeld, OneStrayAtMost
  <2>5. CASE CloseDriver
    <3>1. procs' \cap old' = {} /\ life' = "closed"
      BY <2>5 DEF CloseDriver, Held, BrowsersHeld
    <3> QED BY <2>2, <2>5, <3>1 DEF CloseDriver, BrowsersHeld, OneStrayAtMost
  <2> QED BY <2>3, <2>4, <2>5
<1>6. TimedOutWarmReleases'
  <2>1. CASE Close
    BY <2>1 DEF Close, Held, TimedOutWarmReleases
  <2>2. CASE CloseBrowser
    <3>1. sess'.by = sess.by
      BY <2>2 DEF CloseBrowser, TypeOK
    <3> QED BY <1>1, <3>1 DEF Held, TimedOutWarmReleases
  <2>3. CASE CloseDriver
    BY <2>3 DEF CloseDriver, TimedOutWarmReleases, Nothing, Beat
  <2> QED BY <2>1, <2>2, <2>3
<1> QED BY <1>2, <1>3, <1>4, <1>5, <1>6 DEF Held

-----------------------------------------------------------------------------
LEMMA HeldInit == Init => Held
<1> SUFFICES ASSUME Init PROVE Held
  OBVIOUS
<1>1. Beat \in Tasks /\ Holds(Beat)
  BY DEF Tasks, Init, Holds
<1>2. at[Beat] = "warm" /\ \A u \in Tasks \ {Beat} : at[u] = "idle"
  BY <1>1 DEF Init
<1>3. \A u \in Tasks : at[u] \notin Inside /\ at[u] # "factory"
  BY <1>2 DEF Inside, Starting
<1>4. Exclusive /\ StartsFromNothing
  BY <1>3 DEF Exclusive, StartsFromNothing
<1>5. BrowsersHeld /\ ShutdownEndsBeat /\ MarkedIsOver /\ ReadyWasLoaded /\ TimedOutWarmReleases
  BY DEF Init, BrowsersHeld, ShutdownEndsBeat, MarkedIsOver, ReadyWasLoaded, TimedOutWarmReleases
<1>6. WarmComesFirst /\ WarmHolds /\ OnlyBeatWarms
  BY <1>1, <1>2 DEF Init, WarmComesFirst, WarmHolds, OnlyBeatWarms
<1> QED BY <1>4, <1>5, <1>6 DEF Held

LEMMA HeldStep ==
    TypeOK /\ Held /\ [Next]_vars => Held'
<1> SUFFICES ASSUME TypeOK, Held, [Next]_vars PROVE Held'
  OBVIOUS
<1>0. Beat \in Tasks /\ Requests \subseteq Tasks /\ Beat \notin Requests
  BY NamesAssumption DEF Tasks
<1>1. CASE \E t \in Tasks : Step(t)
  BY <1>1, EnterHeld, ClearHeld, FactoryHeld, LaunchHeld, BootstrapHeld, EvaluateHeld DEF Step
<1>2. ASSUME NEW r \in Requests, Ask(r) \/ FanOut(r) \/ GateOpens(r) \/ GateTimesOut(r)
      PROVE  Held'
  <2>1. PICK p \in {"idle", "gate", "queued"} : Advance(r, p)
    BY <1>2 DEF Ask, FanOut, GateOpens, GateTimesOut
  <2>2. (line' = line \/ line' = Append(line, r)) /\ Unlocked
    BY <1>2 DEF Ask, FanOut, GateOpens, GateTimesOut
  <2> QED BY <1>0, <2>1, <2>2, QueueHeld
<1>3. CASE Tick
  BY <1>0, <1>3, QueueHeld DEF Tick
<1>4. CASE WarmTimesOut
  BY <1>4, TimeoutHeld
<1>5. CASE SiteChanges \/ UNCHANGED vars
  <2>1. UNCHANGED <<line, at, life, old, sess, procs, ready, marker>>
    BY <1>5 DEF SiteChanges, vars
  <2> QED BY <2>1 DEF Held, Exclusive, Holds, StartsFromNothing, BrowsersHeld, OneStrayAtMost, WarmComesFirst,
                      WarmHolds, OnlyBeatWarms, ShutdownEndsBeat, MarkedIsOver, ReadyWasLoaded,
                      TimedOutWarmReleases
<1>6. CASE PageDies
  BY <1>6, DeathHeld
<1>7. CASE Cancel
  BY <1>7, CancelHeld
<1>8. CASE Close \/ CloseBrowser \/ CloseDriver
  BY <1>8, CloseHeld
<1> QED BY <1>1, <1>2, <1>3, <1>4, <1>5, <1>6, <1>7, <1>8 DEF Next

\* The session's invariant holds for any requests, drivers and window.
THEOREM SessionHeld == Spec => [](TypeOK /\ Held)
<1>1. Init => TypeOK /\ Held
  BY TypeInit, HeldInit
<1>2. TypeOK /\ Held /\ [Next]_vars => (TypeOK /\ Held)'
  BY TypeStep, HeldStep
<1> QED BY <1>1, <1>2, PTL DEF Spec

\* While the event is set the page has been on the site: no start under way and
\* no start that failed ever looks ready.
THEOREM ReadyIsLoaded == Spec => []ReadyWasLoaded
<1>1. Held => ReadyWasLoaded
  BY DEF Held
<1> QED BY <1>1, SessionHeld, PTL

\* Until close() is over no browser runs that the session does not hold, a warm cut
\* short leaves none, close() stops all that ran when it began, and what a start in
\* flight launches behind its back is one browser at most. That none runs after
\* close() is not so: a start in flight launches its own.
THEOREM BrowsersStayInReach == Spec => []BrowsersInReach
<1>1. TypeOK /\ Held => BrowsersInReach
  <2> SUFFICES ASSUME TypeOK, Held PROVE BrowsersInReach
    OBVIOUS
  <2>1. NoBrowserLost /\ TimedOutWarmReleases /\ CloseStopsWhatRan
    BY DEF Held, BrowsersHeld, NoBrowserLost, CloseStopsWhatRan
  <2>2. OneStrayAtMost
    <3>1. PICK d \in Drivers : TRUE
      BY NamesAssumption
    <3> QED BY <3>1 DEF Held, BrowsersHeld, OneStrayAtMost
  <2> QED BY <2>1, <2>2 DEF BrowsersInReach
<1> QED BY <1>1, SessionHeld, PTL

-----------------------------------------------------------------------------
(* The scraping lanes.                                                         *)

\* A set of numbers has a least one.
LEMMA LeastIsOne ==
    ASSUME NEW S \in SUBSET Nat, S # {}
    PROVE  Min(S) \in S /\ \A y \in S : Min(S) <= y
<1>1. PICK x \in S : \A y \in S : ~(<<y, x>> \in OpToRel(<, Nat))
  BY NatLessThanWellFounded, WFMin, Zenon
<1>2. \A y \in S : ~(y < x)
  BY <1>1 DEF OpToRel
<1>3. \A y \in S : x <= y
  BY <1>2
<1> QED BY <1>3 DEF Min

\* The codes of the checks.
Code == {"ok", "gated", "parse_failed", "not_found", "unreachable", "upstream_unreachable"}

\* The code of a check during an outage, and without it: what is gated stays
\* so; what passes passes, unless a request was out that only softens a call.
Steady(x, y, hard) ==
    /\ x \in Code /\ y \in Code
    /\ x = "gated" => y = "gated"
    /\ x = "ok" => y = "ok" \/ (y = "gated" /\ ~hard)

AllSteady(s, t, hard) ==
    /\ s \in Seq(Code) /\ t \in Seq(Code) /\ Len(s) = Len(t)
    /\ \A i \in 1 .. Len(s) : Steady(s[i], t[i], hard)

\* The first check that refuses decides, whatever comes after it.
LEMMA FirstRefusal ==
    ASSUME NEW S, NEW codes \in Seq(S)
    PROVE  \/ Refusal(codes) = "ok" /\ \A i \in 1 .. Len(codes) : codes[i] = "ok"
           \/ \E i \in 1 .. Len(codes) :
                 /\ codes[i] # "ok" /\ Refusal(codes) = codes[i]
                 /\ \A j \in 1 .. i - 1 : codes[j] = "ok"
<1> DEFINE refusals == {i \in DOMAIN codes : codes[i] # "ok"}
<1>1. refusals \in SUBSET Nat /\ DOMAIN codes = 1 .. Len(codes) /\ Len(codes) \in Nat
  OBVIOUS
<1>2. Refusal(codes) = IF refusals = {} THEN "ok" ELSE codes[Min(refusals)]
  BY DEF Refusal
<1>3. CASE refusals = {}
  BY <1>1, <1>2, <1>3
<1>4. CASE refusals # {}
  <2> DEFINE i == Min(refusals)
  <2>1. i \in refusals /\ \A j \in refusals : i <= j
    <3> HIDE DEF refusals
    <3> QED BY <1>1, <1>4, LeastIsOne
  <2>2. i \in 1 .. Len(codes) /\ codes[i] # "ok" /\ Refusal(codes) = codes[i]
    BY <1>1, <1>2, <1>4, <2>1
  <2>3. ASSUME NEW j \in 1 .. i - 1 PROVE codes[j] = "ok"
    <3>1. j \in DOMAIN codes /\ ~(i <= j)
      <4> HIDE DEF i
      <4> QED BY <1>1, <2>2
    <3> QED BY <2>1, <3>1
  <2> HIDE DEF i
  <2> QED BY <2>2, <2>3
<1> QED BY <1>3, <1>4

\* Two rows of checks are refused by the first row, or by the second.
LEMMA RefusalJoin ==
    ASSUME NEW S, NEW s \in Seq(S), NEW t \in Seq(S)
    PROVE  Refusal(s \o t) = IF Refusal(s) # "ok" THEN Refusal(s) ELSE Refusal(t)
<1> DEFINE q == s \o t
           n == Len(s)
           m == Len(t)
<1>1. /\ q \in Seq(S) /\ Len(q) = n + m
      /\ \A i \in 1 .. n + m : q[i] = IF i <= n THEN s[i] ELSE t[i - n]
  BY ConcatProperties
<1>2. n \in Nat /\ m \in Nat
  OBVIOUS
<1>3. /\ \A i \in 1 .. n : i \in 1 .. n + m /\ q[i] = s[i]
      /\ \A i \in 1 .. m : i + n \in 1 .. n + m /\ q[i + n] = t[i]
  <2>1. \A i \in 1 .. m : ~(i + n <= n) /\ (i + n) - n = i /\ i + n \in 1 .. n + m
    BY <1>2
  <2>2. \A i \in 1 .. n : i <= n /\ i \in 1 .. n + m
    BY <1>2
  <2> HIDE DEF q, n, m
  <2> QED BY <1>1, <2>1, <2>2
<1> HIDE DEF q, n, m
<1>4. \/ Refusal(q) = "ok" /\ \A i \in 1 .. n + m : q[i] = "ok"
      \/ \E i \in 1 .. n + m : q[i] # "ok" /\ Refusal(q) = q[i] /\ \A j \in 1 .. i - 1 : q[j] = "ok"
  BY <1>1, FirstRefusal
<1>5. \/ Refusal(s) = "ok" /\ \A i \in 1 .. n : s[i] = "ok"
      \/ \E i \in 1 .. n : s[i] # "ok" /\ Refusal(s) = s[i] /\ \A j \in 1 .. i - 1 : s[j] = "ok"
  BY FirstRefusal DEF n
<1>6. \/ Refusal(t) = "ok" /\ \A i \in 1 .. m : t[i] = "ok"
      \/ \E i \in 1 .. m : t[i] # "ok" /\ Refusal(t) = t[i] /\ \A j \in 1 .. i - 1 : t[j] = "ok"
  BY FirstRefusal DEF m
<1>7. ASSUME NEW i \in 1 .. n + m, q[i] # "ok", \A j \in 1 .. i - 1 : q[j] = "ok"
      PROVE  Refusal(q) = q[i]
  <2>1. PICK k \in 1 .. n + m : q[k] # "ok" /\ Refusal(q) = q[k] /\ \A j \in 1 .. k - 1 : q[j] = "ok"
    BY <1>4, <1>7
  <2>2. ~(k \in 1 .. i - 1) /\ ~(i \in 1 .. k - 1)
    BY <1>7, <2>1
  <2>3. k = i
    BY <1>2, <2>2
  <2> QED BY <2>1, <2>3
<1>8. CASE Refusal(s) # "ok"
  <2>1. PICK i \in 1 .. n : s[i] # "ok" /\ Refusal(s) = s[i] /\ \A j \in 1 .. i - 1 : s[j] = "ok"
    BY <1>5, <1>8
  <2>2. \A j \in 1 .. i - 1 : j \in 1 .. n
    BY <1>2
  <2>3. i \in 1 .. n + m /\ q[i] = s[i] /\ \A j \in 1 .. i - 1 : q[j] = "ok"
    BY <1>3, <2>1, <2>2
  <2>4. Refusal(q) = q[i]
    BY <1>7, <2>1, <2>3
  <2> QED BY <1>8, <2>1, <2>3, <2>4 DEF q
<1>9. CASE Refusal(s) = "ok" /\ Refusal(t) # "ok"
  <2>0. \A i \in 1 .. n : s[i] = "ok"
    BY <1>5, <1>9
  <2>1. PICK i \in 1 .. m : t[i] # "ok" /\ Refusal(t) = t[i] /\ \A j \in 1 .. i - 1 : t[j] = "ok"
    BY <1>6, <1>9
  <2>2. ASSUME NEW j \in 1 .. (i + n) - 1 PROVE q[j] = "ok"
    <3>1. j \in 1 .. n \/ (j - n \in 1 .. i - 1 /\ j - n \in 1 .. m /\ (j - n) + n = j)
      BY <1>2
    <3> QED BY <1>3, <2>0, <2>1, <3>1
  <2>3. i + n \in 1 .. n + m /\ q[i + n] = t[i]
    BY <1>3
  <2>4. Refusal(q) = q[i + n]
    BY <1>7, <2>1, <2>2, <2>3
  <2> QED BY <1>9, <2>1, <2>3, <2>4 DEF q
<1>10. CASE Refusal(s) = "ok" /\ Refusal(t) = "ok"
  <2>1. (\A i \in 1 .. n : s[i] = "ok") /\ (\A i \in 1 .. m : t[i] = "ok")
    BY <1>5, <1>6, <1>10
  <2>2. \A i \in 1 .. n + m : i \in 1 .. n \/ (i - n \in 1 .. m /\ (i - n) + n = i)
    BY <1>2
  <2>3. \A i \in 1 .. n + m : q[i] = "ok"
    BY <1>3, <2>1, <2>2
  <2> QED BY <1>4, <1>10, <2>3 DEF q
<1> QED BY <1>8, <1>9, <1>10

\* Checks that are steady one by one are steady together.
LEMMA RefusalSteady ==
    ASSUME NEW s, NEW t, NEW hard, AllSteady(s, t, hard)
    PROVE  Steady(Refusal(s), Refusal(t), hard)
<1>1. /\ s \in Seq(Code) /\ t \in Seq(Code) /\ Len(s) = Len(t) /\ Len(s) \in Nat
      /\ \A i \in 1 .. Len(s) : Steady(s[i], t[i], hard)
  BY DEF AllSteady
<1>2. CASE Refusal(s) = "ok" /\ \A i \in 1 .. Len(s) : s[i] = "ok"
  <2>1. \A i \in 1 .. Len(t) : t[i] = "ok" \/ (t[i] = "gated" /\ ~hard)
    BY <1>1, <1>2 DEF Steady
  <2>2. Refusal(t) = "ok" \/ (Refusal(t) = "gated" /\ ~hard)
    BY <1>1, <2>1, FirstRefusal
  <2> QED BY <1>2, <2>2 DEF Steady, Code
<1>3. ASSUME NEW i \in 1 .. Len(s), s[i] # "ok", Refusal(s) = s[i], \A j \in 1 .. i - 1 : s[j] = "ok"
      PROVE  Steady(Refusal(s), Refusal(t), hard)
  <2>0. Refusal(s) \in Code /\ Refusal(t) \in Code
    <3>1. Refusal(t) = "ok" \/ \E k \in 1 .. Len(t) : Refusal(t) = t[k]
      BY <1>1, FirstRefusal
    <3>2. \A k \in 1 .. Len(t) : t[k] \in Code
      BY <1>1
    <3> QED BY <1>1, <1>3, <3>1, <3>2 DEF Code
  <2>1. CASE s[i] # "gated"
    BY <1>3, <2>0, <2>1 DEF Steady
  <2>2. CASE s[i] = "gated"
    <3>1. i \in Nat /\ \A j \in 1 .. i - 1 : j \in 1 .. Len(s)
      BY <1>1
    <3>2. t[i] = "gated" /\ \A j \in 1 .. i - 1 : t[j] = "ok" \/ t[j] = "gated"
      BY <1>1, <1>3, <2>2, <3>1 DEF Steady
    <3>3. PICK k \in 1 .. Len(t) : t[k] # "ok" /\ Refusal(t) = t[k] /\ \A j \in 1 .. k - 1 : t[j] = "ok"
      <4>1. ~(\A k \in 1 .. Len(t) : t[k] = "ok")
        BY <1>1, <3>2
      <4> QED BY <1>1, <4>1, FirstRefusal
    <3>4. k \in 1 .. i
      <4>1. ~(i \in 1 .. k - 1)
        BY <3>2, <3>3
      <4>2. i \in Nat /\ k \in Nat /\ 1 <= i /\ 1 <= k
        BY <1>1, <3>3
      <4> QED BY <4>1, <4>2
    <3>5. t[k] = "gated"
      <4>1. k = i \/ k \in 1 .. i - 1
        BY <3>1, <3>4
      <4> QED BY <3>2, <3>3, <4>1
    <3>6. Refusal(s) = "gated" /\ Refusal(t) = "gated"
      BY <1>3, <2>2, <3>3, <3>5
    <3> QED BY <3>6 DEF Steady, Code
  <2> QED BY <2>1, <2>2
<1> QED BY <1>1, <1>2, <1>3, FirstRefusal

\* What a request meets once the outage is over.
Cleared(a) == IF a = "missing" THEN "missing" ELSE "page"

\* No code of a failed request is a verdict that the title is gated.
LEMMA HopSteady ==
    ASSUME NEW a \in Answer, NEW hard
    PROVE  /\ Steady(Strict(a), Strict(Cleared(a)), hard)
           /\ Steady(Lenient(a), Lenient(Cleared(a)), hard)
           /\ Steady(Posted(a), Posted(Cleared(a)), hard)
<1>1. CASE a = "page" \/ a = "missing"
  <2>1. Cleared(a) = a
    BY <1>1 DEF Cleared
  <2>2. \A x \in Code : x # "gated" => Steady(x, x, hard)
    BY DEF Steady, Code
  <2>3. /\ Strict(a) \in {"ok", "not_found"} /\ Lenient(a) \in {"ok", "not_found"}
        /\ Posted(a) \in {"ok", "upstream_unreachable"}
    BY <1>1 DEF Strict, Lenient, Posted
  <2> QED BY <2>1, <2>2, <2>3 DEF Code
<1>2. CASE a = "error" \/ a = "down"
  <2>1. Cleared(a) = "page"
    BY <1>2 DEF Cleared
  <2>2. Strict("page") = "ok" /\ Lenient("page") = "ok" /\ Posted("page") = "ok"
    BY DEF Strict, Lenient, Posted
  <2>3. /\ Strict(a) \in {"unreachable", "upstream_unreachable"}
        /\ Lenient(a) \in {"unreachable", "not_found"}
        /\ Posted(a) \in {"unreachable", "upstream_unreachable"}
    BY <1>2 DEF Strict, Lenient, Posted
  <2>4. \A x \in {"unreachable", "upstream_unreachable", "not_found"} : Steady(x, "ok", hard)
    BY DEF Steady, Code
  <2> QED BY <2>1, <2>2, <2>3, <2>4
<1> QED BY <1>1, <1>2 DEF Answer

LEMMA Steady1 ==
    ASSUME NEW hard, NEW a, NEW v,
           Steady(a, v, hard)
    PROVE  AllSteady(<<a>>, <<v>>, hard)
<1> DEFINE s == <<a>>
           t == <<v>>
<1>1. /\ s \in Seq(Code) /\ t \in Seq(Code) /\ Len(s) = 1 /\ Len(t) = 1
      /\ s[1] = a
      /\ t[1] = v
  BY DEF Steady
<1> HIDE DEF s, t
<1>2. \A i \in 1 .. 1 : i = 1
  OBVIOUS
<1>3. \A i \in 1 .. 1 : Steady(s[i], t[i], hard)
  BY <1>1, <1>2, Zenon
<1>4. AllSteady(s, t, hard)
  BY <1>1, <1>3 DEF AllSteady
<1> QED BY <1>4 DEF s, t

LEMMA Steady2 ==
    ASSUME NEW hard, NEW a, NEW b, NEW v, NEW w,
           Steady(a, v, hard), Steady(b, w, hard)
    PROVE  AllSteady(<<a, b>>, <<v, w>>, hard)
<1> DEFINE s == <<a, b>>
           t == <<v, w>>
<1>1. /\ s \in Seq(Code) /\ t \in Seq(Code) /\ Len(s) = 2 /\ Len(t) = 2
      /\ s[1] = a /\ s[2] = b
      /\ t[1] = v /\ t[2] = w
  BY DEF Steady
<1> HIDE DEF s, t
<1>2. \A i \in 1 .. 2 : i = 1 \/ i = 2
  OBVIOUS
<1>3. \A i \in 1 .. 2 : Steady(s[i], t[i], hard)
  BY <1>1, <1>2, Zenon
<1>4. AllSteady(s, t, hard)
  BY <1>1, <1>3 DEF AllSteady
<1> QED BY <1>4 DEF s, t

LEMMA Steady3 ==
    ASSUME NEW hard, NEW a, NEW b, NEW c, NEW v, NEW w, NEW x,
           Steady(a, v, hard), Steady(b, w, hard), Steady(c, x, hard)
    PROVE  AllSteady(<<a, b, c>>, <<v, w, x>>, hard)
<1> DEFINE s == <<a, b, c>>
           t == <<v, w, x>>
<1>1. /\ s \in Seq(Code) /\ t \in Seq(Code) /\ Len(s) = 3 /\ Len(t) = 3
      /\ s[1] = a /\ s[2] = b /\ s[3] = c
      /\ t[1] = v /\ t[2] = w /\ t[3] = x
  BY DEF Steady
<1> HIDE DEF s, t
<1>2. \A i \in 1 .. 3 : i = 1 \/ i = 2 \/ i = 3
  OBVIOUS
<1>3. \A i \in 1 .. 3 : Steady(s[i], t[i], hard)
  BY <1>1, <1>2, Zenon
<1>4. AllSteady(s, t, hard)
  BY <1>1, <1>3 DEF AllSteady
<1> QED BY <1>4 DEF s, t

LEMMA Steady4 ==
    ASSUME NEW hard, NEW a, NEW b, NEW c, NEW d, NEW v, NEW w, NEW x, NEW y,
           Steady(a, v, hard), Steady(b, w, hard), Steady(c, x, hard), Steady(d, y, hard)
    PROVE  AllSteady(<<a, b, c, d>>, <<v, w, x, y>>, hard)
<1> DEFINE s == <<a, b, c, d>>
           t == <<v, w, x, y>>
<1>1. /\ s \in Seq(Code) /\ t \in Seq(Code) /\ Len(s) = 4 /\ Len(t) = 4
      /\ s[1] = a /\ s[2] = b /\ s[3] = c /\ s[4] = d
      /\ t[1] = v /\ t[2] = w /\ t[3] = x /\ t[4] = y
  BY DEF Steady
<1> HIDE DEF s, t
<1>2. \A i \in 1 .. 4 : i = 1 \/ i = 2 \/ i = 3 \/ i = 4
  OBVIOUS
<1>3. \A i \in 1 .. 4 : Steady(s[i], t[i], hard)
  BY <1>1, <1>2, Zenon
<1>4. AllSteady(s, t, hard)
  BY <1>1, <1>3 DEF AllSteady
<1> QED BY <1>4 DEF s, t

LEMMA Steady5 ==
    ASSUME NEW hard, NEW a, NEW b, NEW c, NEW d, NEW e, NEW v, NEW w, NEW x, NEW y, NEW z,
           Steady(a, v, hard), Steady(b, w, hard), Steady(c, x, hard), Steady(d, y, hard), Steady(e, z, hard)
    PROVE  AllSteady(<<a, b, c, d, e>>, <<v, w, x, y, z>>, hard)
<1> DEFINE s == <<a, b, c, d, e>>
           t == <<v, w, x, y, z>>
<1>1. /\ s \in Seq(Code) /\ t \in Seq(Code) /\ Len(s) = 5 /\ Len(t) = 5
      /\ s[1] = a /\ s[2] = b /\ s[3] = c /\ s[4] = d /\ s[5] = e
      /\ t[1] = v /\ t[2] = w /\ t[3] = x /\ t[4] = y /\ t[5] = z
  BY DEF Steady
<1> HIDE DEF s, t
<1>2. \A i \in 1 .. 5 : i = 1 \/ i = 2 \/ i = 3 \/ i = 4 \/ i = 5
  OBVIOUS
<1>3. \A i \in 1 .. 5 : Steady(s[i], t[i], hard)
  BY <1>1, <1>2, Zenon
<1>4. AllSteady(s, t, hard)
  BY <1>1, <1>3 DEF AllSteady
<1> QED BY <1>4 DEF s, t

LEMMA SteadyJoin ==
    ASSUME NEW hard, NEW s, NEW t, NEW u, NEW v, AllSteady(s, t, hard), AllSteady(u, v, hard)
    PROVE  AllSteady(s \o u, t \o v, hard)
<1>1. /\ s \in Seq(Code) /\ t \in Seq(Code) /\ Len(s) = Len(t)
      /\ u \in Seq(Code) /\ v \in Seq(Code) /\ Len(u) = Len(v)
      /\ \A i \in 1 .. Len(s) : Steady(s[i], t[i], hard)
      /\ \A i \in 1 .. Len(u) : Steady(u[i], v[i], hard)
  BY DEF AllSteady
<1>2. /\ s \o u \in Seq(Code) /\ Len(s \o u) = Len(s) + Len(u)
      /\ \A i \in 1 .. Len(s) + Len(u) : (s \o u)[i] = IF i <= Len(s) THEN s[i] ELSE u[i - Len(s)]
  BY <1>1, ConcatProperties
<1>2a. /\ t \o v \in Seq(Code) /\ Len(t \o v) = Len(s) + Len(u)
      /\ \A i \in 1 .. Len(s) + Len(u) : (t \o v)[i] = IF i <= Len(s) THEN t[i] ELSE v[i - Len(s)]
  BY <1>1, ConcatProperties
<1>2b. Len(s) \in Nat /\ Len(u) \in Nat
  BY <1>1
<1>3. ASSUME NEW i \in 1 .. Len(s) + Len(u)
      PROVE  Steady((s \o u)[i], (t \o v)[i], hard)
  <2>1. CASE i <= Len(s)
    <3>1. i \in 1 .. Len(s)
      BY <1>2b, <2>1
    <3>2. (s \o u)[i] = s[i] /\ (t \o v)[i] = t[i]
      BY <1>2, <1>2a, <2>1
    <3> QED BY <1>1, <3>1, <3>2
  <2>2. CASE ~(i <= Len(s))
    <3>1. i - Len(s) \in 1 .. Len(u)
      BY <1>2b, <2>2
    <3>2. (s \o u)[i] = u[i - Len(s)] /\ (t \o v)[i] = v[i - Len(s)]
      BY <1>2, <1>2a, <2>2
    <3> QED BY <1>1, <3>1, <3>2
  <2> QED BY <2>1, <2>2
<1> QED BY <1>2, <1>2a, <1>3 DEF AllSteady

\* What a check reports that asks no request, or the same of both.
LEMMA UnlessSteady ==
    ASSUME NEW cond, NEW code \in Code, NEW hard
    PROVE  Steady(Unless(cond, code), Unless(cond, code), hard)
<1>1. \A x \in Code : Steady(x, x, hard)
  BY DEF Steady
<1>2. Unless(cond, code) \in Code
  BY DEF Unless, Code
<1> QED BY <1>1, <1>2

\* A call as it went, and as it would have gone without the outage.
Whole(ans) == [h \in Hops |-> Cleared(ans[h])]

Faithful(d, w, hard) ==
    /\ d.code = "gated" => w.code = "gated"
    /\ d.code = "ok" /\ hard => d.rows = w.rows

LEMMA DetailFaithful ==
    ASSUME NEW hard, NEW s, NEW t, AllSteady(s, t, hard), NEW rows, NEW whole,
           hard /\ Refusal(s) = "ok" => rows = whole
    PROVE  Faithful(Detail(Refusal(s), rows), Detail(Refusal(t), whole), hard)
<1>1. Steady(Refusal(s), Refusal(t), hard)
  BY RefusalSteady
<1> QED BY <1>1 DEF Faithful, Detail, Steady

LEMMA WholeFacts ==
    ASSUME NEW ans \in [Hops -> Answer], NEW h \in Hops
    PROVE  ans[h] \in Answer /\ Whole(ans)[h] = Cleared(ans[h])
BY DEF Whole

\* Each request of a call by its name.
LEMMA HopsSteady ==
    ASSUME NEW ans \in [Hops -> Answer], NEW hard
    PROVE  LET w == Whole(ans)
           IN  /\ Steady(Strict(ans.page), Strict(w.page), hard)
               /\ Steady(Lenient(ans.page), Lenient(w.page), hard)
               /\ Steady(Posted(ans.page), Posted(w.page), hard)
               /\ Steady(Strict(ans.list), Strict(w.list), hard)
               /\ Steady(Lenient(ans.list), Lenient(w.list), hard)
               /\ Steady(Posted(ans.list), Posted(w.list), hard)
               /\ Steady(Strict(ans.player), Strict(w.player), hard)
               /\ Steady(Lenient(ans.player), Lenient(w.player), hard)
               /\ Steady(Posted(ans.player), Posted(w.player), hard)
<1>1. "page" \in Hops /\ "list" \in Hops /\ "player" \in Hops
  BY DEF Hops
<1> QED BY <1>1, WholeFacts, HopSteady

\* The page of a title, and its element.
Opened(s, ans) == <<Lenient(ans.page), Unless(s.titled, "parse_failed")>>

LEMMA OpenedSteady ==
    ASSUME NEW s, NEW ans \in [Hops -> Answer], NEW hard
    PROVE  AllSteady(Opened(s, ans), Opened(s, Whole(ans)), hard)
<1>1. "parse_failed" \in Code
  BY DEF Code
<1> QED BY <1>1, HopsSteady, UnlessSteady, Steady2 DEF Opened

\* A request that was not out meets the same again.
LEMMA ClearedFacts ==
    ASSUME NEW ans \in [Hops -> Answer]
    PROVE  /\ ans.player \in {"page", "missing"} => Whole(ans).player = ans.player
           /\ ans.list \in {"page", "missing"} => Whole(ans).list = ans.list
           /\ ans.page \in {"page", "missing"} => Whole(ans).page = ans.page
BY DEF Whole, Cleared, Hops

\* A player that says a title is gone says so again; one that is out may.
LEMMA ProbeSteady ==
    ASSUME NEW s, NEW ans \in [Hops -> Answer], NEW hard, hard => ans.player \in {"page", "missing"}
    PROVE  Steady(Unless(ans.player # "page" \/ ~s.removed, "gated"),
                  Unless(Whole(ans).player # "page" \/ ~s.removed, "gated"), hard)
BY ClearedFacts DEF Steady, Unless, Code

LEMMA SerialnoFaithful ==
    ASSUME NEW s, NEW ans \in [Hops -> Answer], NEW hard
    PROVE  Faithful(SerialnoContent(s, ans), SerialnoContent(s, Whole(ans)), hard)
<1>1. "parse_failed" \in Code /\ "gated" \in Code
  BY DEF Code
<1>2. AllSteady(SerialnoPage(s, ans), SerialnoPage(s, Whole(ans)), hard)
  BY <1>1, HopsSteady, UnlessSteady, Steady4 DEF SerialnoPage
<1> QED BY <1>2, OpenedSteady, SteadyJoin, DetailFaithful DEF SerialnoContent, Opened

LEMMA KinovezhaFaithful ==
    ASSUME NEW s, NEW ans \in [Hops -> Answer], NEW hard
    PROVE  Faithful(KinovezhaContent(s, ans), KinovezhaContent(s, Whole(ans)), hard)
<1>1. "parse_failed" \in Code /\ "gated" \in Code
  BY DEF Code
<1> DEFINE series(a) == <<Lenient(a.player), Unless(s.payload = "list", "parse_failed")>>
<1>2. AllSteady(series(ans), series(Whole(ans)), hard)
  BY <1>1, HopsSteady, UnlessSteady, Steady2
<1>3. AllSteady(Opened(s, ans) \o series(ans), Opened(s, Whole(ans)) \o series(Whole(ans)), hard)
  BY <1>2, OpenedSteady, SteadyJoin
<1> QED BY <1>3, OpenedSteady, DetailFaithful DEF KinovezhaContent, Opened

LEMMA UaserialsproFaithful ==
    ASSUME NEW s, NEW ans \in [Hops -> Answer], NEW hard
    PROVE  Faithful(UaserialsproContent(s, ans), UaserialsproContent(s, Whole(ans)), hard)
<1>1. "parse_failed" \in Code /\ "gated" \in Code
  BY DEF Code
<1>2. AllSteady(UaserialsproPage(s, ans), UaserialsproPage(s, Whole(ans)), hard)
  BY <1>1, HopsSteady, UnlessSteady, Steady2 DEF UaserialsproPage
<1> QED BY <1>2, OpenedSteady, SteadyJoin, DetailFaithful DEF UaserialsproContent, Opened

LEMMA KinotronFaithful ==
    ASSUME NEW s, NEW ans \in [Hops -> Answer], NEW hard
    PROVE  Faithful(KinotronContent(s, ans), KinotronContent(s, Whole(ans)), hard)
<1>1. "parse_failed" \in Code /\ "gated" \in Code
  BY DEF Code
<1> DEFINE page(a) == <<Lenient(a.page), Unless(s.titled, "parse_failed"),
                      Unless(s.player \notin {"none", "youtube"}, "gated"), Lenient(a.player)>>
           found   == <<Unless(KinotronFiles(s) # <<>>, "gated")>>
<1>2. AllSteady(page(ans), page(Whole(ans)), hard)
  BY <1>1, HopsSteady, UnlessSteady, Steady4
<1>3. AllSteady(found, found, hard)
  BY <1>1, UnlessSteady, Steady1
<1>4. AllSteady(page(ans) \o found, page(Whole(ans)) \o found, hard)
  BY <1>2, <1>3, SteadyJoin
<1> QED BY <1>2, <1>4, DetailFaithful DEF KinotronContent

LEMMA KlontvFaithful ==
    ASSUME NEW s, NEW ans \in [Hops -> Answer], NEW hard,
           hard => ans.player \in {"page", "missing"}
    PROVE  Faithful(KlontvContent(s, ans), KlontvContent(s, Whole(ans)), hard)
<1>1. "parse_failed" \in Code /\ "gated" \in Code
  BY DEF Code
<1> DEFINE page(a) == <<Lenient(a.page), Unless(s.titled, "parse_failed"),
                      Unless(s.player # "none", "parse_failed")>>
           rows(a) == IF s.series \/ s.player = "serial" THEN KlontvSeasons(s, a) ELSE FilmRow(s.files, {})
<1>2. AllSteady(page(ans), page(Whole(ans)), hard)
  BY <1>1, HopsSteady, UnlessSteady, Steady3
<1>3. hard => rows(ans) = rows(Whole(ans))
  BY ClearedFacts DEF KlontvSeasons
<1> HIDE DEF rows
<1>4. Faithful(Detail(Refusal(page(ans)), rows(ans)), Detail(Refusal(page(Whole(ans))), rows(Whole(ans))), hard)
  BY <1>2, <1>3, DetailFaithful
<1> QED BY <1>4 DEF KlontvContent, rows

LEMMA EneyidaFaithful ==
    ASSUME NEW s, NEW ans \in [Hops -> Answer], NEW hard,
           hard => ans.player \in {"page", "missing"}
    PROVE  Faithful(EneyidaContent(s, ans), EneyidaContent(s, Whole(ans)), hard)
<1>1. "parse_failed" \in Code /\ "gated" \in Code
  BY DEF Code
<1> DEFINE codes(a) == <<Lenient(a.page), Unless(s.titled, "parse_failed"),
                       Unless(s.player # "none", "parse_failed"),
                       Unless(a.player # "page" \/ ~s.removed, "gated")>>
           rows(a)  == IF EneyidaSeasons(s, a) = {} /\ ~s.series THEN FilmRow(s.files, {}) ELSE EneyidaSeasons(s, a)
<1>2. Steady(Unless(ans.player # "page" \/ ~s.removed, "gated"),
             Unless(Whole(ans).player # "page" \/ ~s.removed, "gated"), hard)
  BY ProbeSteady
<1>3. AllSteady(codes(ans), codes(Whole(ans)), hard)
  BY <1>1, <1>2, HopsSteady, UnlessSteady, Steady4
<1>4. hard => rows(ans) = rows(Whole(ans))
  BY ClearedFacts DEF EneyidaSeasons
<1> HIDE DEF rows
<1>5. Faithful(Detail(Refusal(codes(ans)), rows(ans)), Detail(Refusal(codes(Whole(ans))), rows(Whole(ans))), hard)
  BY <1>3, <1>4, DetailFaithful
<1> QED BY <1>5 DEF EneyidaContent, rows

LEMMA AnimeonFaithful ==
    ASSUME NEW s, NEW ans \in [Hops -> Answer], NEW hard,
           hard => ans.list \in {"page", "missing"}
    PROVE  Faithful(AnimeonContent(s, ans), AnimeonContent(s, Whole(ans)), hard)
<1>1. "parse_failed" \in Code /\ "gated" \in Code
  BY DEF Code
<1>2. AllSteady(AnimeonTitle(s, ans), AnimeonTitle(s, Whole(ans)), hard)
  BY <1>1, HopsSteady, UnlessSteady, Steady4 DEF AnimeonTitle
<1>3. CASE ~s.series
  BY <1>2, <1>3, DetailFaithful DEF AnimeonContent, AnimeonFilm
<1>4. CASE s.series
  <2> DEFINE files(a) == AnimeonPairs(s, a)
             last(a)  == <<Unless(s.payload = "list", "parse_failed"),
                           Unless(files(a) # <<>>, IF a.list \in {"error", "down"}
                                                   THEN Strict(a.list) ELSE "parse_failed")>>
             codes(a) == AnimeonTitle(s, a) \o last(a)
             w == Whole(ans)
  <2>1. AnimeonContent(s, ans) = Detail(Refusal(codes(ans)), NumberRows(files(ans)))
    BY <1>4 DEF AnimeonContent, AnimeonEpisodes
  <2>2. AnimeonContent(s, w) = Detail(Refusal(codes(w)), NumberRows(files(w)))
    BY <1>4 DEF AnimeonContent, AnimeonEpisodes
  <2>3. CASE hard
    <3>1. w.list = ans.list /\ ans.list \notin {"error", "down"}
      BY <2>3, ClearedFacts
    <3>2. files(ans) = files(w)
      BY <3>1 DEF AnimeonPairs
    <3>3. last(ans) = last(w)
      BY <3>1, <3>2
    <3>4. AllSteady(last(ans), last(w), hard)
      <4>1. last(ans) = <<Unless(s.payload = "list", "parse_failed"), Unless(files(ans) # <<>>, "parse_failed")>>
        BY <3>1
      <4> HIDE DEF last, files
      <4> QED BY <1>1, <3>3, <4>1, UnlessSteady, Steady2
    <3> HIDE DEF last, files
    <3>5. AllSteady(codes(ans), codes(w), hard)
      BY <1>2, <3>4, SteadyJoin
    <3> HIDE DEF codes
    <3> QED BY <2>1, <2>2, <3>2, <3>5, DetailFaithful
  <2>4. CASE ~hard
    <3>1. ans.list \in Answer /\ Strict(ans.list) \in Code /\ Strict(ans.list) # "gated"
      <4>1. "list" \in Hops
        BY DEF Hops
      <4>2. ans.list \in Answer
        BY <4>1
      <4> QED BY <4>2 DEF Answer, Strict, Code
    <3>2. w.list \notin {"error", "down"}
      <4>1. "list" \in Hops
        BY DEF Hops
      <4> QED BY <4>1, WholeFacts DEF Cleared
    <3> DEFINE first == Unless(s.payload = "list", "parse_failed")
               second(a) == Unless(files(a) # <<>>, IF a.list \in {"error", "down"}
                                                     THEN Strict(a.list) ELSE "parse_failed")
    <3>3. /\ first \in Code \ {"gated"} /\ second(ans) \in Code \ {"gated"} /\ second(w) \in Code \ {"gated"}
      BY <3>1, <3>2 DEF Unless, Code
    <3>4. last(ans) = <<first, second(ans)>> /\ last(w) = <<first, second(w)>>
      OBVIOUS
    <3> HIDE DEF first, second
    <3>5. last(ans) \in Seq(Code \ {"gated"}) /\ last(w) \in Seq(Code \ {"gated"})
      BY <3>3, <3>4
    <3> HIDE DEF last, files
    <3>6. last(ans) \in Seq(Code) /\ last(w) \in Seq(Code)
      BY <3>5
    <3>7. AnimeonTitle(s, ans) \in Seq(Code) /\ AnimeonTitle(s, w) \in Seq(Code)
      BY <1>2 DEF AllSteady
    <3>8. Refusal(last(ans)) # "gated"
      BY <3>5, FirstRefusal
    <3>9. Refusal(codes(ans)) = "gated" => Refusal(codes(w)) = "gated"
      <4>1. Steady(Refusal(AnimeonTitle(s, ans)), Refusal(AnimeonTitle(s, w)), hard)
        BY <1>2, RefusalSteady
      <4>2. Refusal(codes(ans)) = "gated" => Refusal(AnimeonTitle(s, ans)) = "gated"
        BY <3>6, <3>7, <3>8, RefusalJoin
      <4>3. Refusal(AnimeonTitle(s, w)) = "gated" => Refusal(codes(w)) = "gated"
        BY <3>6, <3>7, RefusalJoin
      <4> QED BY <4>1, <4>2, <4>3 DEF Steady
    <3> HIDE DEF codes
    <3> QED BY <2>1, <2>2, <2>4, <3>9 DEF Faithful, Detail
  <2> QED BY <2>3, <2>4
<1> QED BY <1>3, <1>4

LEMMA AnimeuaFaithful ==
    ASSUME NEW s, NEW ans \in [Hops -> Answer], NEW hard
    PROVE  Faithful(AnimeuaContent(s, ans), AnimeuaContent(s, Whole(ans)), hard)
<1>1. "parse_failed" \in Code /\ "gated" \in Code /\ "not_found" \in Code
  BY DEF Code
<1>2. AllSteady(<<Lenient(ans.player)>>, <<Lenient(Whole(ans).player)>>, hard)
  BY HopsSteady, Steady1
<1>3. AllSteady(Opened(s, ans) \o <<Lenient(ans.player)>>, Opened(s, Whole(ans)) \o <<Lenient(Whole(ans).player)>>, hard)
  BY <1>2, OpenedSteady, SteadyJoin
<1> QED BY <1>3, OpenedSteady, DetailFaithful DEF AnimeuaContent, Opened

LEMMA UnimayFaithful ==
    ASSUME NEW s, NEW ans \in [Hops -> Answer], NEW hard
    PROVE  Faithful(UnimayContent(s, ans), UnimayContent(s, Whole(ans)), hard)
<1>1. "parse_failed" \in Code /\ "gated" \in Code /\ "not_found" \in Code
  BY DEF Code
<1>2. AllSteady(UnimayRelease(s, ans), UnimayRelease(s, Whole(ans)), hard)
  BY <1>1, HopsSteady, UnlessSteady, Steady2 DEF UnimayRelease
<1> QED BY <1>2, DetailFaithful DEF UnimayContent

LEMMA CoaninetFaithful ==
    ASSUME NEW s, NEW ans \in [Hops -> Answer], NEW hard
    PROVE  Faithful(CoaninetContent(s, ans), CoaninetContent(s, Whole(ans)), hard)
<1>1. "parse_failed" \in Code /\ "gated" \in Code /\ "not_found" \in Code
  BY DEF Code
<1>2. AllSteady(CoaninetSeason(s, ans), CoaninetSeason(s, Whole(ans)), hard)
  BY <1>1, HopsSteady, UnlessSteady, Steady3 DEF CoaninetSeason
<1> QED BY <1>2, DetailFaithful DEF CoaninetContent

LEMMA HentaiukrFaithful ==
    ASSUME NEW s, NEW ans \in [Hops -> Answer], NEW hard
    PROVE  Faithful(HentaiukrContent(s, ans), HentaiukrContent(s, Whole(ans)), hard)
<1>1. "parse_failed" \in Code /\ "gated" \in Code /\ "not_found" \in Code
  BY DEF Code
<1> DEFINE rest(a) == <<Lenient(a.page), Unless(s.titled, "parse_failed"), Posted(a.player)>>
<1>2. AllSteady(HentaiukrTitle(s, ans), HentaiukrTitle(s, Whole(ans)), hard)
  BY <1>1, HopsSteady, UnlessSteady, Steady2 DEF HentaiukrTitle
<1>3. AllSteady(rest(ans), rest(Whole(ans)), hard)
  BY <1>1, HopsSteady, UnlessSteady, Steady3
<1>4. AllSteady(HentaiukrTitle(s, ans) \o rest(ans), HentaiukrTitle(s, Whole(ans)) \o rest(Whole(ans)), hard)
  BY <1>2, <1>3, SteadyJoin
<1> QED BY <1>4, DetailFaithful DEF HentaiukrContent

LEMMA CikavaFaithful ==
    ASSUME NEW s, NEW ans \in [Hops -> Answer], NEW hard,
           hard => ans.player \in {"page", "missing"}
    PROVE  Faithful(CikavaContent(s, ans), CikavaContent(s, Whole(ans)), hard)
<1>1. "parse_failed" \in Code /\ "gated" \in Code /\ "not_found" \in Code
  BY DEF Code
<1>2. Steady(CikavaProbe(s, ans), CikavaProbe(s, Whole(ans)), hard)
  BY ProbeSteady DEF CikavaProbe
<1>3. Steady(CikavaPlayer(s), CikavaPlayer(s), hard)
  BY <1>1, UnlessSteady DEF CikavaPlayer
<1> DEFINE codes(a) == <<Lenient(a.page), Unless(s.titled, "parse_failed"), CikavaPlayer(s), CikavaProbe(s, a)>>
<1>4. AllSteady(codes(ans), codes(Whole(ans)), hard)
  BY <1>1, <1>2, <1>3, HopsSteady, UnlessSteady, Steady4
<1> QED BY <1>4, DetailFaithful DEF CikavaContent

LEMMA UfdubFaithful ==
    ASSUME NEW s, NEW ans \in [Hops -> Answer], NEW hard
    PROVE  Faithful(UfdubContent(s, ans), UfdubContent(s, Whole(ans)), hard)
<1>1. "parse_failed" \in Code /\ "gated" \in Code /\ "not_found" \in Code
  BY DEF Code
<1> DEFINE codes(a) == <<Lenient(a.page), Unless(s.titled, "parse_failed"),
                       Unless(s.player # "none", "gated"), Lenient(a.player), Unless(s.files # <<>>, "gated")>>
<1>2. AllSteady(codes(ans), codes(Whole(ans)), hard)
  BY <1>1, HopsSteady, UnlessSteady, Steady5
<1> QED BY <1>2, DetailFaithful DEF UfdubContent

LEMMA DoramyFaithful ==
    ASSUME NEW s, NEW ans \in [Hops -> Answer], NEW hard
    PROVE  Faithful(DoramyContent(s, ans), DoramyContent(s, Whole(ans)), hard)
<1>1. "parse_failed" \in Code /\ "gated" \in Code /\ "not_found" \in Code
  BY DEF Code
<1> DEFINE codes(a) == <<Lenient(a.page), Unless(s.titled, "parse_failed"),
                       Unless(s.player # "none", "gated")>>
<1>2. AllSteady(codes(ans), codes(Whole(ans)), hard)
  BY <1>1, HopsSteady, UnlessSteady, Steady3
<1> QED BY <1>2, DetailFaithful DEF DoramyContent

LEMMA BambooFaithful ==
    ASSUME NEW s, NEW ans \in [Hops -> Answer], NEW hard
    PROVE  Faithful(BambooContent(s, ans), BambooContent(s, Whole(ans)), hard)
<1>1. "parse_failed" \in Code /\ "gated" \in Code /\ "not_found" \in Code
  BY DEF Code
<1> DEFINE sponsored == <<Unless({f.d : f \in ToSet(s.files)} # {Sponsor}, "gated")>>
<1>2. AllSteady(BambooGate(s, ans), BambooGate(s, Whole(ans)), hard)
  BY <1>1, HopsSteady, UnlessSteady, Steady3 DEF BambooGate
<1>3. AllSteady(sponsored, sponsored, hard)
  BY <1>1, UnlessSteady, Steady1
<1>4. AllSteady(Opened(s, ans) \o BambooGate(s, ans), Opened(s, Whole(ans)) \o BambooGate(s, Whole(ans)), hard)
  BY <1>2, OpenedSteady, SteadyJoin
<1>5. AllSteady(Opened(s, ans) \o BambooGate(s, ans) \o sponsored,
                Opened(s, Whole(ans)) \o BambooGate(s, Whole(ans)) \o sponsored, hard)
  BY <1>3, <1>4, SteadyJoin
<1> QED BY <1>5, DetailFaithful DEF BambooContent, Opened

LEMMA SimpsonsFaithful ==
    ASSUME NEW s, NEW ans \in [Hops -> Answer], NEW hard,
           hard => ans.list \in {"page", "missing"}
    PROVE  Faithful(SimpsonsContent(s, ans), SimpsonsContent(s, Whole(ans)), hard)
<1>1. "parse_failed" \in Code /\ "gated" \in Code /\ "not_found" \in Code
  BY DEF Code
<1> DEFINE codes(a) == <<SimpsonsOpened(a), Unless(s.titled, "parse_failed")>>
           seasons(a) == IF s.shape = "season" THEN SimpsonsShow(s, a) ELSE {f.s : f \in ToSet(s.files)}
           rows(a) == {Row(<<f.s, f.e>>, f, {}) : f \in {g \in ToSet(s.files) : g.s \in seasons(a)}}
<1>2. Steady(SimpsonsOpened(ans), SimpsonsOpened(Whole(ans)), hard)
  <2>1. "show" \in Hops /\ "page" \in Hops
    BY DEF Hops
  <2>2. CASE ans.page = "missing" /\ ans.show = "page"
    <3>1. Whole(ans).page = "missing" /\ Whole(ans).show = "page"
      BY <2>1, <2>2, WholeFacts DEF Cleared
    <3> QED BY <2>2, <3>1 DEF SimpsonsOpened, Steady, Code
  <2>3. CASE ~(ans.page = "missing" /\ ans.show = "page")
    <3>1. SimpsonsOpened(ans) = Lenient(ans.page)
      BY <2>3 DEF SimpsonsOpened
    <3>2. Steady(Lenient(ans.page), Lenient(Whole(ans).page), hard)
      BY HopsSteady
    <3>3. SimpsonsOpened(Whole(ans)) \in {"ok", Lenient(Whole(ans).page)}
      BY DEF SimpsonsOpened
    <3>4. Lenient(ans.page) # "gated"
      BY DEF Lenient
    <3> QED BY <3>1, <3>2, <3>3, <3>4 DEF Steady, Code
  <2> QED BY <2>2, <2>3
<1>3. AllSteady(codes(ans), codes(Whole(ans)), hard)
  BY <1>1, <1>2, UnlessSteady, Steady2
<1>4. hard => seasons(ans) = seasons(Whole(ans))
  BY ClearedFacts DEF SimpsonsShow
<1>5. Faithful(Detail(Refusal(codes(ans)), rows(ans)), Detail(Refusal(codes(Whole(ans))), rows(Whole(ans))), hard)
  <2> HIDE DEF codes
  <2>1. hard => rows(ans) = rows(Whole(ans))
    BY <1>4
  <2> HIDE DEF rows
  <2> QED BY <1>3, <2>1, DetailFaithful
<1> QED BY <1>5 DEF SimpsonsContent

LEMMA UakinoFaithful ==
    ASSUME NEW s, NEW ans \in [Hops -> Answer], NEW hard
    PROVE  Faithful(UakinoContent(s, ans), UakinoContent(s, Whole(ans)), hard)
<1>1. "parse_failed" \in Code /\ "gated" \in Code /\ "not_found" \in Code
  BY DEF Code
<1> DEFINE page(a) == <<Posted(a.page), Unless(s.titled, "parse_failed")>>
           found == <<Unless(UakinoItems(s) # <<>> \/ s.player = "vod", "gated")>>
<1>2. AllSteady(page(ans), page(Whole(ans)), hard)
  BY <1>1, HopsSteady, UnlessSteady, Steady2
<1>3. AllSteady(UakinoPlaylist(s, ans), UakinoPlaylist(s, Whole(ans)), hard)
  BY <1>1, HopsSteady, UnlessSteady, Steady2 DEF UakinoPlaylist
<1>4. AllSteady(found, found, hard)
  BY <1>1, UnlessSteady, Steady1
<1>5. AllSteady(page(ans) \o UakinoPlaylist(s, ans), page(Whole(ans)) \o UakinoPlaylist(s, Whole(ans)), hard)
  BY <1>2, <1>3, SteadyJoin
<1>6. AllSteady(page(ans) \o UakinoPlaylist(s, ans) \o found,
                page(Whole(ans)) \o UakinoPlaylist(s, Whole(ans)) \o found, hard)
  BY <1>4, <1>5, SteadyJoin
<1> QED BY <1>6, DetailFaithful DEF UakinoContent

LEMMA UaflixFaithful ==
    ASSUME NEW s, NEW ans \in [Hops -> Answer],
           ans.player \in {"page", "missing"}
    PROVE  Faithful(UaflixContent(s, ans), UaflixContent(s, Whole(ans)), TRUE)
<1>1. "parse_failed" \in Code /\ "gated" \in Code /\ "not_found" \in Code
  BY DEF Code
<1> DEFINE rows == UaflixSeasons(s, ans)
           codes(a) == <<Lenient(a.page), Unless(s.titled, "parse_failed"),
                         Unless(rows # {} \/ s.player = "vod", "gated")>>
<1>2. UaflixSeasons(s, Whole(ans)) = rows
  BY ClearedFacts DEF UaflixSeasons, UaflixProbe
<1>3. AllSteady(codes(ans), codes(Whole(ans)), TRUE)
  <2> HIDE DEF rows
  <2> QED BY <1>1, HopsSteady, UnlessSteady, Steady3
<1>4. UaflixContent(s, ans) = Detail(Refusal(codes(ans)), rows)
  BY DEF UaflixContent
<1>5. UaflixContent(s, Whole(ans)) = Detail(Refusal(codes(Whole(ans))), rows)
  BY <1>2 DEF UaflixContent
<1> HIDE DEF rows, codes
<1> QED BY <1>3, <1>4, <1>5, DetailFaithful

LEMMA AnitubeFaithful ==
    ASSUME NEW s, NEW ans \in [Hops -> Answer], NEW hard,
           hard => ans.list \in {"page", "missing"}
    PROVE  Faithful(AnitubeContent(s, ans), AnitubeContent(s, Whole(ans)), hard)
<1>1. "parse_failed" \in Code /\ "gated" \in Code /\ "not_found" \in Code
  BY DEF Code
<1> DEFINE code(a) == Refusal(AnitubePlaylist(s, a))
           last(a) == <<Unless(code(a) \notin {"unreachable", "upstream_unreachable"}, code(a))>>
           page(a) == <<Strict(a.page), Unless(s.titled, "parse_failed")>>
           rows(a) == IF code(a) = "ok" THEN AnitubeSeasons(s) ELSE {}
           w == Whole(ans)
<1>2. AllSteady(AnitubePlaylist(s, ans), AnitubePlaylist(s, w), hard)
  BY <1>1, HopsSteady, UnlessSteady, Steady4 DEF AnitubePlaylist
<1>3. code(ans) \in Code
  BY <1>2, RefusalSteady DEF Steady
<1>4. code(w) \notin {"unreachable", "upstream_unreachable"}
  <2>1. "page" \in Hops /\ "list" \in Hops
    BY DEF Hops
  <2>2. w.page \in {"page", "missing"} /\ w.list \in {"page", "missing"}
    BY <2>1, WholeFacts DEF Cleared
  <2> DEFINE quiet == Code \ {"unreachable", "upstream_unreachable"}
             c1 == Strict(w.page)
             c2 == Unless(s.player # "none", "parse_failed")
             c3 == Lenient(w.list)
             c4 == Unless(s.payload = "list", "parse_failed")
  <2>3. c1 \in quiet /\ c2 \in quiet /\ c3 \in quiet /\ c4 \in quiet
    BY <2>2 DEF Strict, Lenient, Unless, Code
  <2>4. AnitubePlaylist(s, w) = <<c1, c2, c3, c4>>
    BY DEF AnitubePlaylist
  <2> HIDE DEF c1, c2, c3, c4, quiet
  <2>5. AnitubePlaylist(s, w) \in Seq(quiet)
    BY <2>3, <2>4
  <2>6. code(w) = "ok" \/ code(w) \in quiet
    BY <2>5, FirstRefusal
  <2> QED BY <2>6 DEF quiet
<1> HIDE DEF code
<1>5. AllSteady(last(ans), last(w), hard)
  <2>1. Steady(Unless(code(ans) \notin {"unreachable", "upstream_unreachable"}, code(ans)), "ok", hard)
    BY <1>3 DEF Unless, Steady, Code
  <2>2. Unless(code(w) \notin {"unreachable", "upstream_unreachable"}, code(w)) = "ok"
    BY <1>4 DEF Unless
  <2> QED BY <2>1, <2>2, Steady1
<1>6. AllSteady(page(ans) \o last(ans), page(w) \o last(w), hard)
  <2>1. AllSteady(page(ans), page(w), hard)
    BY <1>1, HopsSteady, UnlessSteady, Steady2
  <2> HIDE DEF page, last
  <2> QED BY <1>5, <2>1, SteadyJoin
<1>7. ASSUME hard, Refusal(page(ans) \o last(ans)) = "ok"
      PROVE  rows(ans) = rows(w)
  <2>1. page(ans) \in Seq(Code) /\ last(ans) \in Seq(Code)
    <3>1. Strict(ans.page) \in Code /\ Unless(s.titled, "parse_failed") \in Code
      BY <1>1, HopsSteady, UnlessSteady DEF Steady
    <3>2. Unless(code(ans) \notin {"unreachable", "upstream_unreachable"}, code(ans)) \in Code
      BY <1>3 DEF Unless, Code
    <3> QED BY <3>1, <3>2
  <2>2. Refusal(page(ans)) = "ok"
    <3> HIDE DEF page, last
    <3> QED BY <1>7, <2>1, RefusalJoin
  <2>3. Strict(ans.page) = "ok"
    <3> DEFINE p == page(ans)
    <3>1. p \in Seq(Code) /\ Len(p) = 2 /\ p[1] = Strict(ans.page)
      BY <2>1
    <3> HIDE DEF p
    <3>2. Refusal(p) = "ok"
      BY <2>2 DEF p
    <3>3. \A i \in 1 .. Len(p) : p[i] = "ok"
      BY <3>1, <3>2, FirstRefusal
    <3>4. 1 \in 1 .. Len(p)
      BY <3>1
    <3> QED BY <3>1, <3>3, <3>4
  <2>4. ans.page = "page"
    <3>1. ans.page \in Answer
      BY DEF Hops
    <3> QED BY <2>3, <3>1 DEF Strict, Answer
  <2>5. w.page = ans.page /\ w.list = ans.list
    BY <1>7, <2>4, ClearedFacts
  <2>6. code(ans) = code(w)
    BY <2>5 DEF AnitubePlaylist, code
  <2> QED BY <2>6
<1>8. AnitubeContent(s, ans) = Detail(Refusal(page(ans) \o last(ans)), rows(ans))
  BY DEF AnitubeContent, code
<1>9. AnitubeContent(s, w) = Detail(Refusal(page(w) \o last(w)), rows(w))
  BY DEF AnitubeContent, code
<1> HIDE DEF page, last, rows
<1> QED BY <1>6, <1>7, <1>8, <1>9, DetailFaithful

\* A request that no outage met was answered or refused.
LEMMA OutsideOutage ==
    ASSUME NEW ans \in [Hops -> Answer], NEW h \in Hops, h \notin Outage(ans)
    PROVE  ans[h] \in {"page", "missing"}
BY DEF Outage, Answer

\* A listing made during an outage and let through is the listing, unless the
\* outage met a request whose failure only shortens it.
LEMMA CallFaithful ==
    ASSUME NEW l \in Lanes, NEW s, NEW ans \in [Hops -> Answer]
    PROVE  l # "uaflix" \/ Outage(ans) \cap SoftHops(l) = {} =>
                 Faithful(Content(l, s, ans), Content(l, s, Whole(ans)),
                          Outage(ans) \cap SoftHops(l) = {})
<1> DEFINE hard == Outage(ans) \cap SoftHops(l) = {}
<1>1. "player" \in SoftHops(l) /\ hard => ans.player \in {"page", "missing"}
  BY OutsideOutage DEF Hops
<1>2. "list" \in SoftHops(l) /\ hard => ans.list \in {"page", "missing"}
  BY OutsideOutage DEF Hops
<1>3. CASE l = "serialno"
  <2>1. Content(l, s, ans) = SerialnoContent(s, ans) /\ Content(l, s, Whole(ans)) = SerialnoContent(s, Whole(ans))
    BY <1>3 DEF Content
  <2> HIDE DEF hard
  <2>2. Faithful(SerialnoContent(s, ans), SerialnoContent(s, Whole(ans)), hard)
    BY SerialnoFaithful
  <2> QED BY <2>1, <2>2 DEF hard
<1>4. CASE l = "kinovezha"
  <2>1. Content(l, s, ans) = KinovezhaContent(s, ans) /\ Content(l, s, Whole(ans)) = KinovezhaContent(s, Whole(ans))
    BY <1>4 DEF Content
  <2> HIDE DEF hard
  <2>2. Faithful(KinovezhaContent(s, ans), KinovezhaContent(s, Whole(ans)), hard)
    BY KinovezhaFaithful
  <2> QED BY <2>1, <2>2 DEF hard
<1>5. CASE l = "uaserialspro"
  <2>1. Content(l, s, ans) = UaserialsproContent(s, ans) /\ Content(l, s, Whole(ans)) = UaserialsproContent(s, Whole(ans))
    BY <1>5 DEF Content
  <2> HIDE DEF hard
  <2>2. Faithful(UaserialsproContent(s, ans), UaserialsproContent(s, Whole(ans)), hard)
    BY UaserialsproFaithful
  <2> QED BY <2>1, <2>2 DEF hard
<1>6. CASE l = "kinotron"
  <2>1. Content(l, s, ans) = KinotronContent(s, ans) /\ Content(l, s, Whole(ans)) = KinotronContent(s, Whole(ans))
    BY <1>6 DEF Content
  <2> HIDE DEF hard
  <2>2. Faithful(KinotronContent(s, ans), KinotronContent(s, Whole(ans)), hard)
    BY KinotronFaithful
  <2> QED BY <2>1, <2>2 DEF hard
<1>7. CASE l = "klontv"
  <2>1. Content(l, s, ans) = KlontvContent(s, ans) /\ Content(l, s, Whole(ans)) = KlontvContent(s, Whole(ans))
    BY <1>7 DEF Content
  <2>2. hard => ans.player \in {"page", "missing"}
    BY <1>1, <1>7 DEF SoftHops
  <2> HIDE DEF hard
  <2>3. Faithful(KlontvContent(s, ans), KlontvContent(s, Whole(ans)), hard)
    BY <2>2, KlontvFaithful
  <2> QED BY <2>1, <2>3 DEF hard
<1>8. CASE l = "eneyida"
  <2>1. Content(l, s, ans) = EneyidaContent(s, ans) /\ Content(l, s, Whole(ans)) = EneyidaContent(s, Whole(ans))
    BY <1>8 DEF Content
  <2>2. hard => ans.player \in {"page", "missing"}
    BY <1>1, <1>8 DEF SoftHops
  <2> HIDE DEF hard
  <2>3. Faithful(EneyidaContent(s, ans), EneyidaContent(s, Whole(ans)), hard)
    BY <2>2, EneyidaFaithful
  <2> QED BY <2>1, <2>3 DEF hard
<1>9. CASE l = "uaflix"
  <2>1. Content(l, s, ans) = UaflixContent(s, ans) /\ Content(l, s, Whole(ans)) = UaflixContent(s, Whole(ans))
    BY <1>9 DEF Content
  <2>2. hard => ans.player \in {"page", "missing"}
    BY <1>1, <1>9 DEF SoftHops
  <2>3. ASSUME hard PROVE Faithful(UaflixContent(s, ans), UaflixContent(s, Whole(ans)), hard)
    <3>1. hard = TRUE
      BY <2>3
    <3> HIDE DEF hard
    <3> QED BY <2>2, <2>3, <3>1, UaflixFaithful
  <2> QED BY <1>9, <2>1, <2>3
<1>10. CASE l = "animeon"
  <2>1. Content(l, s, ans) = AnimeonContent(s, ans) /\ Content(l, s, Whole(ans)) = AnimeonContent(s, Whole(ans))
    BY <1>10 DEF Content
  <2>2. hard => ans.list \in {"page", "missing"}
    BY <1>2, <1>10 DEF SoftHops
  <2> HIDE DEF hard
  <2>3. Faithful(AnimeonContent(s, ans), AnimeonContent(s, Whole(ans)), hard)
    BY <2>2, AnimeonFaithful
  <2> QED BY <2>1, <2>3 DEF hard
<1>11. CASE l = "anitubeinua"
  <2>1. Content(l, s, ans) = AnitubeContent(s, ans) /\ Content(l, s, Whole(ans)) = AnitubeContent(s, Whole(ans))
    BY <1>11 DEF Content
  <2>2. hard => ans.list \in {"page", "missing"}
    BY <1>2, <1>11 DEF SoftHops
  <2> HIDE DEF hard
  <2>3. Faithful(AnitubeContent(s, ans), AnitubeContent(s, Whole(ans)), hard)
    BY <2>2, AnitubeFaithful
  <2> QED BY <2>1, <2>3 DEF hard
<1>12. CASE l = "animeua"
  <2>1. Content(l, s, ans) = AnimeuaContent(s, ans) /\ Content(l, s, Whole(ans)) = AnimeuaContent(s, Whole(ans))
    BY <1>12 DEF Content
  <2> HIDE DEF hard
  <2>2. Faithful(AnimeuaContent(s, ans), AnimeuaContent(s, Whole(ans)), hard)
    BY AnimeuaFaithful
  <2> QED BY <2>1, <2>2 DEF hard
<1>13. CASE l = "unimay"
  <2>1. Content(l, s, ans) = UnimayContent(s, ans) /\ Content(l, s, Whole(ans)) = UnimayContent(s, Whole(ans))
    BY <1>13 DEF Content
  <2> HIDE DEF hard
  <2>2. Faithful(UnimayContent(s, ans), UnimayContent(s, Whole(ans)), hard)
    BY UnimayFaithful
  <2> QED BY <2>1, <2>2 DEF hard
<1>14. CASE l = "coaninet"
  <2>1. Content(l, s, ans) = CoaninetContent(s, ans) /\ Content(l, s, Whole(ans)) = CoaninetContent(s, Whole(ans))
    BY <1>14 DEF Content
  <2> HIDE DEF hard
  <2>2. Faithful(CoaninetContent(s, ans), CoaninetContent(s, Whole(ans)), hard)
    BY CoaninetFaithful
  <2> QED BY <2>1, <2>2 DEF hard
<1>15. CASE l = "hentaiukr"
  <2>1. Content(l, s, ans) = HentaiukrContent(s, ans) /\ Content(l, s, Whole(ans)) = HentaiukrContent(s, Whole(ans))
    BY <1>15 DEF Content
  <2> HIDE DEF hard
  <2>2. Faithful(HentaiukrContent(s, ans), HentaiukrContent(s, Whole(ans)), hard)
    BY HentaiukrFaithful
  <2> QED BY <2>1, <2>2 DEF hard
<1>16. CASE l = "cikavaideya"
  <2>1. Content(l, s, ans) = CikavaContent(s, ans) /\ Content(l, s, Whole(ans)) = CikavaContent(s, Whole(ans))
    BY <1>16 DEF Content
  <2>2. hard => ans.player \in {"page", "missing"}
    BY <1>1, <1>16 DEF SoftHops
  <2> HIDE DEF hard
  <2>3. Faithful(CikavaContent(s, ans), CikavaContent(s, Whole(ans)), hard)
    BY <2>2, CikavaFaithful
  <2> QED BY <2>1, <2>3 DEF hard
<1>17. CASE l = "ufdub"
  <2>1. Content(l, s, ans) = UfdubContent(s, ans) /\ Content(l, s, Whole(ans)) = UfdubContent(s, Whole(ans))
    BY <1>17 DEF Content
  <2> HIDE DEF hard
  <2>2. Faithful(UfdubContent(s, ans), UfdubContent(s, Whole(ans)), hard)
    BY UfdubFaithful
  <2> QED BY <2>1, <2>2 DEF hard
<1>18. CASE l = "doramyworld"
  <2>1. Content(l, s, ans) = DoramyContent(s, ans) /\ Content(l, s, Whole(ans)) = DoramyContent(s, Whole(ans))
    BY <1>18 DEF Content
  <2> HIDE DEF hard
  <2>2. Faithful(DoramyContent(s, ans), DoramyContent(s, Whole(ans)), hard)
    BY DoramyFaithful
  <2> QED BY <2>1, <2>2 DEF hard
<1>19. CASE l = "bambooua"
  <2>1. Content(l, s, ans) = BambooContent(s, ans) /\ Content(l, s, Whole(ans)) = BambooContent(s, Whole(ans))
    BY <1>19 DEF Content
  <2> HIDE DEF hard
  <2>2. Faithful(BambooContent(s, ans), BambooContent(s, Whole(ans)), hard)
    BY BambooFaithful
  <2> QED BY <2>1, <2>2 DEF hard
<1>20. CASE l = "simpsonsuatv"
  <2>1. Content(l, s, ans) = SimpsonsContent(s, ans) /\ Content(l, s, Whole(ans)) = SimpsonsContent(s, Whole(ans))
    BY <1>20 DEF Content
  <2>2. hard => ans.list \in {"page", "missing"}
    BY <1>2, <1>20 DEF SoftHops
  <2> HIDE DEF hard
  <2>3. Faithful(SimpsonsContent(s, ans), SimpsonsContent(s, Whole(ans)), hard)
    BY <2>2, SimpsonsFaithful
  <2> QED BY <2>1, <2>3 DEF hard
<1>21. CASE l = "uakino"
  <2>1. Content(l, s, ans) = UakinoContent(s, ans) /\ Content(l, s, Whole(ans)) = UakinoContent(s, Whole(ans))
    BY <1>21 DEF Content
  <2> HIDE DEF hard
  <2>2. Faithful(UakinoContent(s, ans), UakinoContent(s, Whole(ans)), hard)
    BY UakinoFaithful
  <2> QED BY <2>1, <2>2 DEF hard
<1> QED BY <1>3, <1>4, <1>5, <1>6, <1>7, <1>8, <1>9, <1>10, <1>11, <1>12, <1>13, <1>14, <1>15, <1>16, <1>17, <1>18, <1>19, <1>20, <1>21 DEF Lanes

\* A card of an address that is told apart by nothing is the title's own.
LEMMA CardKinds ==
    ASSUME NEW s
    PROVE  /\ Card(s, <<>>) \in {"own", "none"}
           /\ s.href # "upper" =>
                 /\ Card(s, [upper |-> "refused"]) \in {"own", "none"}
                 /\ Card(s, [upper |-> "refused", aside |-> "none"]) \in {"own", "none"}
                 /\ Card(s, [upper |-> "other", hyphen |-> "none"]) \in {"own", "none"}
           /\ s.href # "hyphen" => Card(s, [upper |-> "none", hyphen |-> "other"]) \in {"own", "none"}
           /\ Card(s, [upper |-> "none"]) \in {"own", "none"}
           /\ Card(s, [upper |-> "none", hyphen |-> "none"]) \in {"own", "none"}
           /\ Card(s, [upper |-> "none", aside |-> "none"]) \in {"own", "none"}
BY DEF Card

LEMMA ShownKinds ==
    ASSUME NEW codes, NEW card \in {"own", "none"}
    PROVE  Shown(codes, card).cards \subseteq {"own"}
BY DEF Shown

\* A title with an address of the kind its provider reads is shown by its own
\* card, whichever door shows it.
LEMMA DoorsShowTheirOwn ==
    ASSUME NEW l \in Lanes, NEW s, NEW ans, NEW section \in BOOLEAN, ~CardsMislead(l, s)
    PROVE  /\ Search(l, s, ans).cards \subseteq {"own"}
           /\ Browse(l, s, section, ans).cards \subseteq {"own"}
<1>1. CASE l = "serialno"
  <2>1. Search(l, s, ans) = SerialnoSearch(s, ans) /\ Browse(l, s, section, ans) = SerialnoBrowse(s, section, ans)
    BY <1>1 DEF Search, Browse
  <2>2. SerialnoCard(s) \in {"own", "none"}
    BY <1>1, CardKinds DEF SerialnoCard, CardsMislead, CaseBlind
  <2>3. SerialnoSearch(s, ans).cards \subseteq {"own"} /\ SerialnoBrowse(s, section, ans).cards \subseteq {"own"}
    BY <2>2, ShownKinds DEF SerialnoSearch, SerialnoBrowse
  <2> QED BY <2>1, <2>3
<1>2. CASE l = "kinovezha"
  <2>1. Search(l, s, ans) = KinovezhaSearch(s, ans) /\ Browse(l, s, section, ans) = KinovezhaBrowse(s, section, ans)
    BY <1>2 DEF Search, Browse
  <2>2. KinovezhaCard(s) \in {"own", "none"}
    BY <1>2, CardKinds DEF KinovezhaCard, CardsMislead, CaseBlind
  <2>3. KinovezhaSearch(s, ans).cards \subseteq {"own"} /\ KinovezhaBrowse(s, section, ans).cards \subseteq {"own"}
    BY <2>2, ShownKinds DEF KinovezhaSearch, KinovezhaBrowse
  <2> QED BY <2>1, <2>3
<1>3. CASE l = "uaserialspro"
  <2>1. Search(l, s, ans) = UaserialsproSearch(s, ans) /\ Browse(l, s, section, ans) = UaserialsproBrowse(s, section, ans)
    BY <1>3 DEF Search, Browse
  <2>2. UaserialsproCard(s) \in {"own", "none"} /\ UaserialsproSearchCard(s) \in {"own", "none"}
    BY <1>3, CardKinds DEF UaserialsproCard, CardsMislead, CaseBlind, UaserialsproSearchCard
  <2>3. UaserialsproSearch(s, ans).cards \subseteq {"own"} /\ UaserialsproBrowse(s, section, ans).cards \subseteq {"own"}
    BY <2>2, ShownKinds DEF UaserialsproSearch, UaserialsproBrowse
  <2> QED BY <2>1, <2>3
<1>4. CASE l = "kinotron"
  <2>1. Search(l, s, ans) = KinotronSearch(s, ans) /\ Browse(l, s, section, ans) = KinotronBrowse(s, section, ans)
    BY <1>4 DEF Search, Browse
  <2>2. KinotronCard(s) \in {"own", "none"}
    BY <1>4, CardKinds DEF KinotronCard, CardsMislead, CaseBlind
  <2>3. KinotronSearch(s, ans).cards \subseteq {"own"} /\ KinotronBrowse(s, section, ans).cards \subseteq {"own"}
    BY <2>2, ShownKinds DEF KinotronSearch, KinotronBrowse
  <2> QED BY <2>1, <2>3
<1>5. CASE l = "klontv"
  <2>1. Search(l, s, ans) = KlontvSearch(s, ans) /\ Browse(l, s, section, ans) = KlontvBrowse(s, section, ans)
    BY <1>5 DEF Search, Browse
  <2>2. KlontvCard(s) \in {"own", "none"}
    BY <1>5, CardKinds DEF KlontvCard, CardsMislead, CaseBlind
  <2>3. KlontvSearch(s, ans).cards \subseteq {"own"} /\ KlontvBrowse(s, section, ans).cards \subseteq {"own"}
    BY <2>2, ShownKinds DEF KlontvSearch, KlontvBrowse
  <2> QED BY <2>1, <2>3
<1>6. CASE l = "eneyida"
  <2>1. Search(l, s, ans) = EneyidaSearch(s, ans) /\ Browse(l, s, section, ans) = EneyidaBrowse(s, section, ans)
    BY <1>6 DEF Search, Browse
  <2>2. EneyidaCard(s, s.label) \in {"own", "none"} /\ EneyidaCard(s, TRUE) \in {"own", "none"}
    BY <1>6, CardKinds DEF EneyidaCard, CardsMislead
  <2>3. EneyidaSearch(s, ans).cards \subseteq {"own"} /\ EneyidaBrowse(s, section, ans).cards \subseteq {"own"}
    BY <2>2, ShownKinds DEF EneyidaSearch, EneyidaBrowse
  <2> QED BY <2>1, <2>3
<1>7. CASE l = "uaflix"
  <2>1. Search(l, s, ans) = UaflixSearch(s, ans) /\ Browse(l, s, section, ans) = UaflixBrowse(s, section, ans)
    BY <1>7 DEF Search, Browse
  <2>2. UaflixCard(s) \in {"own", "none"} /\ UaflixSearchCard(s) \in {"own", "none"}
    BY <1>7, CardKinds DEF UaflixCard, CardsMislead, CaseBlind, UaflixSearchCard, Titled
  <2>3. UaflixSearch(s, ans).cards \subseteq {"own"} /\ UaflixBrowse(s, section, ans).cards \subseteq {"own"}
    BY <2>2, ShownKinds DEF UaflixSearch, UaflixBrowse
  <2> QED BY <2>1, <2>3
<1>8. CASE l = "animeon"
  <2>1. Search(l, s, ans) = AnimeonSearch(s, ans) /\ Browse(l, s, section, ans) = AnimeonBrowse(s, section, ans)
    BY <1>8 DEF Search, Browse
  <2>2. AnimeonCard(s) \in {"own", "none"} /\ Titled(s, AnimeonCard(s)) \in {"own", "none"}
    BY <1>8, CardKinds DEF AnimeonCard, CardsMislead, CaseBlind, Titled
  <2>3. AnimeonSearch(s, ans).cards \subseteq {"own"} /\ AnimeonBrowse(s, section, ans).cards \subseteq {"own"}
    BY <2>2, ShownKinds DEF AnimeonSearch, AnimeonBrowse
  <2> QED BY <2>1, <2>3
<1>9. CASE l = "anitubeinua"
  <2>1. Search(l, s, ans) = AnitubeSearch(s, ans) /\ Browse(l, s, section, ans) = AnitubeBrowse(s, section, ans)
    BY <1>9 DEF Search, Browse
  <2>2. AnitubeCard(s) \in {"own", "none"}
    BY <1>9, CardKinds DEF AnitubeCard, CardsMislead, CaseBlind, Titled
  <2>3. AnitubeSearch(s, ans).cards \subseteq {"own"} /\ AnitubeBrowse(s, section, ans).cards \subseteq {"own"}
    BY <2>2, ShownKinds DEF AnitubeSearch, AnitubeBrowse
  <2> QED BY <2>1, <2>3
<1>10. CASE l = "animeua"
  <2>1. Search(l, s, ans) = AnimeuaSearch(s, ans) /\ Browse(l, s, section, ans) = AnimeuaBrowse(s, section, ans)
    BY <1>10 DEF Search, Browse
  <2>2. AnimeuaCard(s) \in {"own", "none"}
    BY <1>10, CardKinds DEF AnimeuaCard, CardsMislead, CaseBlind
  <2>3. AnimeuaSearch(s, ans).cards \subseteq {"own"} /\ AnimeuaBrowse(s, section, ans).cards \subseteq {"own"}
    BY <2>2, ShownKinds DEF AnimeuaSearch, AnimeuaBrowse
  <2> QED BY <2>1, <2>3
<1>11. CASE l = "unimay"
  <2>1. Search(l, s, ans) = UnimaySearch(s, ans) /\ Browse(l, s, section, ans) = UnimayBrowse(s, section, ans)
    BY <1>11 DEF Search, Browse
  <2>2. UnimayCard(s) \in {"own", "none"}
    BY <1>11, CardKinds DEF UnimayCard, CardsMislead, CaseBlind
  <2>3. UnimaySearch(s, ans).cards \subseteq {"own"} /\ UnimayBrowse(s, section, ans).cards \subseteq {"own"}
    BY <2>2, ShownKinds DEF UnimaySearch, UnimayBrowse
  <2> QED BY <2>1, <2>3
<1>12. CASE l = "coaninet"
  <2>1. Search(l, s, ans) = CoaninetSearch(s, ans) /\ Browse(l, s, section, ans) = CoaninetBrowse(s, section, ans)
    BY <1>12 DEF Search, Browse
  <2>2. CoaninetCard(s) \in {"own", "none"}
    BY <1>12, CardKinds DEF CoaninetCard, CardsMislead, CaseBlind
  <2>3. CoaninetSearch(s, ans).cards \subseteq {"own"} /\ CoaninetBrowse(s, section, ans).cards \subseteq {"own"}
    BY <2>2, ShownKinds DEF CoaninetSearch, CoaninetBrowse
  <2> QED BY <2>1, <2>3
<1>13. CASE l = "hentaiukr"
  <2>1. Search(l, s, ans) = HentaiukrSearch(s, ans) /\ Browse(l, s, section, ans) = HentaiukrBrowse(s, section, ans)
    BY <1>13 DEF Search, Browse
  <2>2. HentaiukrCard(s) \in {"own", "none"}
    BY <1>13, CardKinds DEF HentaiukrCard, CardsMislead, CaseBlind
  <2>3. HentaiukrSearch(s, ans).cards \subseteq {"own"} /\ HentaiukrBrowse(s, section, ans).cards \subseteq {"own"}
    BY <2>2, ShownKinds DEF HentaiukrSearch, HentaiukrBrowse
  <2> QED BY <2>1, <2>3
<1>14. CASE l = "cikavaideya"
  <2>1. Search(l, s, ans) = CikavaSearch(s, ans) /\ Browse(l, s, section, ans) = CikavaBrowse(s, section, ans)
    BY <1>14 DEF Search, Browse
  <2>2. CikavaCard(s) \in {"own", "none"}
    BY <1>14, CardKinds DEF CikavaCard, CardsMislead, CaseBlind
  <2>3. CikavaSearch(s, ans).cards \subseteq {"own"} /\ CikavaBrowse(s, section, ans).cards \subseteq {"own"}
    BY <2>2, ShownKinds DEF CikavaSearch, CikavaBrowse
  <2> QED BY <2>1, <2>3
<1>15. CASE l = "ufdub"
  <2>1. Search(l, s, ans) = UfdubSearch(s, ans) /\ Browse(l, s, section, ans) = UfdubBrowse(s, section, ans)
    BY <1>15 DEF Search, Browse
  <2>2. UfdubCard(s) \in {"own", "none"}
    BY <1>15, CardKinds DEF UfdubCard, CardsMislead, CaseBlind
  <2>3. UfdubSearch(s, ans).cards \subseteq {"own"} /\ UfdubBrowse(s, section, ans).cards \subseteq {"own"}
    BY <2>2, ShownKinds DEF UfdubSearch, UfdubBrowse
  <2> QED BY <2>1, <2>3
<1>16. CASE l = "doramyworld"
  <2>1. Search(l, s, ans) = DoramySearch(s, ans) /\ Browse(l, s, section, ans) = DoramyBrowse(s, section, ans)
    BY <1>16 DEF Search, Browse
  <2>2. DoramyCard(s) \in {"own", "none"}
    BY <1>16, CardKinds DEF DoramyCard, CardsMislead, CaseBlind
  <2>3. DoramySearch(s, ans).cards \subseteq {"own"} /\ DoramyBrowse(s, section, ans).cards \subseteq {"own"}
    BY <2>2, ShownKinds DEF DoramySearch, DoramyBrowse
  <2> QED BY <2>1, <2>3
<1>17. CASE l = "bambooua"
  <2>1. Search(l, s, ans) = BambooSearch(s, ans) /\ Browse(l, s, section, ans) = BambooBrowse(s, section, ans)
    BY <1>17 DEF Search, Browse
  <2>2. BambooCard(s) \in {"own", "none"}
    BY <1>17, CardKinds DEF BambooCard, CardsMislead, CaseBlind, Titled
  <2>3. BambooSearch(s, ans).cards \subseteq {"own"} /\ BambooBrowse(s, section, ans).cards \subseteq {"own"}
    BY <2>2, ShownKinds DEF BambooSearch, BambooBrowse
  <2> QED BY <2>1, <2>3
<1>18. CASE l = "simpsonsuatv"
  <2>1. Search(l, s, ans) = SimpsonsSearch(s, ans) /\ Browse(l, s, section, ans) = SimpsonsBrowse(s, section, ans)
    BY <1>18 DEF Search, Browse
  <2>2. SimpsonsCard(s) \in {"own", "none"}
    BY <1>18, CardKinds DEF SimpsonsCard, CardsMislead, CaseBlind
  <2>3. SimpsonsSearch(s, ans).cards \subseteq {"own"} /\ SimpsonsBrowse(s, section, ans).cards \subseteq {"own"}
    BY <2>2, ShownKinds DEF SimpsonsSearch, SimpsonsBrowse
  <2> QED BY <2>1, <2>3
<1>19. CASE l = "uakino"
  <2>1. Search(l, s, ans) = UakinoSearch(s, ans) /\ Browse(l, s, section, ans) = UakinoBrowse(s, section, ans)
    BY <1>19 DEF Search, Browse
  <2>2. UakinoCard(s) \in {"own", "none"}
    BY <1>19, CardKinds DEF UakinoCard, CardsMislead, CaseBlind
  <2>3. UakinoSearch(s, ans).cards \subseteq {"own"} /\ UakinoBrowse(s, section, ans).cards \subseteq {"own"}
    BY <2>2, ShownKinds DEF UakinoSearch, UakinoBrowse
  <2> QED BY <2>1, <2>3
<1> QED BY <1>1, <1>2, <1>3, <1>4, <1>5, <1>6, <1>7, <1>8, <1>9, <1>10, <1>11, <1>12, <1>13, <1>14, <1>15, <1>16, <1>17, <1>18, <1>19 DEF Lanes

\* Every request is answered in one of the four ways.
LEMMA AnswersAreAnswers ==
    ASSUME NEW l, NEW ans \in Answers(l)
    PROVE  ans \in [Hops -> Answer]
<1>1. PICK bad : /\ \E hs : bad \in [hs -> Answer \ {"page"}]
                 /\ ans = [h \in Hops |-> IF h \in DOMAIN bad THEN bad[h] ELSE "page"]
  BY DEF Answers
<1>2. \A h \in DOMAIN bad : bad[h] \in Answer
  BY <1>1
<1> QED BY <1>1, <1>2 DEF Answer

\* The title is one its upstream may publish, up to its files.
Described ==
    /\ lane \in DOMAIN Sites
    /\ \E s \in Title : \E files : site = [s EXCEPT !.files = files]

\* What the client holds is what a call told it, as its requests were answered.
HeldAsTold ==
    /\ held = [code |-> held.code, rows |-> held.rows, of |-> held.of, outage |-> held.outage,
               refused |-> held.refused, change |-> held.change]
    /\ held.outage # {} =>
          \E ans \in [Hops -> Answer] :
             /\ held.outage = Outage(ans) /\ held.refused = Refused(ans)
             /\ \/ held.code = "not_found"
                \/ /\ held.code = Content(lane, held.of, ans).code
                   /\ held.rows = Content(lane, held.of, ans).rows

ToldInv == Described /\ CardsOpen /\ HeldAsTold

LEMMA ScrapersStart == ScrapersInit => ToldInv
<1> SUFFICES ASSUME ScrapersInit PROVE ToldInv
  OBVIOUS
<1> USE DEF ScrapersInit
<1>1. site \in Title /\ lane \in DOMAIN Sites
  BY LanesAssumption DEF Possible
<1>2. site = [site EXCEPT !.files = site.files]
  BY <1>1 DEF Title
<1>3. Described
  BY <1>1, <1>2 DEF Described
<1>4. CardsOpen
  BY DEF CardsOpen, NothingShown
<1>5. HeldAsTold
  BY DEF HeldAsTold, NothingHeld
<1> QED BY <1>3, <1>4, <1>5 DEF ToldInv

\* A title keeps all but its files when the upstream changes it.
LEMMA FilesOnly ==
    ASSUME Described, NEW files, site' = [site EXCEPT !.files = files]
    PROVE  /\ \E s \in Title : \E fs : site' = [s EXCEPT !.files = fs]
           /\ \A l : CardsMislead(l, site') = CardsMislead(l, site)
<1>1. PICK s \in Title : \E fs : site = [s EXCEPT !.files = fs]
  BY DEF Described
<1>2. site' = [s EXCEPT !.files = files]
  BY <1>1 DEF Title
<1>3. site'.href = site.href /\ site'.series = site.series /\ site'.label = site.label
  BY <1>1, <1>2 DEF Title
<1> QED BY <1>2, <1>3 DEF CardsMislead

LEMMA ScrapersStep == ToldInv /\ [ScrapersNext]_scraperVars => ToldInv'
<1> SUFFICES ASSUME ToldInv, [ScrapersNext]_scraperVars PROVE ToldInv'
  OBVIOUS
<1> USE DEF ToldInv
<1>0. lane' = lane /\ lane \in Lanes
  BY LanesAssumption
  DEF Described, ScrapersNext, Find, Open, Press, Publish, Withdraw, scraperVars
<1>1. CASE Find
  <2>1. Described' /\ HeldAsTold'
    BY <1>1 DEF Find, Described, HeldAsTold
  <2>2. CardsMislead(lane, site) \/ shown'.cards \subseteq {"own"}
    <3>1. PICK ans \in Answers(lane) :
             \/ shown' = Search(lane, site, ans)
             \/ \E section \in BOOLEAN : shown' = Browse(lane, site, section, ans)
      BY <1>1 DEF Find
    <3>2. ASSUME ~CardsMislead(lane, site) PROVE shown'.cards \subseteq {"own"}
      BY <1>0, <3>1, <3>2, DoorsShowTheirOwn
    <3> QED BY <3>2
  <2>3. CardsOpen'
    BY <1>1, <2>2 DEF Find, CardsOpen
  <2> QED BY <2>1, <2>3
<1>2. CASE Open
  <2>1. Described' /\ CardsOpen'
    BY <1>2 DEF Open, Described, CardsOpen
  <2>2. PICK card \in shown.cards, ans \in Answers(lane) :
           LET detail == IF card \in {"own", "alias"} THEN Content(lane, site, ans)
                         ELSE Detail("not_found", {})
           IN  held' = [code |-> detail.code, rows |-> detail.rows, of |-> site,
                        outage |-> Outage(ans), refused |-> Refused(ans), change |-> "none"]
    BY <1>2 DEF Open
  <2>3. ans \in [Hops -> Answer]
    BY AnswersAreAnswers
  <2>4. /\ held'.outage = Outage(ans) /\ held'.refused = Refused(ans) /\ held'.of = site
        /\ held' = [code |-> held'.code, rows |-> held'.rows, of |-> held'.of,
                    outage |-> held'.outage, refused |-> held'.refused, change |-> held'.change]
        /\ card \in {"own", "alias"} => /\ held'.code = Content(lane, site, ans).code
                                        /\ held'.rows = Content(lane, site, ans).rows
        /\ card \notin {"own", "alias"} => held'.code = Detail("not_found", {}).code
    BY <2>2
  <2>5. Detail("not_found", {}).code = "not_found"
    BY DEF Detail
  <2>6. HeldAsTold'
    BY <1>0, <2>3, <2>4, <2>5 DEF HeldAsTold
  <2> QED BY <2>1, <2>6
<1>3. CASE Press
  BY <1>3 DEF Press, Described, CardsOpen, HeldAsTold
<1>4. CASE Publish \/ Withdraw
  <2>1. PICK files, change : /\ site' = [site EXCEPT !.files = files]
                             /\ held' = [held EXCEPT !.change = change]
                             /\ UNCHANGED <<lane, shown>>
    <3>1. CASE Publish
      <4>1. PICK f \in ToSet(site.files) :
               LET season == {g \in ToSet(site.files) : g.s = f.s /\ g.d = f.d}
                   newest == CHOOSE e \in {g.e : g \in season} : \A g \in season : g.e <= e
               IN  site' = [site EXCEPT !.files = Append(@, [f EXCEPT !.e = newest + 1])]
        BY <3>1 DEF Publish
      <4>2. \E files : site' = [site EXCEPT !.files = files]
        BY <4>1
      <4> QED BY <3>1, <4>2 DEF Publish
    <3>2. CASE Withdraw
      BY <3>2 DEF Withdraw
    <3> QED BY <1>4, <3>1, <3>2
  <2>2. Described'
    BY <2>1, FilesOnly DEF Described
  <2>3. CardsOpen'
    BY <2>1, FilesOnly DEF CardsOpen
  <2>4. /\ held'.code = held.code /\ held'.rows = held.rows /\ held'.of = held.of
        /\ held'.outage = held.outage /\ held'.refused = held.refused
        /\ held' = [code |-> held'.code, rows |-> held'.rows, of |-> held'.of,
                    outage |-> held'.outage, refused |-> held'.refused, change |-> held'.change]
    BY <2>1 DEF HeldAsTold
  <2>5. HeldAsTold'
    BY <2>1, <2>4 DEF HeldAsTold
  <2> QED BY <2>2, <2>3, <2>5
<1>5. CASE UNCHANGED scraperVars
  BY <1>5 DEF scraperVars, Described, CardsOpen, HeldAsTold
<1> QED BY <1>1, <1>2, <1>3, <1>4, <1>5 DEF ScrapersNext

\* A listing held as it was told is reported as its outage deserves.
LEMMA ToldIsReported == ToldInv => OutageIsReported
<1> SUFFICES ASSUME ToldInv, held.outage # {}
             PROVE  LET served == [h \in Hops |-> IF h \in held.refused THEN "missing" ELSE "page"]
                        whole  == Content(lane, held.of, served)
                    IN  /\ held.code = "gated" /\ lane # "uaflix" => whole.code = "gated"
                        /\ held.code = "ok" /\ held.outage \cap SoftHops(lane) = {} => held.rows = whole.rows
  BY DEF OutageIsReported
<1> DEFINE served == [h \in Hops |-> IF h \in held.refused THEN "missing" ELSE "page"]
           hard   == held.outage \cap SoftHops(lane) = {}
<1>1. PICK ans \in [Hops -> Answer] :
         /\ held.outage = Outage(ans) /\ held.refused = Refused(ans)
         /\ \/ held.code = "not_found"
            \/ /\ held.code = Content(lane, held.of, ans).code
               /\ held.rows = Content(lane, held.of, ans).rows
  BY DEF ToldInv, HeldAsTold
<1>2. served = Whole(ans)
  BY <1>1 DEF Whole, Cleared, Refused
<1>3. lane \in Lanes
  BY LanesAssumption DEF ToldInv, Described
<1>4. lane # "uaflix" \/ hard =>
        Faithful(Content(lane, held.of, ans), Content(lane, held.of, served), hard)
  BY <1>1, <1>2, <1>3, CallFaithful
<1> HIDE DEF served, hard
<1>5. held.code = "gated" /\ lane # "uaflix" => Content(lane, held.of, served).code = "gated"
  BY <1>1, <1>4 DEF Faithful
<1>6. held.code = "ok" /\ hard => held.rows = Content(lane, held.of, served).rows
  BY <1>1, <1>4 DEF Faithful
<1> QED BY <1>5, <1>6 DEF served, hard

\* An outage is no verdict about a title: what a call reports during one as
\* gated is gated, and a listing it lets through is the whole listing.
THEOREM OutageReported == ScrapersSpec => []OutageIsReported
<1>1. ScrapersSpec => []ToldInv
  BY ScrapersStart, ScrapersStep, PTL DEF ScrapersSpec
<1> QED BY <1>1, ToldIsReported, PTL

\* A card a door shows is opened by the id it carries.
THEOREM CardsAreOpened == ScrapersSpec => []CardsOpen
<1>1. ScrapersSpec => []ToldInv
  BY ScrapersStart, ScrapersStep, PTL DEF ScrapersSpec
<1>2. ToldInv => CardsOpen
  BY DEF ToldInv
<1> QED BY <1>1, <1>2, PTL

-----------------------------------------------------------------------------
(* Playlists: what their operators pick out, and in which order.               *)

\* R orders the members of I, each before or after any other.
Orders(R, I) ==
    /\ \A i, j \in I : i = j \/ <<i, j>> \in R \/ <<j, i>> \in R
    /\ \A i \in I : <<i, i>> \notin R
    /\ \A i, j, k \in I : <<i, j>> \in R /\ <<j, k>> \in R => <<i, k>> \in R

Rank(R, I, i) == Cardinality({j \in I : j = i \/ <<j, i>> \in R})

\* Every member of a finite order has a rank of its own, and every rank is taken.
LEMMA Ranked ==
    ASSUME NEW I, IsFiniteSet(I), NEW R, Orders(R, I)
    PROVE  /\ Cardinality(I) \in Nat
           /\ \A i \in I : Rank(R, I, i) \in 1 .. Cardinality(I)
           /\ \A i, j \in I : <<i, j>> \in R => Rank(R, I, i) < Rank(R, I, j)
           /\ \A i, j \in I : Rank(R, I, i) = Rank(R, I, j) => i = j
           /\ \A n \in 1 .. Cardinality(I) : \E i \in I : Rank(R, I, i) = n
<1> DEFINE N == Cardinality(I)
           S(i) == {j \in I : j = i \/ <<j, i>> \in R}
<1>2. N \in Nat
  BY FS_CardinalityType
<1>3. ASSUME NEW i \in I
      PROVE  Rank(R, I, i) = Cardinality(S(i)) /\ IsFiniteSet(S(i)) /\ Rank(R, I, i) \in 1 .. N
  <2>1. i \in S(i)
    OBVIOUS
  <2>2. IsFiniteSet(S(i)) /\ Cardinality(S(i)) <= N
    BY FS_Subset
  <2>3. Cardinality(S(i)) \in Nat /\ Cardinality(S(i)) # 0
    BY <2>1, <2>2, FS_CardinalityType, FS_EmptySet
  <2>4. Rank(R, I, i) = Cardinality(S(i))
    BY DEF Rank
  <2> HIDE DEF S
  <2> QED BY <1>2, <2>2, <2>3, <2>4
<1>4. ASSUME NEW i \in I, NEW j \in I, <<i, j>> \in R
      PROVE  Rank(R, I, i) < Rank(R, I, j)
  <2>1. S(i) \subseteq S(j)
    BY <1>4 DEF Orders
  <2>2. j \in S(j) /\ j \notin S(i)
    BY <1>4 DEF Orders
  <2>3. S(i) # S(j)
    BY <2>2
  <2>4. /\ IsFiniteSet(S(j)) /\ Rank(R, I, i) = Cardinality(S(i)) /\ Rank(R, I, j) = Cardinality(S(j))
        /\ Rank(R, I, i) \in Nat /\ Rank(R, I, j) \in Nat
    BY <1>2, <1>3
  <2> HIDE DEF S
  <2>5. Cardinality(S(i)) <= Cardinality(S(j)) /\ Cardinality(S(i)) # Cardinality(S(j))
    BY <2>1, <2>3, <2>4, FS_Subset
  <2> QED BY <2>4, <2>5
<1>5. \A i, j \in I : Rank(R, I, i) = Rank(R, I, j) => i = j
  <2> SUFFICES ASSUME NEW i \in I, NEW j \in I, Rank(R, I, i) = Rank(R, I, j), i # j PROVE FALSE
    OBVIOUS
  <2>1. <<i, j>> \in R \/ <<j, i>> \in R
    BY DEF Orders
  <2>2. Rank(R, I, i) \in 1 .. N
    BY <1>3
  <2>3. ~(Rank(R, I, i) < Rank(R, I, j)) /\ ~(Rank(R, I, j) < Rank(R, I, i))
    BY <1>2, <2>2
  <2> QED BY <1>4, <2>1, <2>3
<1>6. \A n \in 1 .. N : \E i \in I : Rank(R, I, i) = n
  <2> DEFINE f == [i \in I |-> Rank(R, I, i)]
  <2>1. f \in Injection(I, 1 .. N)
    BY <1>3, <1>5 DEF Injection, IsInjective
  <2>2. IsFiniteSet(1 .. N) /\ Cardinality(1 .. N) = N
    <3>1. IsFiniteSet(1 .. N) /\ Cardinality(1 .. N) = IF 1 > N THEN 0 ELSE N - 1 + 1
      BY <1>2, FS_Interval
    <3> QED BY <1>2, <3>1
  <2> HIDE DEF f
  <2>3. f \in Surjection(I, 1 .. N)
    BY <2>1, <2>2, FS_Injection
  <2>4. \A n \in 1 .. N : \E i \in I : f[i] = n
    BY <2>3 DEF Surjection
  <2> QED BY <2>4 DEF f
<1> QED BY <1>2, <1>3, <1>4, <1>5, <1>6

\* g runs through the positions in order, and q is what is found there.
Runs(g, q, files, pos) ==
    /\ Len(q) = Cardinality(pos) /\ Cardinality(pos) \in Nat
    /\ g \in [1 .. Cardinality(pos) -> pos]
    /\ \A n \in 1 .. Cardinality(pos) : q[n] = files[g[n]]
    /\ \A n, m \in 1 .. Cardinality(pos) : n < m => g[n] < g[m]
    /\ \A i \in pos : \E n \in 1 .. Cardinality(pos) : g[n] = i

LEMMA PickedRuns ==
    ASSUME NEW S, NEW files \in Seq(S), NEW pos \in SUBSET (DOMAIN files)
    PROVE  /\ Picked(files, pos) \in Seq(S)
           /\ \E g : Runs(g, Picked(files, pos), files, pos)
<1> DEFINE R == {p \in pos \X pos : p[1] < p[2]}
           N == Cardinality(pos)
           Nth(n) == CHOOSE i \in pos : Cardinality({j \in pos : j <= i}) = n
           g == [n \in 1 .. N |-> Nth(n)]
           q == Picked(files, pos)
<1>1. pos \in SUBSET Nat /\ IsFiniteSet(pos) /\ DOMAIN files \subseteq Nat
  <2>1. DOMAIN files = 1 .. Len(files) /\ Len(files) \in Nat
    OBVIOUS
  <2>2. IsFiniteSet(DOMAIN files)
    BY <2>1, FS_Interval
  <2> QED BY <2>1, <2>2, FS_Subset
<1>2. \A i, j \in pos : <<i, j>> \in R <=> i < j
  OBVIOUS
<1>3. Orders(R, pos)
  <2> HIDE DEF R
  <2>1. \A i, j \in pos : i = j \/ i < j \/ j < i
    BY <1>1
  <2>2. \A i, j, k \in pos : i < j /\ j < k => i < k
    BY <1>1
  <2>3. \A i \in pos : ~(i < i)
    BY <1>1
  <2> QED BY <1>2, <2>1, <2>2, <2>3 DEF Orders
<1>4. \A i \in pos : Rank(R, pos, i) = Cardinality({j \in pos : j <= i})
  <2> SUFFICES ASSUME NEW i \in pos PROVE Rank(R, pos, i) = Cardinality({j \in pos : j <= i})
    OBVIOUS
  <2>1. {j \in pos : j = i \/ <<j, i>> \in R} = {j \in pos : j <= i}
    <3> HIDE DEF R
    <3>1. \A j \in pos : j <= i <=> j = i \/ j < i
      BY <1>1
    <3> QED BY <1>2, <3>1
  <2> QED BY <2>1 DEF Rank
<1> HIDE DEF R
<1>5. /\ N \in Nat
      /\ \A i, j \in pos : i < j => Rank(R, pos, i) < Rank(R, pos, j)
      /\ \A i, j \in pos : Rank(R, pos, i) = Rank(R, pos, j) => i = j
      /\ \A i \in pos : Rank(R, pos, i) \in 1 .. N
      /\ \A n \in 1 .. N : \E i \in pos : Rank(R, pos, i) = n
  <2>1. /\ N \in Nat
        /\ \A i, j \in pos : <<i, j>> \in R => Rank(R, pos, i) < Rank(R, pos, j)
        /\ \A i, j \in pos : Rank(R, pos, i) = Rank(R, pos, j) => i = j
        /\ \A i \in pos : Rank(R, pos, i) \in 1 .. N
        /\ \A n \in 1 .. N : \E i \in pos : Rank(R, pos, i) = n
    <3>1. IsFiniteSet(pos) /\ Orders(R, pos)
      BY <1>1, <1>3
    <3> HIDE DEF N
    <3> QED BY <3>1, Ranked DEF N
  <2> QED BY <1>2, <2>1
<1>6. ASSUME NEW n \in 1 .. N PROVE Nth(n) \in pos /\ Rank(R, pos, Nth(n)) = n
  <2>1. \E i \in pos : Rank(R, pos, i) = n
    BY <1>5
  <2>2. \E i \in pos : Cardinality({j \in pos : j <= i}) = n
    BY <1>4, <2>1, Zenon
  <2>3. Nth(n) \in pos /\ Cardinality({j \in pos : j <= Nth(n)}) = n
    BY <2>2, Zenon
  <2> HIDE DEF Nth
  <2> QED BY <1>4, <2>3, Zenon
<1>7. q = [n \in 1 .. N |-> files[Nth(n)]]
  BY Zenon DEF Picked
<1> HIDE DEF Nth
<1>8. g \in [1 .. N -> pos] /\ \A n \in 1 .. N : g[n] = Nth(n)
  BY <1>6
<1>9. q \in Seq(S) /\ Len(q) = N /\ \A n \in 1 .. N : q[n] = files[g[n]]
  <2>1. \A n \in 1 .. N : files[Nth(n)] \in S
    BY <1>6
  <2> HIDE DEF q, N
  <2> QED BY <1>5, <1>7, <1>8, <2>1
<1>10. \A n, m \in 1 .. N : n < m => g[n] < g[m]
  <2> SUFFICES ASSUME NEW n \in 1 .. N, NEW m \in 1 .. N, n < m, ~(Nth(n) < Nth(m)) PROVE FALSE
    BY <1>8
  <2>1. Nth(n) \in pos /\ Nth(m) \in pos /\ Rank(R, pos, Nth(n)) = n /\ Rank(R, pos, Nth(m)) = m
    BY <1>6
  <2>2. Nth(m) < Nth(n) \/ Nth(m) = Nth(n)
    BY <1>1, <2>1
  <2>3. m < n \/ m = n
    BY <1>5, <2>1, <2>2
  <2> HIDE DEF N
  <2> QED BY <1>5, <2>3
<1>11. \A i \in pos : \E n \in 1 .. N : g[n] = i
  <2> SUFFICES ASSUME NEW i \in pos PROVE \E n \in 1 .. N : g[n] = i
    OBVIOUS
  <2>1. Rank(R, pos, i) \in 1 .. N
    BY <1>5
  <2>2. Nth(Rank(R, pos, i)) = i
    BY <1>5, <1>6, <2>1
  <2> QED BY <1>8, <2>1, <2>2
<1>12. Runs(g, q, files, pos)
  BY <1>5, <1>8, <1>9, <1>10, <1>11 DEF Runs
<1> QED BY <1>9, <1>12 DEF q

LEMMA PickedFacts ==
    ASSUME NEW S, NEW files \in Seq(S), NEW pos \in SUBSET (DOMAIN files)
    PROVE  /\ Picked(files, pos) \in Seq(S)
           /\ ToSet(Picked(files, pos)) = {files[i] : i \in pos}
           /\ Picked(files, pos) = <<>> <=> pos = {}
           /\ 1 \in pos => Head(Picked(files, pos)) = Head(files)
<1> DEFINE q == Picked(files, pos)
           N == Cardinality(pos)
<1>1. q \in Seq(S) /\ DOMAIN files = 1 .. Len(files) /\ Len(files) \in Nat
  BY PickedRuns
<1>2. PICK g : Runs(g, q, files, pos)
  BY PickedRuns
<1> HIDE DEF q
<1>3. /\ Len(q) = N /\ N \in Nat /\ g \in [1 .. N -> pos]
      /\ \A n \in 1 .. N : q[n] = files[g[n]]
      /\ \A n, m \in 1 .. N : n < m => g[n] < g[m]
      /\ \A i \in pos : \E n \in 1 .. N : g[n] = i
  BY <1>2 DEF Runs
<1> HIDE DEF N
<1>4. ToSet(q) = {files[i] : i \in pos}
  <2>1. DOMAIN q = 1 .. N
    BY <1>1, <1>3
  <2>2. ToSet(q) = {q[n] : n \in 1 .. N}
    BY <2>1 DEF ToSet
  <2> QED BY <1>3, <2>2
<1>5. q = <<>> <=> pos = {}
  <2>1. pos = {} => N = 0
    BY <1>3
  <2>2. N = 0 => pos = {}
    BY <1>3
  <2>3. q = <<>> <=> Len(q) = 0
    BY <1>1
  <2> QED BY <1>3, <2>1, <2>2, <2>3
<1>6. ASSUME 1 \in pos PROVE Head(q) = Head(files)
  <2>1. PICK n \in 1 .. N : g[n] = 1
    BY <1>3, <1>6
  <2>2. n = 1
    <3>1. 1 \in 1 .. N /\ g[1] \in pos /\ (1 < n => g[1] < g[n])
      BY <1>3, <2>1
    <3>2. g[1] >= 1
      BY <1>1, <3>1
    <3> QED BY <1>3, <2>1, <3>1, <3>2
  <2>3. q[1] = files[1] /\ q # <<>> /\ files # <<>>
    BY <1>1, <1>3, <1>5, <1>6, <2>1, <2>2
  <2> QED BY <1>1, <2>3
<1> QED BY <1>1, <1>4, <1>5, <1>6 DEF q

\* Picking every position leaves a sequence as it is.
LEMMA PickedWhole ==
    ASSUME NEW S, NEW files \in Seq(S)
    PROVE  Picked(files, DOMAIN files) = files
<1> DEFINE L == Len(files)
<1>1. DOMAIN files = 1 .. L /\ L \in Nat
  OBVIOUS
<1>2. \A n \in 0 .. L : Cardinality(1 .. n) = n
  <2> SUFFICES ASSUME NEW n \in 0 .. L PROVE Cardinality(1 .. n) = n
    OBVIOUS
  <2>1. Cardinality(1 .. n) = IF 1 > n THEN 0 ELSE n - 1 + 1
    BY <1>1, FS_Interval
  <2> QED BY <1>1, <2>1
<1> DEFINE D == DOMAIN files
           Nth(n) == CHOOSE i \in D : Cardinality({j \in D : j <= i}) = n
<1>3. ASSUME NEW i \in D PROVE Cardinality({j \in D : j <= i}) = i
  <2>1. {j \in D : j <= i} = 1 .. i
    BY <1>1
  <2>2. i \in 0 .. L
    BY <1>1
  <2> QED BY <1>2, <2>1, <2>2
<1>4. Cardinality(D) = L /\ D = 1 .. L
  <2>1. L \in 0 .. L
    BY <1>1
  <2> QED BY <1>1, <1>2, <2>1
<1> HIDE DEF D
<1>5. ASSUME NEW n \in D PROVE Nth(n) = n
  <2>1. \E i \in D : Cardinality({j \in D : j <= i}) = n
    BY <1>3, Zenon
  <2>2. Nth(n) \in D /\ Cardinality({j \in D : j <= Nth(n)}) = n
    BY <2>1, Zenon
  <2> HIDE DEF Nth
  <2> QED BY <1>3, <2>2, Zenon
<1>6. Picked(files, D) = [n \in 1 .. Cardinality(D) |-> files[Nth(n)]]
  BY Zenon DEF Picked
<1> HIDE DEF Nth
<1>7. Picked(files, D) = [n \in D |-> files[n]]
  BY <1>4, <1>5, <1>6
<1> QED BY <1>7 DEF D

\* What arranging keeps.
LEMMA ArrangedFacts ==
    ASSUME NEW S, NEW files \in Seq(S), NEW ahead, Orders(ahead, DOMAIN files)
    PROVE  Arranged(files, ahead) \in Seq(S) /\ ToSet(Arranged(files, ahead)) = ToSet(files)
<1> DEFINE L == Len(files)
           I == DOMAIN files
           Nth(n) == CHOOSE i \in I : Cardinality({j \in I : j = i \/ <<j, i>> \in ahead}) = n
           q == Arranged(files, ahead)
<1>1. I = 1 .. L /\ L \in Nat
  OBVIOUS
<1>2. IsFiniteSet(I) /\ Cardinality(I) = L
  <2>1. IsFiniteSet(1 .. L) /\ Cardinality(1 .. L) = IF 1 > L THEN 0 ELSE L - 1 + 1
    BY <1>1, FS_Interval
  <2> QED BY <1>1, <2>1
<1> HIDE DEF I
<1>3. /\ \A i \in I : Rank(ahead, I, i) \in 1 .. L
      /\ \A i, j \in I : Rank(ahead, I, i) = Rank(ahead, I, j) => i = j
      /\ \A n \in 1 .. L : \E i \in I : Rank(ahead, I, i) = n
  <2>1. Orders(ahead, I)
    BY DEF I
  <2> HIDE DEF L
  <2> QED BY <1>2, <2>1, Ranked
<1>4. \A n \in 1 .. L : Nth(n) \in I /\ Rank(ahead, I, Nth(n)) = n
  BY <1>3, Zenon DEF Rank
<1>5. q = [n \in I |-> files[Nth(n)]]
  BY Zenon DEF Arranged, I
<1> HIDE DEF Nth, q
<1>6. q \in Seq(S) /\ DOMAIN q = I /\ \A n \in I : q[n] = files[Nth(n)]
  <2>1. \A n \in I : files[Nth(n)] \in S
    BY <1>1, <1>4
  <2>2. q \in [1 .. L -> S]
    BY <1>1, <1>5, <2>1
  <2> QED BY <1>1, <1>5, <2>2
<1>7. \A i \in I : \E n \in I : Nth(n) = i
  <2> SUFFICES ASSUME NEW i \in I PROVE \E n \in I : Nth(n) = i
    OBVIOUS
  <2>1. Rank(ahead, I, i) \in I
    BY <1>1, <1>3
  <2>2. Nth(Rank(ahead, I, i)) = i
    BY <1>1, <1>3, <1>4, <2>1
  <2> QED BY <2>1, <2>2
<1>8. ToSet(files) = {files[i] : i \in I}
  BY DEF ToSet, I
<1>9. ToSet(q) = {files[Nth(n)] : n \in I}
  BY <1>6 DEF ToSet
<1>10. \A n \in I : Nth(n) \in I
  BY <1>1, <1>4
<1>11. ToSet(q) = ToSet(files)
  <2> HIDE DEF I
  <2> QED BY <1>7, <1>8, <1>9, <1>10
<1> QED BY <1>6, <1>11 DEF q

LEMMA FolderFacts ==
    ASSUME NEW S, NEW files \in Seq(S), NEW field, NEW label
    PROVE  /\ Folder(files, field, label) \in Seq(S)
           /\ ToSet(Folder(files, field, label)) = {f \in ToSet(files) : f[field] = label}
           /\ Folder(files, field, label) = <<>> <=> \A f \in ToSet(files) : f[field] # label
           /\ (\A f \in ToSet(files) : f[field] = label) => Folder(files, field, label) = files
           /\ files # <<>> /\ Head(files)[field] = label
                => Head(Folder(files, field, label)) = Head(files)
<1> DEFINE pos == {i \in DOMAIN files : files[i][field] = label}
<1>1. Folder(files, field, label) = Picked(files, pos)
  BY DEF Folder, Those
<1>2. ToSet(files) = {files[i] : i \in DOMAIN files}
  BY DEF ToSet
<1>3. /\ Picked(files, pos) \in Seq(S)
      /\ ToSet(Picked(files, pos)) = {files[i] : i \in pos}
      /\ Picked(files, pos) = <<>> <=> pos = {}
      /\ 1 \in pos => Head(Picked(files, pos)) = Head(files)
  BY PickedFacts
<1>4. Picked(files, DOMAIN files) = files
  BY PickedWhole
<1>5. {files[i] : i \in pos} = {f \in ToSet(files) : f[field] = label}
  BY <1>2
<1>6. pos = {} <=> \A f \in ToSet(files) : f[field] # label
  BY <1>2
<1>7. (\A f \in ToSet(files) : f[field] = label) => pos = DOMAIN files
  BY <1>2
<1>8. files # <<>> /\ Head(files)[field] = label => 1 \in pos
  OBVIOUS
<1> HIDE DEF pos
<1> QED BY <1>1, <1>3, <1>4, <1>5, <1>6, <1>7, <1>8

\* The labels of a level, each once and the first one first.
LEMMA LabelsFacts ==
    ASSUME NEW S, NEW files \in Seq(S), NEW field
    PROVE  /\ DOMAIN Labels(files, field) = 1 .. Len(Labels(files, field))
           /\ Len(Labels(files, field)) \in Nat
           /\ \A n \in DOMAIN Labels(files, field) : \E f \in ToSet(files) : Labels(files, field)[n] = f[field]
           /\ \A f \in ToSet(files) : \E n \in DOMAIN Labels(files, field) : Labels(files, field)[n] = f[field]
           /\ \A n, m \in DOMAIN Labels(files, field) :
                 Labels(files, field)[n] = Labels(files, field)[m] => n = m
           /\ files # <<>> => Labels(files, field) # <<>> /\ Labels(files, field)[1] = Head(files)[field]
<1> DEFINE pos == Firsts(files, field)
           q == Picked(files, pos)
           N == Cardinality(pos)
           l == Labels(files, field)
<1>1. /\ DOMAIN files = 1 .. Len(files) /\ Len(files) \in Nat /\ pos \in SUBSET (DOMAIN files)
      /\ DOMAIN files \subseteq Nat
  BY DEF Firsts
<1>2. \A i \in pos : \A j \in DOMAIN files : j < i => files[j][field] # files[i][field]
  BY DEF Firsts
<1>3. \A i \in DOMAIN files :
         (\A j \in DOMAIN files : j < i => files[j][field] # files[i][field]) => i \in pos
  BY DEF Firsts
<1> HIDE DEF pos
<1>4. PICK g : Runs(g, q, files, pos)
  BY <1>1, PickedRuns
<1>5. q \in Seq(S) /\ ToSet(q) = {files[i] : i \in pos}
  BY <1>1, PickedFacts
<1>6. l = [n \in DOMAIN q |-> q[n][field]]
  BY DEF Labels, pos
<1> HIDE DEF q, l
<1>7. /\ Len(q) = N /\ N \in Nat /\ g \in [1 .. N -> pos] /\ DOMAIN q = 1 .. N
      /\ \A n \in 1 .. N : q[n] = files[g[n]]
      /\ \A n, m \in 1 .. N : n < m => g[n] < g[m]
      /\ \A i \in pos : \E n \in 1 .. N : g[n] = i
  BY <1>4, <1>5 DEF Runs
<1> HIDE DEF N
<1>8. DOMAIN l = 1 .. N /\ \A n \in 1 .. N : l[n] = files[g[n]][field] /\ g[n] \in pos
  BY <1>6, <1>7
<1>9. /\ DOMAIN l = 1 .. Len(l) /\ Len(l) \in Nat
      /\ \A n \in DOMAIN l : \E f \in ToSet(files) : l[n] = f[field]
  <2>1. \A n \in 1 .. N : files[g[n]] \in ToSet(files)
    BY <1>1, <1>8 DEF ToSet
  <2>2. l \in Seq({l[n] : n \in 1 .. N})
    BY <1>6, <1>7
  <2> QED BY <1>8, <2>1, <2>2
<1>10. ASSUME NEW f \in ToSet(files) PROVE \E n \in DOMAIN l : l[n] = f[field]
  <2>1. PICK k \in DOMAIN files : files[k] = f
    BY DEF ToSet
  <2> DEFINE same == {i \in DOMAIN files : files[i][field] = f[field]}
  <2>2. same \in SUBSET Nat /\ same # {}
    BY <1>1, <2>1
  <2>3. Min(same) \in same /\ \A i \in same : Min(same) <= i
    <3> HIDE DEF same
    <3> QED BY <2>2, LeastIsOne
  <2>4. PICK i \in same : \A j \in same : i <= j
    BY <2>3
  <2>5. i \in pos
    BY <1>1, <1>3, <2>4
  <2>6. PICK n \in 1 .. N : g[n] = i
    BY <1>7, <2>5
  <2> QED BY <1>8, <2>4, <2>6
<1>11. ASSUME NEW n \in DOMAIN l, NEW m \in DOMAIN l, l[n] = l[m] PROVE n = m
  <2>1. n \in 1 .. N /\ m \in 1 .. N /\ g[n] \in pos /\ g[m] \in pos
    BY <1>8, <1>11
  <2>2. files[g[n]][field] = files[g[m]][field]
    BY <1>8, <1>11, <2>1
  <2>3. ~(g[n] < g[m]) /\ ~(g[m] < g[n])
    BY <1>1, <1>2, <2>1, <2>2
  <2> QED BY <1>7, <2>1, <2>3
<1>12. ASSUME files # <<>> PROVE l # <<>> /\ l[1] = Head(files)[field]
  <2>1. 1 \in DOMAIN files /\ Head(files) = files[1]
    BY <1>1, <1>12
  <2>2. 1 \in pos
    BY <1>1, <1>3, <2>1
  <2>3. Head(q) = Head(files)
    BY <1>1, <2>2, PickedFacts DEF q
  <2>4. PICK n \in 1 .. N : g[n] = 1
    BY <1>7, <2>2
  <2>5. 1 \in 1 .. N /\ q # <<>> /\ Head(q) = q[1]
    BY <1>5, <1>7, <2>4
  <2>6. l[1] = q[1][field] /\ 1 \in DOMAIN l
    BY <1>6, <1>7, <1>8, <2>5
  <2> QED BY <2>1, <2>3, <2>5, <2>6
<1> QED BY <1>9, <1>10, <1>11, <1>12 DEF l

\* The folders of a level part its files by their label.
LEMMA FoldersFacts ==
    ASSUME NEW S, NEW files \in Seq(S), NEW field
    PROVE  LET tree == Folders(files, field)
           IN  /\ tree \in Seq(Seq(S))
               /\ \A i \in DOMAIN tree : tree[i] # <<>> /\ tree[i] \in Seq(S)
               /\ \A i \in DOMAIN tree : \E v : tree[i] = Folder(files, field, v)
               /\ \A i \in DOMAIN tree, f \in ToSet(files) :
                     f \in ToSet(tree[i]) <=> tree[i] = Folder(files, field, f[field])
               /\ \A i \in DOMAIN tree : ToSet(tree[i]) \subseteq ToSet(files)
               /\ \A f \in ToSet(files) : \E i \in DOMAIN tree : f \in ToSet(tree[i])
               /\ \A i, k \in DOMAIN tree : \A f \in ToSet(tree[i]), g \in ToSet(tree[k]) :
                     f[field] = g[field] <=> i = k
               /\ files # <<>> => 1 \in DOMAIN tree /\ tree[1] = Folder(files, field, Head(files)[field])
<1> DEFINE l == Labels(files, field)
           tree == Folders(files, field)
<1>1. /\ DOMAIN l = 1 .. Len(l) /\ Len(l) \in Nat
      /\ \A n \in DOMAIN l : \E f \in ToSet(files) : l[n] = f[field]
      /\ \A f \in ToSet(files) : \E n \in DOMAIN l : l[n] = f[field]
      /\ \A n, m \in DOMAIN l : l[n] = l[m] => n = m
      /\ files # <<>> => l # <<>> /\ l[1] = Head(files)[field]
  BY LabelsFacts
<1>2. tree = [i \in DOMAIN l |-> Folder(files, field, l[i])]
  BY DEF Folders
<1> HIDE DEF l, tree
<1>3. \A v : /\ Folder(files, field, v) \in Seq(S)
             /\ ToSet(Folder(files, field, v)) = {f \in ToSet(files) : f[field] = v}
             /\ Folder(files, field, v) = <<>> <=> \A f \in ToSet(files) : f[field] # v
  BY FolderFacts
<1>4. DOMAIN tree = DOMAIN l /\ \A i \in DOMAIN l : tree[i] = Folder(files, field, l[i])
                           /\ \E f \in ToSet(files) : l[i] = f[field]
  BY <1>1, <1>2
<1>5. \A i \in DOMAIN tree : /\ tree[i] # <<>> /\ tree[i] \in Seq(S)
                             /\ ToSet(tree[i]) = {f \in ToSet(files) : f[field] = l[i]}
  BY <1>3, <1>4
<1>6. tree \in Seq(Seq(S))
  <2>1. tree \in [1 .. Len(l) -> Seq(S)]
    BY <1>1, <1>2, <1>3
  <2> QED BY <1>1, <2>1
<1>7. \A i \in DOMAIN tree, f \in ToSet(files) :
         f \in ToSet(tree[i]) <=> tree[i] = Folder(files, field, f[field])
  <2> SUFFICES ASSUME NEW i \in DOMAIN tree, NEW f \in ToSet(files)
               PROVE  f \in ToSet(tree[i]) <=> tree[i] = Folder(files, field, f[field])
    OBVIOUS
  <2>1. f \in ToSet(tree[i]) => tree[i] = Folder(files, field, f[field])
    BY <1>4, <1>5
  <2>2. f \in ToSet(Folder(files, field, f[field]))
    BY <1>3
  <2> QED BY <2>1, <2>2
<1>8. \A f \in ToSet(files) : \E i \in DOMAIN tree : f \in ToSet(tree[i])
  BY <1>1, <1>4, <1>5
<1>9. \A i, k \in DOMAIN tree : \A f \in ToSet(tree[i]), g \in ToSet(tree[k]) :
         f[field] = g[field] <=> i = k
  <2> SUFFICES ASSUME NEW i \in DOMAIN tree, NEW k \in DOMAIN tree,
                      NEW f \in ToSet(tree[i]), NEW g \in ToSet(tree[k])
               PROVE  f[field] = g[field] <=> i = k
    OBVIOUS
  <2>1. f[field] = l[i] /\ g[field] = l[k]
    BY <1>5
  <2> QED BY <1>1, <1>4, <2>1
<1>10. files # <<>> => 1 \in DOMAIN tree /\ tree[1] = Folder(files, field, Head(files)[field])
  <2> SUFFICES ASSUME files # <<>>
               PROVE  1 \in DOMAIN tree /\ tree[1] = Folder(files, field, Head(files)[field])
    OBVIOUS
  <2>1. 1 \in DOMAIN l
    BY <1>1
  <2> QED BY <1>1, <1>4, <2>1
<1>11. \A i \in DOMAIN tree : ToSet(tree[i]) \subseteq ToSet(files)
  BY <1>5
<1>12. \A i \in DOMAIN tree : \E v : tree[i] = Folder(files, field, v)
  BY <1>4
<1> QED BY <1>5, <1>6, <1>7, <1>8, <1>9, <1>10, <1>11, <1>12 DEF tree

-----------------------------------------------------------------------------
(* What a press plays.                                                         *)

Intact(s) ==
    /\ s.player \in {"vod", "serial"} /\ ~s.removed
    /\ s.payload = IF s.series THEN "list" ELSE "url"

\* What plays is a file of the title, ...
Real(l, s, media) ==
    media.code = "ok" => media.file \in ToSet(s.files) \/ (l \in Trusting /\ media.file = RawText)

\* ... the one its row was listed for, ...
Right(l, s, row, dub, media) ==
    /\ media.code = "ok" /\ media.file # RawText /\ ~Misnumbered(l, s)
    /\ dub # 0 => DubsMatch(l, s)
    => Meant(s, row, dub, media.file)

\* ... and while the upstream is up something does.
Alive(l, s, row, dub, media) ==
    Intact(s) /\ (PicksByPosition(l, s) => dub = 0) /\ ~DeadRows(l, s, row) => media.code = "ok"

LEMMA SiteFacts ==
    ASSUME NEW l, NEW s, Possible(l, s)
    PROVE  /\ s \in Title /\ s.files \in Seq(File)
           /\ \A f \in ToSet(s.files) : /\ f \in File /\ f # NoFile /\ f # RawText
                                        /\ (f.s # 0 \/ f.e # 0) /\ f.d # Uk
           /\ First(s.files) \in ToSet(s.files) \cup {NoFile}
           /\ s.files = <<>> => First(s.files) = NoFile
           /\ s.files # <<>> => First(s.files) = Head(s.files) /\ Head(s.files) \in ToSet(s.files)
<1>1. s \in Title /\ \A f \in ToSet(s.files) : (f.s # 0 \/ f.e # 0) /\ f.d # Uk
  BY DEF Possible
<1>2. s.files \in Seq(File)
  BY <1>1 DEF Title
<1> DEFINE files == s.files
<1> HIDE DEF files
<1>3. files \in Seq(File)
  BY <1>2 DEF files
<1>4. \A f \in ToSet(files) : f \in File
  BY <1>3 DEF ToSet
<1>5. files # <<>> => First(files) = Head(files) /\ Head(files) \in ToSet(files)
  BY <1>3 DEF First, ToSet
<1>6. files = <<>> => First(files) = NoFile
  BY DEF First
<1> QED BY <1>1, <1>3, <1>4, <1>5, <1>6 DEF files, NoFile, RawText

LEMMA MediaFacts ==
    ASSUME NEW code, NEW file
    PROVE  /\ Media(code, file).code = "ok" <=> code = "ok" /\ file # NoFile
           /\ Media(code, file).code = "ok" => Media(code, file).file = file
BY DEF Media

LEMMA RowFacts ==
    ASSUME NEW pos, NEW file, NEW dubs
    PROVE  Row(pos, file, dubs).at = pos /\ Row(pos, file, dubs).says = file /\ Row(pos, file, dubs).dubs = dubs
BY DEF Row

LEMMA FilmRowFacts ==
    ASSUME NEW files, NEW dubs, NEW row \in FilmRow(files, dubs)
    PROVE  files # <<>> /\ row.at = <<>> /\ row.says = Head(files) /\ row.dubs = dubs
BY DEF FilmRow, Row

LEMMA DetailFacts ==
    ASSUME NEW code, NEW rows, NEW row \in Detail(code, rows).rows
    PROVE  code = "ok" /\ row \in rows
BY DEF Detail

\* Where every check passes nothing is refused.
LEMMA NoneRefused ==
    /\ \A q \in Seq({"ok"}) : Refusal(q) = "ok"
    /\ \A p, q \in Seq({"ok"}) : p \o q \in Seq({"ok"})
    /\ <<"ok">> \in Seq({"ok"}) /\ <<"ok", "ok">> \in Seq({"ok"}) /\ <<"ok", "ok", "ok">> \in Seq({"ok"})
    /\ <<"ok", "ok", "ok", "ok">> \in Seq({"ok"}) /\ <<"ok", "ok", "ok", "ok", "ok">> \in Seq({"ok"})
    /\ <<"ok", "ok", "ok", "ok", "ok", "ok">> \in Seq({"ok"})
<1>1. ASSUME NEW q \in Seq({"ok"}) PROVE Refusal(q) = "ok"
  <2>1. {i \in DOMAIN q : q[i] # "ok"} = {}
    OBVIOUS
  <2> QED BY <2>1 DEF Refusal
<1>2. ASSUME NEW p \in Seq({"ok"}), NEW q \in Seq({"ok"}) PROVE p \o q \in Seq({"ok"})
  BY ConcatProperties
<1>3. /\ <<"ok">> \in Seq({"ok"}) /\ <<"ok", "ok">> \in Seq({"ok"}) /\ <<"ok", "ok", "ok">> \in Seq({"ok"})
      /\ <<"ok", "ok", "ok", "ok">> \in Seq({"ok"}) /\ <<"ok", "ok", "ok", "ok", "ok">> \in Seq({"ok"})
      /\ <<"ok", "ok", "ok", "ok", "ok", "ok">> \in Seq({"ok"})
  OBVIOUS
<1> QED BY <1>1, <1>2, <1>3

\* Where nothing is refused every check passed.
LEMMA OkPasses ==
    ASSUME NEW S, NEW q \in Seq(S), Refusal(q) = "ok"
    PROVE  \A i \in 1 .. Len(q) : q[i] = "ok"
BY FirstRefusal

LEMMA OkJoin ==
    ASSUME NEW S, NEW p \in Seq(S), NEW q \in Seq(S), Refusal(p \o q) = "ok"
    PROVE  Refusal(p) = "ok" /\ Refusal(q) = "ok"
BY RefusalJoin

LEMMA UpFacts ==
    /\ AllUp.page = "page" /\ AllUp.show = "page" /\ AllUp.player = "page"
    /\ AllUp.list = "page" /\ AllUp.direct = "page" /\ AllUp.file = "page"
    /\ Lenient("page") = "ok" /\ Strict("page") = "ok" /\ Posted("page") = "ok"
    /\ \A code : Unless(TRUE, code) = "ok"
BY DEF AllUp, Hops, Lenient, Strict, Posted, Unless

\* What stands at a position of a tree of folders.
LEMMA AtFacts ==
    ASSUME NEW S, NEW tree \in Seq(Seq(S))
    PROVE  /\ \A i \in DOMAIN tree : tree[i] \in Seq(S) /\ DOMAIN tree[i] \subseteq Nat
           /\ DOMAIN tree \subseteq Nat
           /\ \A i \in DOMAIN tree : \A j \in DOMAIN tree[i] :
                 At(tree, <<i, j>>) = tree[i][j] /\ tree[i][j] \in ToSet(tree[i]) /\ tree[i][j] \in S
           /\ \A pos : \/ At(tree, pos) = NoFile
                       \/ /\ pos[1] \in DOMAIN tree /\ pos[2] \in DOMAIN tree[pos[1]]
                          /\ At(tree, pos) = tree[pos[1]][pos[2]] /\ At(tree, pos) \in ToSet(tree[pos[1]])
<1>1. \A i \in DOMAIN tree : tree[i] \in Seq(S)
  OBVIOUS
<1>2. ASSUME NEW i \in DOMAIN tree, NEW j \in DOMAIN tree[i]
      PROVE  tree[i][j] \in S /\ tree[i][j] \in ToSet(tree[i])
  BY <1>1 DEF ToSet
<1>3. ASSUME NEW i \in DOMAIN tree, NEW j \in DOMAIN tree[i]
      PROVE  At(tree, <<i, j>>) = tree[i][j]
  BY DEF At
<1>4. ASSUME NEW pos
      PROVE  \/ At(tree, pos) = NoFile
             \/ /\ pos[1] \in DOMAIN tree /\ pos[2] \in DOMAIN tree[pos[1]]
                /\ At(tree, pos) = tree[pos[1]][pos[2]] /\ At(tree, pos) \in ToSet(tree[pos[1]])
  BY <1>2 DEF At
<1>5. DOMAIN tree \subseteq Nat /\ \A i \in DOMAIN tree : DOMAIN tree[i] \subseteq Nat
  BY <1>1
<1> QED BY <1>1, <1>2, <1>3, <1>4, <1>5

-----------------------------------------------------------------------------
(* Episodes labelled in their own file value: kinovezha and uaserialspro, and   *)
(* the flat playlists of serialno.                                             *)

\* A title as its folders of one level show it.
LEMMA TreeFacts ==
    ASSUME NEW S, NEW files \in Seq(S), NEW field
    PROVE  /\ Folders(files, field) \in Seq(Seq(S))
           /\ \A i \in DOMAIN Folders(files, field) : \A j \in DOMAIN Folders(files, field)[i] :
                 /\ At(Folders(files, field), <<i, j>>) = Folders(files, field)[i][j]
                 /\ Folders(files, field)[i][j] \in ToSet(files)
                 /\ Folders(files, field)[i][j] \in ToSet(Folders(files, field)[i])
           /\ \A pos : \/ At(Folders(files, field), pos) = NoFile
                       \/ At(Folders(files, field), pos) \in ToSet(files)
<1> DEFINE tree == Folders(files, field)
<1>1. /\ tree \in Seq(Seq(S))
      /\ \A i \in DOMAIN tree : ToSet(tree[i]) \subseteq ToSet(files)
  BY FoldersFacts
<1> HIDE DEF tree
<1>2. ASSUME NEW i \in DOMAIN tree, NEW j \in DOMAIN tree[i]
      PROVE  At(tree, <<i, j>>) = tree[i][j] /\ tree[i][j] \in ToSet(tree[i])
  BY <1>1, AtFacts
<1>3. \A pos : \/ At(tree, pos) = NoFile
               \/ pos[1] \in DOMAIN tree /\ At(tree, pos) \in ToSet(tree[pos[1]])
  BY <1>1, AtFacts
<1> QED BY <1>1, <1>2, <1>3 DEF tree

LEMMA LabelledPlays ==
    ASSUME NEW files \in Seq(File), NEW pos, NEW dub
    PROVE  LET tree == Folders(files, "s")
               pick == LabelledPick(tree, pos, dub)
           IN  /\ pick = NoFile \/ pick \in ToSet(files)
               /\ At(tree, pos) \in ToSet(files) /\ (\A f \in ToSet(files) : f # NoFile) => pick # NoFile
               /\ dub = 0 \/ (\A f, g \in ToSet(files) : f.s = g.s => f.d = g.d)
                    => pick = At(tree, pos)
<1> DEFINE tree == Folders(files, "s")
           season == Item(tree, pos[1])
           same == Folder(season, "d", dub)
           pick == LabelledPick(tree, pos, dub)
<1>1. /\ tree \in Seq(Seq(File))
      /\ \A i \in DOMAIN tree : ToSet(tree[i]) \subseteq ToSet(files)
      /\ \A i \in DOMAIN tree : \A f, g \in ToSet(tree[i]) : f.s = g.s
  BY FoldersFacts
<1>2. pick = IF At(tree, pos) = NoFile THEN NoFile
             ELSE IF dub = 0 \/ same = <<>> THEN At(tree, pos)
             ELSE IF pos[2] \in DOMAIN same THEN same[pos[2]] ELSE Head(same)
  BY DEF LabelledPick
<1> HIDE DEF tree, pick
<1>3. CASE At(tree, pos) = NoFile
  <2>1. pick = NoFile
    BY <1>2, <1>3
  <2>2. At(tree, pos) \in ToSet(files) => \E f \in ToSet(files) : f = NoFile
    BY <1>3
  <2> QED BY <1>3, <2>1, <2>2 DEF tree, pick
<1>4. CASE At(tree, pos) # NoFile
  <2>1. /\ pos[1] \in DOMAIN tree /\ pos[2] \in DOMAIN tree[pos[1]]
        /\ At(tree, pos) = tree[pos[1]][pos[2]] /\ At(tree, pos) \in ToSet(tree[pos[1]])
    BY <1>1, <1>4, AtFacts
  <2>2. season = tree[pos[1]] /\ season \in Seq(File)
    BY <1>1, <2>1, AtFacts DEF Item
  <2>3. /\ same \in Seq(File)
        /\ ToSet(same) = {f \in ToSet(season) : f.d = dub}
        /\ same = <<>> <=> \A f \in ToSet(season) : f.d # dub
        /\ (\A f \in ToSet(season) : f.d = dub) => same = season
    <3> HIDE DEF season
    <3> QED BY <2>2, FolderFacts
  <2> HIDE DEF same, season
  <2>4. ToSet(season) \subseteq ToSet(files) /\ \A f, g \in ToSet(season) : f.s = g.s
    BY <1>1, <2>1, <2>2
  <2>5. same # <<>> => Head(same) \in ToSet(same) /\ \A n \in DOMAIN same : same[n] \in ToSet(same)
    BY <2>3 DEF ToSet
  <2>6. pick \in ToSet(files)
    BY <1>2, <1>4, <2>1, <2>2, <2>3, <2>4, <2>5
  <2>7. ASSUME dub = 0 \/ (\A f, g \in ToSet(files) : f.s = g.s => f.d = g.d)
        PROVE  pick = At(tree, pos)
    <3>1. dub = 0 \/ \A f, g \in ToSet(season) : f.d = g.d
      BY <2>4, <2>7
    <3>2. dub = 0 \/ same = <<>> \/ same = season
      BY <2>3, <3>1
    <3> QED BY <1>2, <1>4, <2>1, <2>2, <3>2
  <2>8. (\A f \in ToSet(files) : f # NoFile) => pick # NoFile
    BY <2>6
  <2> QED BY <2>6, <2>7, <2>8 DEF tree, pick
<1> QED BY <1>3, <1>4

\* The rows that list a title's seasons play what they are about.
LEMMA LabelledRight ==
    ASSUME NEW l, NEW s, Possible(l, s), PicksByLabel(l, s), NEW row, NEW dub,
           NEW i \in DOMAIN Folders(s.files, "s"), NEW j \in DOMAIN Folders(s.files, "s")[i],
           row.at = <<i, j>>, row.says = Folders(s.files, "s")[i][j]
    PROVE  LET pick == LabelledPick(Folders(s.files, "s"), row.at, dub)
           IN  /\ pick # NoFile
               /\ (dub # 0 => DubsMatch(l, s)) => Meant(s, row, dub, pick)
<1> DEFINE files == s.files
           tree == Folders(files, "s")
           pick == LabelledPick(tree, row.at, dub)
<1>1. files \in Seq(File) /\ \A f \in ToSet(files) : f # NoFile
  BY SiteFacts
<1> HIDE DEF files
<1>2. /\ At(tree, row.at) = row.says /\ row.says \in ToSet(files)
  BY <1>1, TreeFacts DEF files
<1>3. /\ pick # NoFile
      /\ dub = 0 \/ (\A f, g \in ToSet(files) : f.s = g.s => f.d = g.d) => pick = At(tree, row.at)
  BY <1>1, <1>2, LabelledPlays
<1> HIDE DEF tree, pick
<1>4. ASSUME dub # 0 => DubsMatch(l, s) PROVE Meant(s, row, dub, pick)
  <2>1. dub = 0 \/ \A f, g \in ToSet(files) : f.s = g.s => f.d = g.d
    BY <1>4 DEF DubsMatch, files
  <2>2. pick = row.says
    BY <1>2, <1>3, <2>1
  <2>3. dub # 0 => \A f \in ToSet(files) : f.d = dub /\ pick.d # dub => f.s # row.says.s
    BY <1>2, <2>1, <2>2
  <2> QED BY <2>2, <2>3 DEF Meant, files
<1> QED BY <1>3, <1>4 DEF pick, tree, files

\* A film's row plays its file.
LEMMA FilmRight ==
    ASSUME NEW s, NEW row, NEW file, row.says = file
    PROVE  Meant(s, row, 0, file)
BY DEF Meant

LEMMA KinovezhaReal ==
    ASSUME NEW s, Possible("kinovezha", s), NEW pos, NEW dub, NEW ans
    PROVE  Real("kinovezha", s, KinovezhaStream(s, pos, dub, ans))
<1> DEFINE pick == KinovezhaSelect(s, pos, dub)
           media == KinovezhaStream(s, pos, dub, ans)
<1>1. media.code = "ok" => pick # NoFile /\ media.file = pick
  BY MediaFacts DEF KinovezhaStream
<1>2. s.files \in Seq(File) /\ First(s.files) \in ToSet(s.files) \cup {NoFile}
  BY SiteFacts
<1>3. LabelledPick(Folders(s.files, "s"), pos, dub) \in ToSet(s.files) \cup {NoFile}
  BY <1>2, LabelledPlays
<1>4. pick \in ToSet(s.files) \cup {NoFile}
  BY <1>2, <1>3 DEF KinovezhaSelect
<1> HIDE DEF pick, media
<1>5. Real("kinovezha", s, media)
  BY <1>1, <1>4 DEF Real
<1> QED BY <1>5 DEF media

LEMMA KinovezhaPlays ==
    ASSUME NEW s, Possible("kinovezha", s), NEW listed, NEW ans,
           NEW row \in KinovezhaContent(s, listed).rows, NEW dub \in row.dubs \cup {0}
    PROVE  /\ Right("kinovezha", s, row, dub, KinovezhaStream(s, row.at, dub, ans))
           /\ Alive("kinovezha", s, row, dub, KinovezhaStream(s, row.at, dub, AllUp))
<1> DEFINE pick == KinovezhaSelect(s, row.at, dub)
           media(a) == KinovezhaStream(s, row.at, dub, a)
           tree == Folders(s.files, "s")
<1>1. \A a : media(a).code = "ok" => pick # NoFile /\ media(a).file = pick
  BY MediaFacts DEF KinovezhaStream
<1>2. (row \in KinovezhaSeasons(s) /\ s.series) \/ (row \in FilmRow(s.files, {}) /\ ~s.series)
  BY DetailFacts DEF KinovezhaContent
<1>3. s.files \in Seq(File) /\ \A f \in ToSet(s.files) : f # NoFile
  BY SiteFacts
<1>4. ASSUME row \in KinovezhaSeasons(s), s.series
      PROVE  /\ pick # NoFile /\ (dub # 0 => DubsMatch("kinovezha", s)) => Meant(s, row, dub, pick)
             /\ Intact(s) => pick # NoFile
  <2>1. PICK i \in DOMAIN tree : \E j \in DOMAIN tree[i] : row.at = <<i, j>> /\ row.says = tree[i][j]
    BY <1>4 DEF KinovezhaSeasons, RowsOf, Row
  <2>2. PICK j \in DOMAIN tree[i] : row.at = <<i, j>> /\ row.says = tree[i][j]
    BY <2>1
  <2>3. LET labelled == LabelledPick(tree, row.at, dub)
        IN  labelled # NoFile /\ ((dub # 0 => DubsMatch("kinovezha", s)) => Meant(s, row, dub, labelled))
    BY <2>2, LabelledRight DEF PicksByLabel
  <2>4. row.at # <<>>
    BY <2>2
  <2>5. pick = NoFile \/ pick = LabelledPick(tree, row.at, dub)
    BY <2>4 DEF KinovezhaSelect
  <2>6. Intact(s) => pick = LabelledPick(tree, row.at, dub)
    <3>1. tree[i][j] \in ToSet(s.files)
      BY <1>3, TreeFacts, Zenon
    <3>2. s.files # <<>>
      BY <3>1 DEF ToSet
    <3> QED BY <1>4, <2>4, <3>2 DEF KinovezhaSelect, Intact
  <2> QED BY <2>3, <2>5, <2>6
<1>5. ASSUME row \in FilmRow(s.files, {}), ~s.series
      PROVE  /\ pick # NoFile => Meant(s, row, dub, pick)
             /\ Intact(s) => pick # NoFile
  <2>1. s.files # <<>> /\ row.at = <<>> /\ row.says = Head(s.files) /\ dub = 0
    BY <1>5, FilmRowFacts
  <2>2. First(s.files) = Head(s.files) /\ Head(s.files) # NoFile
    BY <2>1, SiteFacts
  <2>3. pick = NoFile \/ pick = row.says
    BY <2>1, <2>2 DEF KinovezhaSelect
  <2>4. Intact(s) => pick = row.says
    BY <1>5, <2>1, <2>2 DEF KinovezhaSelect, Intact
  <2> QED BY <2>1, <2>2, <2>3, <2>4 DEF Meant
<1>6. Intact(s) => media(AllUp).code = "ok"
  <2> SUFFICES ASSUME Intact(s) PROVE media(AllUp).code = "ok"
    OBVIOUS
  <2>1. pick # NoFile
    BY <1>2, <1>4, <1>5
  <2>2. <<Lenient(AllUp.page), Unless(s.player # "none", "parse_failed"), Lenient(AllUp.player),
          Unless(s.payload \in {"url", "list"}, "parse_failed")>> = <<"ok", "ok", "ok", "ok">>
    BY UpFacts DEF Intact
  <2>3. Refusal(<<"ok", "ok", "ok", "ok">>) = "ok"
    BY NoneRefused
  <2> QED BY <2>1, <2>2, <2>3, MediaFacts DEF KinovezhaStream
<1> HIDE DEF media, pick
<1>7. Right("kinovezha", s, row, dub, media(ans))
  BY <1>1, <1>2, <1>4, <1>5 DEF Right
<1>8. Alive("kinovezha", s, row, dub, media(AllUp))
  BY <1>6 DEF Alive
<1> QED BY <1>7, <1>8 DEF media

LEMMA UaserialsproReal ==
    ASSUME NEW s, Possible("uaserialspro", s), NEW pos, NEW dub, NEW ans
    PROVE  Real("uaserialspro", s, UaserialsproStream(s, pos, dub, ans))
<1> DEFINE pick == UaserialsproSelect(s, pos, dub)
           media == UaserialsproStream(s, pos, dub, ans)
<1>1. media.code = "ok" => pick # NoFile /\ media.file = pick
  BY MediaFacts DEF UaserialsproStream
<1>2. s.files \in Seq(File) /\ First(s.files) \in ToSet(s.files) \cup {NoFile}
  BY SiteFacts
<1>3. LabelledPick(Folders(s.files, "s"), pos, dub) \in ToSet(s.files) \cup {NoFile}
  BY <1>2, LabelledPlays
<1>4. pick \in ToSet(s.files) \cup {NoFile, RawText}
  BY <1>2, <1>3 DEF UaserialsproSelect
<1> HIDE DEF pick, media
<1>5. Real("uaserialspro", s, media)
  BY <1>1, <1>4 DEF Real, Trusting
<1> QED BY <1>5 DEF media

LEMMA UaserialsproPlays ==
    ASSUME NEW s, Possible("uaserialspro", s), NEW listed, NEW ans,
           NEW row \in UaserialsproContent(s, listed).rows, NEW dub \in row.dubs \cup {0}
    PROVE  /\ Right("uaserialspro", s, row, dub, UaserialsproStream(s, row.at, dub, ans))
           /\ Alive("uaserialspro", s, row, dub, UaserialsproStream(s, row.at, dub, AllUp))
<1> DEFINE pick == UaserialsproSelect(s, row.at, dub)
           media(a) == UaserialsproStream(s, row.at, dub, a)
           tree == Folders(s.files, "s")
<1>1. \A a : media(a).code = "ok" => pick # NoFile /\ media(a).file = pick
  BY MediaFacts DEF UaserialsproStream
<1>2. row \in UaserialsproSeasons(s)
  BY DetailFacts DEF UaserialsproContent
<1>3. s.files \in Seq(File) /\ \A f \in ToSet(s.files) : f # NoFile
  BY SiteFacts
<1>4. ASSUME s.payload = "list"
      PROVE  pick # NoFile /\ ((dub # 0 => DubsMatch("uaserialspro", s)) => Meant(s, row, dub, pick))
  <2>1. PICK i \in DOMAIN tree : \E j \in DOMAIN tree[i] : row.at = <<i, j>> /\ row.says = tree[i][j]
    BY <1>2, <1>4 DEF UaserialsproSeasons, RowsOf, Row
  <2>2. PICK j \in DOMAIN tree[i] : row.at = <<i, j>> /\ row.says = tree[i][j]
    BY <2>1
  <2>3. LET labelled == LabelledPick(tree, row.at, dub)
        IN  labelled # NoFile /\ ((dub # 0 => DubsMatch("uaserialspro", s)) => Meant(s, row, dub, labelled))
    BY <2>2, LabelledRight DEF PicksByLabel
  <2>4. row.at # <<>>
    BY <2>2
  <2> QED BY <1>4, <2>3, <2>4 DEF UaserialsproSelect
<1>5. ASSUME s.payload = "url" PROVE pick # NoFile /\ Meant(s, row, dub, pick)
  <2>0. row \in FilmRow(s.files, {})
    BY <1>2, <1>5 DEF UaserialsproSeasons
  <2>1. s.files # <<>> /\ row.at = <<>> /\ row.says = Head(s.files) /\ dub = 0
    BY <2>0, FilmRowFacts
  <2>2. First(s.files) = Head(s.files) /\ Head(s.files) # NoFile
    BY <2>1, SiteFacts
  <2> QED BY <1>5, <2>1, <2>2 DEF UaserialsproSelect, Meant
<1>6. pick # NoFile /\ ((dub # 0 => DubsMatch("uaserialspro", s)) => Meant(s, row, dub, pick))
  BY <1>2, <1>4, <1>5 DEF UaserialsproSeasons
<1>7. Intact(s) => media(AllUp).code = "ok"
  <2> SUFFICES ASSUME Intact(s) PROVE media(AllUp).code = "ok"
    OBVIOUS
  <2>1. /\ <<Lenient(AllUp.page)>> = <<"ok">> /\ UaserialsproPage(s, AllUp) = <<"ok", "ok">>
        /\ <<Unless(s.payload # "none", "parse_failed")>> = <<"ok">>
    BY UpFacts DEF Intact, UaserialsproPage
  <2>2. Refusal(<<Lenient(AllUp.page)>> \o UaserialsproPage(s, AllUp)
                \o <<Unless(s.payload # "none", "parse_failed")>>) = "ok"
    BY <2>1, NoneRefused
  <2> QED BY <1>6, <2>2, MediaFacts DEF UaserialsproStream
<1> HIDE DEF media, pick
<1>8. Right("uaserialspro", s, row, dub, media(ans))
  BY <1>1, <1>6 DEF Right
<1>9. Alive("uaserialspro", s, row, dub, media(AllUp))
  BY <1>7 DEF Alive
<1> QED BY <1>8, <1>9 DEF media

-----------------------------------------------------------------------------
(* Dubs with playlists of their own, the first of them listed: serialno,       *)
(* klontv and doramyworld.                                                     *)

Lead(s) == Folders(DubFolder(s.files, 0), "s")

\* What a row of the first dub finds in another.
LEMMA AlignedPlays ==
    ASSUME NEW l, NEW s, Possible(l, s), l # "eneyida", Aligned(l, s),
           NEW i \in DOMAIN Lead(s), NEW j \in DOMAIN Lead(s)[i],
           NEW dub \in {f.d : f \in ToSet(s.files)}
    PROVE  LET says  == Lead(s)[i][j]
               found == At(Folders(Folder(s.files, "d", dub), "s"), <<i, j>>)
           IN  \/ found # NoFile /\ found.s = says.s /\ found.e = says.e /\ found.d = dub
               \/ found = NoFile /\ \A f \in ToSet(s.files) :
                                       f.d = dub => f.s # says.s \/ f.e # says.e
<1> DEFINE files == s.files
           mine == Folder(files, "d", dub)
           tree == Folders(mine, "s")
           lead == Lead(s)
           found == At(tree, <<i, j>>)
           says == lead[i][j]
<1>1. /\ files \in Seq(File) /\ \A f \in ToSet(files) : f # NoFile
      /\ files # <<>> => First(files) = Head(files)
  BY SiteFacts
<1>2. files # <<>>
  BY DEF ToSet
<1>3. lead = Folders(Folder(files, "d", First(files).d), "s")
  BY <1>1, <1>2 DEF Lead, DubFolder
<1>4. /\ \A k \in DOMAIN tree : \A n \in DOMAIN tree[k] :
            At(lead, <<k, n>>).s = tree[k][n].s /\ At(lead, <<k, n>>).e = tree[k][n].e
      /\ \A k, m \in DOMAIN lead : \A n \in DOMAIN lead[k], o \in DOMAIN lead[m] :
            lead[k][n].s = lead[m][o].s /\ lead[k][n].e = lead[m][o].e => <<k, n>> = <<m, o>>
  BY <1>3 DEF Aligned
<1> HIDE DEF files, lead
<1>5. mine \in Seq(File) /\ ToSet(mine) = {f \in ToSet(files) : f.d = dub}
  BY <1>1, FolderFacts
<1> HIDE DEF mine
<1>6. /\ tree \in Seq(Seq(File)) /\ \A f \in ToSet(mine) : \E k \in DOMAIN tree : f \in ToSet(tree[k])
      /\ \A k \in DOMAIN tree : ToSet(tree[k]) \subseteq ToSet(mine)
  BY <1>5, FoldersFacts
<1>7. At(lead, <<i, j>>) = says
  BY DEF At, lead
<1> HIDE DEF tree, says
<1>8. \/ found = NoFile
      \/ i \in DOMAIN tree /\ j \in DOMAIN tree[i] /\ found = tree[i][j] /\ found \in ToSet(tree[i])
  BY <1>6, AtFacts
<1>9. CASE found # NoFile
  BY <1>4, <1>5, <1>6, <1>7, <1>8, <1>9 DEF files, says, lead, tree, mine
<1>10. CASE found = NoFile
  <2> SUFFICES ASSUME NEW f \in ToSet(files), f.d = dub, f.s = says.s, f.e = says.e
               PROVE  FALSE
    BY <1>10 DEF files, says, lead, tree, mine
  <2>1. f \in ToSet(mine)
    BY <1>5
  <2>2. PICK k \in DOMAIN tree : f \in ToSet(tree[k])
    BY <1>6, <2>1
  <2>3. PICK n \in DOMAIN tree[k] : tree[k][n] = f
    BY <2>2 DEF ToSet
  <2> DEFINE listed == At(lead, <<k, n>>)
  <2>4. listed.s = says.s /\ listed.e = says.e
    BY <1>4, <2>3
  <2>5. listed.s # 0 \/ listed.e # 0
    <3>1. f.s # 0 \/ f.e # 0
      BY SiteFacts DEF files
    <3> QED BY <2>4, <3>1
  <2>6. k \in DOMAIN lead /\ n \in DOMAIN lead[k] /\ listed = lead[k][n]
    <3>1. listed # NoFile
      BY <2>5 DEF NoFile
    <3> QED BY <3>1 DEF At
  <2>7. <<k, n>> = <<i, j>>
    BY <1>4, <2>4, <2>6 DEF says, lead
  <2>8. found = f
    BY <1>6, <2>3, <2>7, AtFacts
  <2> QED BY <1>1, <1>10, <2>8
<1> QED BY <1>9, <1>10 DEF says, lead, tree, mine, files

LEMMA DubFolderFacts ==
    ASSUME NEW files \in Seq(File), NEW dub
    PROVE  /\ DubFolder(files, dub) \in Seq(File) /\ ToSet(DubFolder(files, dub)) \subseteq ToSet(files)
           /\ files # <<>> => DubFolder(files, 0) = Folder(files, "d", Head(files).d)
           /\ files # <<>> => DubFolder(files, 0) # <<>> /\ Head(DubFolder(files, 0)) = Head(files)
           /\ dub # 0 /\ (\E f \in ToSet(files) : f.d = dub) => DubFolder(files, dub) = Folder(files, "d", dub)
           /\ (\A f \in ToSet(files) : f.d # dub) => DubFolder(files, dub) = DubFolder(files, 0)
           /\ files = <<>> => DubFolder(files, dub) = <<>>
<1> DEFINE l == Labels(files, "d")
<1>1. \A v : Folder(files, "d", v) \in Seq(File) /\ ToSet(Folder(files, "d", v)) \subseteq ToSet(files)
  BY FolderFacts
<1>2. files # <<>> => Folder(files, "d", Head(files).d) # <<>>
                      /\ Head(Folder(files, "d", Head(files).d)) = Head(files)
  <2> SUFFICES ASSUME files # <<>>
               PROVE  Folder(files, "d", Head(files).d) # <<>>
                      /\ Head(Folder(files, "d", Head(files).d)) = Head(files)
    OBVIOUS
  <2> DEFINE v == Head(files).d
             mine == Folder(files, "d", v)
  <2>1. Head(files) \in ToSet(files)
    BY DEF ToSet
  <2>2. /\ mine = <<>> <=> \A f \in ToSet(files) : f.d # v
        /\ files # <<>> /\ Head(files).d = v => Head(mine) = Head(files)
    BY FolderFacts
  <2> HIDE DEF mine
  <2>3. mine # <<>> /\ Head(mine) = Head(files)
    BY <2>1, <2>2
  <2> QED BY <2>3 DEF mine
<1>3. /\ \A n \in DOMAIN l : \E f \in ToSet(files) : l[n] = f["d"]
      /\ DOMAIN l = 1 .. Len(l)
      /\ \A f \in ToSet(files) : \E n \in DOMAIN l : l[n] = f["d"]
  BY LabelsFacts
<1> HIDE DEF l
<1>4. Contains(l, dub) <=> \E f \in ToSet(files) : f.d = dub
  <2>1. Contains(l, dub) <=> \E n \in DOMAIN l : l[n] = dub
    BY <1>3 DEF Contains
  <2> QED BY <1>3, <2>1
<1>5. files = <<>> => \A f \in ToSet(files) : FALSE
  BY DEF ToSet
<1>6. DubFolder(files, dub) =
        IF dub # 0 /\ Contains(l, dub) THEN Folder(files, "d", dub)
        ELSE IF files = <<>> THEN <<>> ELSE Folder(files, "d", Head(files).d)
  BY DEF DubFolder, l
<1>7. DubFolder(files, 0) = IF files = <<>> THEN <<>> ELSE Folder(files, "d", Head(files).d)
  BY DEF DubFolder
<1>8. <<>> \in Seq(File) /\ ToSet(<<>>) = {}
  BY DEF ToSet
<1>9. ASSUME \A f \in ToSet(files) : f.d # dub
      PROVE  DubFolder(files, dub) = DubFolder(files, 0)
  BY <1>4, <1>6, <1>7, <1>9
<1>10. ASSUME dub # 0, \E f \in ToSet(files) : f.d = dub
       PROVE  DubFolder(files, dub) = Folder(files, "d", dub)
  BY <1>4, <1>6, <1>10
<1>11. DubFolder(files, dub) \in Seq(File) /\ ToSet(DubFolder(files, dub)) \subseteq ToSet(files)
  BY <1>1, <1>6, <1>8
<1>12. files = <<>> => DubFolder(files, dub) = <<>>
  BY <1>4, <1>5, <1>6
<1> QED BY <1>2, <1>7, <1>9, <1>10, <1>11, <1>12

\* The seasons of the first dub, and what any tree of seasons holds.
LEMMA LeadFacts ==
    ASSUME NEW l, NEW s, Possible(l, s)
    PROVE  /\ \A i \in DOMAIN Lead(s) : \A j \in DOMAIN Lead(s)[i] :
                 /\ At(Lead(s), <<i, j>>) = Lead(s)[i][j] /\ Lead(s)[i][j] \in ToSet(s.files)
                 /\ Lead(s)[i][j] # NoFile
           /\ \A pos : At(Lead(s), pos) \in ToSet(s.files) \cup {NoFile}
           /\ \A pos, v : At(Folders(Folder(s.files, "d", v), "s"), pos) \in ToSet(s.files) \cup {NoFile}
           /\ \A pos, v : At(Folders(DubFolder(s.files, v), "s"), pos) \in ToSet(s.files) \cup {NoFile}
           /\ \A pos : At(Folders(s.files, "s"), pos) \in ToSet(s.files) \cup {NoFile}
<1>1. s.files \in Seq(File) /\ \A f \in ToSet(s.files) : f # NoFile
  BY SiteFacts
<1> DEFINE first == DubFolder(s.files, 0)
<1>2. first \in Seq(File) /\ ToSet(first) \subseteq ToSet(s.files)
  BY <1>1, DubFolderFacts
<1> HIDE DEF first
<1>3. ASSUME NEW i \in DOMAIN Lead(s), NEW j \in DOMAIN Lead(s)[i]
      PROVE  /\ At(Lead(s), <<i, j>>) = Lead(s)[i][j] /\ Lead(s)[i][j] \in ToSet(s.files)
             /\ Lead(s)[i][j] # NoFile
  <2>1. Lead(s) = Folders(first, "s")
    BY DEF Lead, first
  <2>2. At(Lead(s), <<i, j>>) = Lead(s)[i][j] /\ Lead(s)[i][j] \in ToSet(first)
    BY <1>2, <2>1, TreeFacts
  <2> QED BY <1>1, <1>2, <2>2
<1>4. ASSUME NEW files \in Seq(File), ToSet(files) \subseteq ToSet(s.files), NEW pos
      PROVE  At(Folders(files, "s"), pos) \in ToSet(s.files) \cup {NoFile}
  <2>1. At(Folders(files, "s"), pos) = NoFile \/ At(Folders(files, "s"), pos) \in ToSet(files)
    BY TreeFacts
  <2> QED BY <1>4, <2>1
<1>5. \A v : Folder(s.files, "d", v) \in Seq(File) /\ ToSet(Folder(s.files, "d", v)) \subseteq ToSet(s.files)
  BY <1>1, FolderFacts
<1>6. \A v : DubFolder(s.files, v) \in Seq(File) /\ ToSet(DubFolder(s.files, v)) \subseteq ToSet(s.files)
  BY <1>1, DubFolderFacts
<1>7. \A pos, v : At(Folders(Folder(s.files, "d", v), "s"), pos) \in ToSet(s.files) \cup {NoFile}
  BY <1>4, <1>5
<1>8. \A pos, v : At(Folders(DubFolder(s.files, v), "s"), pos) \in ToSet(s.files) \cup {NoFile}
  BY <1>4, <1>6
<1>9. \A pos : At(Folders(s.files, "s"), pos) \in ToSet(s.files) \cup {NoFile}
  BY <1>1, <1>4
<1>10. \A pos : At(Lead(s), pos) \in ToSet(s.files) \cup {NoFile}
  BY <1>8 DEF Lead
<1> QED BY <1>3, <1>7, <1>8, <1>9, <1>10

LEMMA SerialnoReal ==
    ASSUME NEW s, Possible("serialno", s), NEW pos, NEW dub, NEW ans
    PROVE  Real("serialno", s, SerialnoStream(s, pos, dub, ans))
<1> DEFINE pick == SerialnoSelect(s, pos, dub)
           media == SerialnoStream(s, pos, dub, ans)
<1>1. media.code = "ok" => pick # NoFile /\ media.file = pick
  BY MediaFacts DEF SerialnoStream
<1>2. s.files \in Seq(File)
  BY SiteFacts
<1>3. LabelledPick(Folders(s.files, "s"), pos, dub) \in ToSet(s.files) \cup {NoFile}
  BY <1>2, LabelledPlays
<1>4. /\ At(Lead(s), pos) \in ToSet(s.files) \cup {NoFile}
      /\ At(Folders(Folder(s.files, "d", dub), "s"), pos) \in ToSet(s.files) \cup {NoFile}
  BY LeadFacts
<1>5. NormalizeSeasons(s) = IF s.shape = "flat" THEN Folders(s.files, "s") ELSE Lead(s)
  BY DEF NormalizeSeasons, Lead
<1>6. pick \in ToSet(s.files) \cup {NoFile}
  BY <1>3, <1>4, <1>5 DEF SerialnoSelect
<1> HIDE DEF pick, media
<1>7. Real("serialno", s, media)
  BY <1>1, <1>6 DEF Real
<1> QED BY <1>7 DEF media

LEMMA SerialnoPlays ==
    ASSUME NEW s, Possible("serialno", s), NEW listed, NEW ans,
           NEW row \in SerialnoContent(s, listed).rows, NEW dub \in row.dubs \cup {0}
    PROVE  /\ Right("serialno", s, row, dub, SerialnoStream(s, row.at, dub, ans))
           /\ Alive("serialno", s, row, dub, SerialnoStream(s, row.at, dub, AllUp))
<1> DEFINE pick == SerialnoSelect(s, row.at, dub)
           media(a) == SerialnoStream(s, row.at, dub, a)
           tree == NormalizeSeasons(s)
<1>1. \A a : media(a).code = "ok" => pick # NoFile /\ media(a).file = pick
  BY MediaFacts DEF SerialnoStream
<1>2. row \in SerialnoSeasons(s)
  BY DetailFacts DEF SerialnoContent
<1>3. s.files \in Seq(File) /\ \A f \in ToSet(s.files) : f # NoFile
  BY SiteFacts
<1>4. PICK i \in DOMAIN tree : \E j \in DOMAIN tree[i] :
         /\ row.at = <<i, j>> /\ row.says = tree[i][j]
         /\ s.shape # "flat" => row.dubs = DubsOf(s.files)
  BY <1>2 DEF SerialnoSeasons, RowsOf, Row
<1>5. PICK j \in DOMAIN tree[i] :
         /\ row.at = <<i, j>> /\ row.says = tree[i][j]
         /\ s.shape # "flat" => row.dubs = DubsOf(s.files)
  BY <1>4
<1>6. tree = IF s.shape = "flat" THEN Folders(s.files, "s") ELSE Lead(s)
  BY DEF NormalizeSeasons, Lead
<1> HIDE DEF tree
<1>7. row.at # <<>>
  BY <1>5
<1>8. ASSUME s.shape = "flat"
      PROVE  pick # NoFile /\ ((dub # 0 => DubsMatch("serialno", s)) => Meant(s, row, dub, pick))
  <2>1. tree = Folders(s.files, "s")
    BY <1>6, <1>8
  <2>2. LET labelled == LabelledPick(tree, row.at, dub)
        IN  /\ labelled # NoFile
            /\ (dub # 0 => DubsMatch("serialno", s)) => Meant(s, row, dub, labelled)
    BY <1>5, <1>8, <2>1, LabelledRight DEF PicksByLabel
  <2>3. tree[i][j] \in ToSet(s.files)
    BY <1>3, <2>1, TreeFacts
  <2>4. s.files # <<>>
    BY <2>3 DEF ToSet
  <2> QED BY <1>7, <1>8, <2>2, <2>4 DEF SerialnoSelect, tree
<1>9. ASSUME s.shape # "flat"
      PROVE  /\ (dub # 0 => DubsMatch("serialno", s)) => Meant(s, row, dub, pick)
             /\ dub = 0 => pick # NoFile
  <2>1. tree = Lead(s)
    BY <1>6, <1>9
  <2>2. /\ At(tree, row.at) = row.says /\ row.says \in ToSet(s.files) /\ row.says # NoFile
    BY <1>5, <2>1, LeadFacts
  <2>3. s.files # <<>>
    BY <2>2 DEF ToSet
  <2> DEFINE found == At(Folders(Folder(s.files, "d", dub), "s"), row.at)
  <2>4. pick = IF dub # 0 /\ found # NoFile THEN found ELSE row.says
    BY <1>7, <1>9, <2>2, <2>3 DEF SerialnoSelect, tree
  <2>5. ASSUME DubsMatch("serialno", s), dub # 0
        PROVE  \/ found # NoFile /\ found.s = row.says.s /\ found.e = row.says.e /\ found.d = dub
               \/ found = NoFile /\ \A f \in ToSet(s.files) :
                                       f.d = dub => f.s # row.says.s \/ f.e # row.says.e
    <3>1. Aligned("serialno", s)
      BY <1>9, <2>5 DEF DubsMatch, PicksByPosition
    <3>2. dub \in {f.d : f \in ToSet(s.files)}
      BY <1>5, <1>9, <2>5 DEF DubsOf
    <3> QED BY <1>5, <2>1, <3>1, <3>2, AlignedPlays
  <2> HIDE DEF found, pick
  <2> QED BY <2>2, <2>4, <2>5 DEF Meant
<1>10. Intact(s) /\ pick # NoFile => media(AllUp).code = "ok"
  <2> SUFFICES ASSUME Intact(s), pick # NoFile PROVE media(AllUp).code = "ok"
    OBVIOUS
  <2>1. s.payload = "list"
    <3> DEFINE p == <<Lenient(listed.page), Unless(s.titled, "parse_failed")>>
               q == SerialnoPage(s, listed)
               S == {p[1], p[2], q[1], q[2], q[3], q[4]}
    <3>1. Refusal(p \o q) = "ok"
      BY DetailFacts DEF SerialnoContent
    <3>2. p \in Seq(S) /\ q \in Seq(S) /\ Len(q) = 4
      BY DEF SerialnoPage
    <3>3. q[4] = Unless(s.payload = "list", "parse_failed")
      BY DEF SerialnoPage
    <3> HIDE DEF p, q, S
    <3>4. Refusal(q) = "ok"
      BY <3>1, <3>2, OkJoin
    <3>5. 4 \in 1 .. Len(q)
      BY <3>2
    <3>6. q[4] = "ok"
      BY <3>2, <3>4, <3>5, OkPasses
    <3> QED BY <3>3, <3>6 DEF Unless
  <2>2. SerialnoPage(s, AllUp) = <<"ok", "ok", "ok", "ok">>
    BY <2>1, UpFacts DEF Intact, SerialnoPage
  <2>3. Refusal(<<"ok", "ok", "ok", "ok">>) = "ok"
    BY NoneRefused
  <2> QED BY <2>2, <2>3, MediaFacts DEF SerialnoStream
<1> HIDE DEF media, pick
<1>11. Right("serialno", s, row, dub, media(ans))
  BY <1>1, <1>8, <1>9 DEF Right
<1>12. Alive("serialno", s, row, dub, media(AllUp))
  BY <1>8, <1>9, <1>10 DEF Alive, PicksByPosition
<1> QED BY <1>11, <1>12 DEF media

LEMMA DoramyReal ==
    ASSUME NEW s, Possible("doramyworld", s), NEW pos, NEW dub, NEW ans
    PROVE  Real("doramyworld", s, DoramyStream(s, pos, dub, ans))
<1> DEFINE pick == DoramySelect(s, pos, dub)
           media == DoramyStream(s, pos, dub, ans)
<1>1. media.code = "ok" => pick # NoFile /\ media.file = pick
  BY MediaFacts DEF DoramyStream
<1>2. pick \in ToSet(s.files) \cup {NoFile}
  BY LeadFacts DEF DoramySelect
<1> HIDE DEF pick, media
<1>3. Real("doramyworld", s, media)
  BY <1>1, <1>2 DEF Real
<1> QED BY <1>3 DEF media

\* The dub that is played: one with the id asked for, or the first.
LEMMA DoramyDub ==
    ASSUME NEW s, Possible("doramyworld", s), s.files # <<>>, NEW pos,
           NEW dub \in {TranslationId(f.d) : f \in ToSet(s.files)} \cup {0}
    PROVE  /\ dub = 0 => DoramySelect(s, pos, dub) = At(Lead(s), pos)
           /\ dub # 0 => \E d \in {f.d : f \in ToSet(s.files)} :
                 TranslationId(d) = dub /\ DoramySelect(s, pos, dub) = At(Folders(Folder(s.files, "d", d), "s"), pos)
<1> DEFINE l == Labels(s.files, "d")
           test == {n \in DOMAIN l : TranslationId(l[n]) = dub}
           match == Picked(l, test)
           dubs == IF match = <<>> THEN l ELSE match
           S == {l[n] : n \in DOMAIN l}
<1>1. s.files \in Seq(File) /\ \A f \in ToSet(s.files) : f \in File
  BY SiteFacts
<1>2. /\ DOMAIN l = 1 .. Len(l) /\ Len(l) \in Nat
      /\ \A n \in DOMAIN l : \E f \in ToSet(s.files) : l[n] = f.d
      /\ \A f \in ToSet(s.files) : \E n \in DOMAIN l : l[n] = f.d
      /\ l # <<>> /\ l[1] = Head(s.files).d
  <2> DEFINE files == s.files
  <2>1. files \in Seq(File) /\ files # <<>>
    BY <1>1
  <2> HIDE DEF files
  <2>2. /\ DOMAIN Labels(files, "d") = 1 .. Len(Labels(files, "d")) /\ Len(Labels(files, "d")) \in Nat
        /\ \A n \in DOMAIN Labels(files, "d") : \E f \in ToSet(files) : Labels(files, "d")[n] = f.d
        /\ \A f \in ToSet(files) : \E n \in DOMAIN Labels(files, "d") : Labels(files, "d")[n] = f.d
        /\ Labels(files, "d") # <<>> /\ Labels(files, "d")[1] = Head(files).d
    <3>1. /\ DOMAIN Labels(files, "d") = 1 .. Len(Labels(files, "d")) /\ Len(Labels(files, "d")) \in Nat
          /\ \A n \in DOMAIN Labels(files, "d") : \E f \in ToSet(files) : Labels(files, "d")[n] = f.d
      BY <2>1, LabelsFacts
    <3>2. \A f \in ToSet(files) : \E n \in DOMAIN Labels(files, "d") : Labels(files, "d")[n] = f.d
      BY <2>1, LabelsFacts
    <3>3. Labels(files, "d") # <<>> /\ Labels(files, "d")[1] = Head(files)["d"]
      BY <2>1, LabelsFacts
    <3> QED BY <3>1, <3>2, <3>3
  <2> QED BY <2>2 DEF files
<1>3. l = [n \in DOMAIN l |-> l[n]]
  BY DEF Labels
<1>4. DoramySelect(s, pos, dub) =
        IF dubs = <<>> THEN NoFile ELSE At(Folders(Folder(s.files, "d", Head(dubs)), "s"), pos)
  BY DEF DoramySelect, Those
<1> HIDE DEF l
<1>5. l \in Seq(S)
  BY <1>2, <1>3
<1>6. /\ match \in Seq(S) /\ ToSet(match) = {l[n] : n \in test}
      /\ match = <<>> <=> test = {}
  <2>1. test \in SUBSET (DOMAIN l)
    OBVIOUS
  <2> HIDE DEF test, S
  <2> QED BY <1>5, <2>1, PickedFacts
<1> HIDE DEF match
<1>7. ASSUME dub = 0 PROVE DoramySelect(s, pos, dub) = At(Lead(s), pos)
  <2>1. test = {}
    BY <1>7 DEF TranslationId, Uk
  <2>2. dubs = l /\ l # <<>> /\ Head(l) = Head(s.files).d
    BY <1>2, <1>6, <2>1
  <2>3. DubFolder(s.files, 0) = Folder(s.files, "d", Head(s.files).d)
    BY <1>1, DubFolderFacts
  <2> QED BY <1>4, <2>2, <2>3 DEF Lead
<1>8. ASSUME dub # 0
      PROVE  \E d \in {f.d : f \in ToSet(s.files)} :
                 TranslationId(d) = dub /\ DoramySelect(s, pos, dub) = At(Folders(Folder(s.files, "d", d), "s"), pos)
  <2>1. PICK f \in ToSet(s.files) : TranslationId(f.d) = dub
    BY <1>8
  <2>2. test # {}
    BY <1>2, <2>1
  <2>3. match # <<>> /\ dubs = match
    BY <1>6, <2>2
  <2>4. Head(match) \in ToSet(match)
    BY <1>6, <2>3 DEF ToSet
  <2>5. PICK n \in test : Head(match) = l[n]
    BY <1>6, <2>4
  <2>6. n \in DOMAIN l /\ TranslationId(l[n]) = dub
    BY <2>5
  <2> QED BY <1>2, <1>4, <2>3, <2>5, <2>6
<1> QED BY <1>7, <1>8

LEMMA DoramyPlays ==
    ASSUME NEW s, Possible("doramyworld", s), NEW listed, NEW ans,
           NEW row \in DoramyContent(s, listed).rows, NEW dub \in row.dubs \cup {0}
    PROVE  /\ Right("doramyworld", s, row, dub, DoramyStream(s, row.at, dub, ans))
           /\ Alive("doramyworld", s, row, dub, DoramyStream(s, row.at, dub, AllUp))
<1> DEFINE pick == DoramySelect(s, row.at, dub)
           media(a) == DoramyStream(s, row.at, dub, a)
           ids == {TranslationId(g.d) : g \in ToSet(s.files)}
<1>1. \A a : media(a).code = "ok" => pick # NoFile /\ media(a).file = pick
  BY MediaFacts DEF DoramyStream
<1>2. PICK i \in DOMAIN Lead(s) : \E j \in DOMAIN Lead(s)[i] :
         row.at = <<i, j>> /\ row.says = Lead(s)[i][j] /\ row.dubs = ids
  BY DetailFacts DEF DoramyContent, RowsOf, Row, Lead
<1>3. PICK j \in DOMAIN Lead(s)[i] : row.at = <<i, j>> /\ row.says = Lead(s)[i][j] /\ row.dubs = ids
  BY <1>2
<1>4. At(Lead(s), row.at) = row.says /\ row.says \in ToSet(s.files) /\ row.says # NoFile
  BY <1>3, LeadFacts
<1>5. s.files # <<>> /\ \A f \in ToSet(s.files) : f.d # Uk
  BY <1>4, SiteFacts DEF ToSet
<1>6. /\ dub = 0 => pick = row.says
      /\ dub # 0 => \E d \in {f.d : f \in ToSet(s.files)} :
            TranslationId(d) = dub /\ pick = At(Folders(Folder(s.files, "d", d), "s"), row.at)
  BY <1>3, <1>4, <1>5, DoramyDub
<1>7. ASSUME dub # 0 => DubsMatch("doramyworld", s), pick # NoFile
      PROVE  Meant(s, row, dub, pick)
  <2>1. CASE dub = 0
    BY <1>6, <2>1 DEF Meant
  <2>2. CASE dub # 0
    <3>1. PICK d \in {f.d : f \in ToSet(s.files)} :
            TranslationId(d) = dub /\ pick = At(Folders(Folder(s.files, "d", d), "s"), row.at)
      BY <1>6, <2>2
    <3>2. Aligned("doramyworld", s)
      BY <1>7, <2>2 DEF DubsMatch, PicksByPosition
    <3> HIDE DEF pick
    <3>3. pick.s = row.says.s /\ pick.e = row.says.e /\ pick.d = d
      BY <1>3, <1>7, <3>1, <3>2, AlignedPlays
    <3>4. dub = Uk \/ dub = d
      BY <3>1 DEF TranslationId
    <3> QED BY <1>5, <3>3, <3>4 DEF Meant
  <2> QED BY <2>1, <2>2
<1>8. ASSUME Intact(s), dub = 0 PROVE media(AllUp).code = "ok"
  <2>1. pick # NoFile
    BY <1>4, <1>6, <1>8
  <2>2. <<Unless(row.at # <<>>, "not_found"), Lenient(AllUp.page), Unless(s.player # "none", "parse_failed"),
          Unless(pick # NoFile, "not_found"), Lenient(AllUp.player), Unless(s.payload # "none", "parse_failed")>>
        = <<"ok", "ok", "ok", "ok", "ok", "ok">>
    <3>1. row.at # <<>>
      BY <1>3
    <3> HIDE DEF pick
    <3> QED BY <1>8, <2>1, <3>1, UpFacts DEF Intact
  <2>3. Refusal(<<"ok", "ok", "ok", "ok", "ok", "ok">>) = "ok"
    BY NoneRefused
  <2> QED BY <2>1, <2>2, <2>3, MediaFacts DEF DoramyStream
<1> HIDE DEF media, pick
<1>9. Right("doramyworld", s, row, dub, media(ans))
  BY <1>1, <1>7 DEF Right
<1>10. Alive("doramyworld", s, row, dub, media(AllUp))
  BY <1>8 DEF Alive, PicksByPosition
<1> QED BY <1>9, <1>10 DEF media

LEMMA ItemFacts ==
    ASSUME NEW files \in Seq(File), NEW field, NEW n
    PROVE  /\ Item(Folders(files, field), n) \in Seq(File)
           /\ ToSet(Item(Folders(files, field), n)) \subseteq ToSet(files)
<1> DEFINE tree == Folders(files, field)
<1>1. tree \in Seq(Seq(File)) /\ \A i \in DOMAIN tree : ToSet(tree[i]) \subseteq ToSet(files)
  BY FoldersFacts
<1>2. <<>> \in Seq(File) /\ ToSet(<<>>) = {}
  BY DEF ToSet
<1> HIDE DEF tree
<1>3. Item(tree, n) \in Seq(File) /\ ToSet(Item(tree, n)) \subseteq ToSet(files)
  BY <1>1, <1>2 DEF Item
<1> QED BY <1>3 DEF tree

LEMMA SingleFacts ==
    ASSUME NEW q \in Seq(File)
    PROVE  /\ \A pos : At(<<q>>, pos) \in ToSet(q) \cup {NoFile}
           /\ \A j : At(<<q>>, <<1, j>>) = IF j \in DOMAIN q THEN q[j] ELSE NoFile
<1>1. DOMAIN <<q>> = {1} /\ <<q>>[1] = q
  OBVIOUS
<1>2. \A j \in DOMAIN q : q[j] \in ToSet(q)
  BY DEF ToSet
<1> DEFINE tree == <<q>>
<1> HIDE DEF tree
<1>3. DOMAIN tree = {1} /\ tree[1] = q
  BY <1>1 DEF tree
<1>4. \A pos : At(tree, pos) \in ToSet(q) \cup {NoFile}
  BY <1>2, <1>3 DEF At
<1>5. \A j : At(tree, <<1, j>>) = IF j \in DOMAIN q THEN q[j] ELSE NoFile
  BY <1>3 DEF At
<1> QED BY <1>4, <1>5 DEF tree

LEMMA KlontvReal ==
    ASSUME NEW s, Possible("klontv", s), NEW pos, NEW dub, NEW ans
    PROVE  Real("klontv", s, KlontvStream(s, pos, dub, ans))
<1> DEFINE pick == KlontvSelect(s, pos, dub)
           media == KlontvStream(s, pos, dub, ans)
           season == Item(Folders(s.files, "s"), pos[1])
           Here == ToSet(s.files) \cup {NoFile}
<1>1. media.code = "ok" => pick # NoFile /\ media.file = pick
  BY MediaFacts DEF KlontvStream
<1>2. s.files \in Seq(File) /\ First(s.files) \in Here
  BY SiteFacts
<1>3. LabelledPick(Folders(s.files, "s"), pos, dub) \in Here
  BY <1>2, LabelledPlays
<1>4. /\ At(Folders(s.files, "s"), pos) \in Here
      /\ At(Folders(DubFolder(s.files, dub), "s"), pos) \in Here
  BY LeadFacts
<1>5. At(Folders(s.files, "d"), pos) \in Here
  BY <1>2, TreeFacts
<1>6. At(<<DubFolder(season, dub)>>, <<1, pos[2]>>) \in Here
  <2>1. season \in Seq(File) /\ ToSet(season) \subseteq ToSet(s.files)
    BY <1>2, ItemFacts
  <2> HIDE DEF season
  <2>2. DubFolder(season, dub) \in Seq(File) /\ ToSet(DubFolder(season, dub)) \subseteq ToSet(season)
    BY <2>1, DubFolderFacts
  <2>3. At(<<DubFolder(season, dub)>>, <<1, pos[2]>>) \in ToSet(DubFolder(season, dub)) \cup {NoFile}
    BY <2>2, SingleFacts
  <2> QED BY <2>1, <2>2, <2>3
<1> HIDE DEF Here, season
<1>7. WalkPlaylist(s, pos, dub) \in Here
  BY <1>3, <1>4, <1>5, <1>6 DEF WalkPlaylist, season
<1>8. pick \in Here
  <2>1. NoFile \in Here
    BY DEF Here
  <2> QED BY <1>2, <1>7, <2>1 DEF KlontvSelect
<1> HIDE DEF pick, media
<1>9. Real("klontv", s, media)
  BY <1>1, <1>8 DEF Real, Here
<1> QED BY <1>9 DEF media

LEMMA KlontvPlays ==
    ASSUME NEW s, Possible("klontv", s), NEW listed, NEW ans,
           NEW row \in KlontvContent(s, listed).rows, NEW dub \in row.dubs \cup {0}
    PROVE  /\ Right("klontv", s, row, dub, KlontvStream(s, row.at, dub, ans))
           /\ Alive("klontv", s, row, dub, KlontvStream(s, row.at, dub, AllUp))
<1> DEFINE pick == KlontvSelect(s, row.at, dub)
           media(a) == KlontvStream(s, row.at, dub, a)
           tracks == Folders(s.files, "d")
<1>1. \A a : media(a).code = "ok" => pick # NoFile /\ media(a).file = pick
  BY MediaFacts DEF KlontvStream
<1>2. s.files \in Seq(File) /\ \A f \in ToSet(s.files) : f # NoFile /\ f.d # Uk
  BY SiteFacts
<1>3. row \in KlontvSeasons(s, listed) \/ (row \in FilmRow(s.files, {}) /\ ~s.series)
  BY DetailFacts DEF KlontvContent
<1>4. ASSUME row \in FilmRow(s.files, {}), ~s.series
      PROVE  /\ pick # NoFile => Meant(s, row, dub, pick)
             /\ Intact(s) => pick # NoFile
  <2>1. s.files # <<>> /\ row.at = <<>> /\ row.says = Head(s.files) /\ dub = 0
    BY <1>4, FilmRowFacts
  <2>2. First(s.files) = Head(s.files) /\ Head(s.files) # NoFile
    BY <2>1, SiteFacts
  <2>3. pick = NoFile \/ pick = row.says
    BY <2>1, <2>2 DEF KlontvSelect
  <2>4. Intact(s) => pick = row.says
    BY <1>4, <2>1, <2>2 DEF KlontvSelect, Intact
  <2> QED BY <2>1, <2>2, <2>3, <2>4 DEF Meant
<1>5. ASSUME row \in KlontvSeasons(s, listed), s.shape = "dubbed"
      PROVE  /\ (dub # 0 => DubsMatch("klontv", s)) /\ pick # NoFile => Meant(s, row, dub, pick)
             /\ dub = 0 => pick # NoFile
  <2>1. PICK i \in DOMAIN Lead(s) : \E j \in DOMAIN Lead(s)[i] :
           row.at = <<i, j>> /\ row.says = Lead(s)[i][j] /\ row.dubs = DubsOf(s.files) /\ s.payload = "list"
    BY <1>5 DEF KlontvSeasons, RowsOf, Row, Lead
  <2>2. PICK j \in DOMAIN Lead(s)[i] :
           row.at = <<i, j>> /\ row.says = Lead(s)[i][j] /\ row.dubs = DubsOf(s.files) /\ s.payload = "list"
    BY <2>1
  <2>3. At(Lead(s), row.at) = row.says /\ row.says \in ToSet(s.files) /\ row.says # NoFile
    BY <2>2, LeadFacts
  <2>4. row.at # <<>>
    BY <2>2
  <2>5. pick = At(Folders(DubFolder(s.files, dub), "s"), row.at)
    BY <1>5, <2>2, <2>4 DEF KlontvSelect, WalkPlaylist
  <2>6. dub = 0 => pick = row.says
    BY <2>3, <2>5 DEF Lead
  <2>7. ASSUME dub # 0, DubsMatch("klontv", s), pick # NoFile PROVE Meant(s, row, dub, pick)
    <3>1. PICK f \in ToSet(s.files) : f.d = dub
      BY <2>2, <2>7 DEF DubsOf
    <3>2. DubFolder(s.files, dub) = Folder(s.files, "d", dub)
      BY <1>2, <2>7, <3>1, DubFolderFacts
    <3>3. Aligned("klontv", s) /\ dub \in {g.d : g \in ToSet(s.files)}
      BY <2>7, <3>1 DEF DubsMatch, PicksByPosition
    <3>4. pick = At(Folders(Folder(s.files, "d", dub), "s"), row.at)
      BY <2>5, <3>2
    <3> HIDE DEF pick
    <3>5. pick.s = row.says.s /\ pick.e = row.says.e /\ pick.d = dub
      BY <2>2, <2>7, <3>3, <3>4, AlignedPlays
    <3> QED BY <3>5 DEF Meant
  <2> QED BY <2>3, <2>6, <2>7 DEF Meant
<1>6. ASSUME row \in KlontvSeasons(s, listed), s.shape = "tracks"
      PROVE  Meant(s, row, dub, pick) /\ pick # NoFile
  <2>1. PICK i \in DOMAIN tracks : \E j \in DOMAIN tracks[i] :
           row.at = <<i, j>> /\ row.says = tracks[i][j] /\ row.dubs = {Uk} /\ s.payload = "list"
    BY <1>6 DEF KlontvSeasons, RowsOf, Row
  <2>2. PICK j \in DOMAIN tracks[i] :
           row.at = <<i, j>> /\ row.says = tracks[i][j] /\ row.dubs = {Uk} /\ s.payload = "list"
    BY <2>1
  <2>3. At(tracks, row.at) = row.says /\ row.says \in ToSet(s.files) /\ row.says # NoFile
    BY <1>2, <2>2, TreeFacts
  <2>4. row.at # <<>>
    BY <2>2
  <2>5. pick = row.says
    BY <1>6, <2>2, <2>3, <2>4 DEF KlontvSelect, WalkPlaylist
  <2> QED BY <1>2, <2>2, <2>3, <2>5 DEF Meant
<1>7. row \in KlontvSeasons(s, listed) => s.shape \in {"dubbed", "tracks"} /\ s.payload = "list"
  BY DEF KlontvSeasons
<1>8. ASSUME Intact(s), pick # NoFile PROVE media(AllUp).code = "ok"
  <2>1. <<Lenient(AllUp.page), Unless(s.player # "none", "parse_failed"), Lenient(AllUp.player),
          Unless(s.payload # "none", "parse_failed")>> = <<"ok", "ok", "ok", "ok">>
    BY <1>8, UpFacts DEF Intact
  <2>2. Refusal(<<"ok", "ok", "ok", "ok">>) = "ok"
    BY NoneRefused
  <2> QED BY <1>8, <2>1, <2>2, MediaFacts DEF KlontvStream
<1> HIDE DEF media, pick
<1>9. Right("klontv", s, row, dub, media(ans))
  BY <1>1, <1>3, <1>4, <1>5, <1>6, <1>7 DEF Right
<1>10. Alive("klontv", s, row, dub, media(AllUp))
  BY <1>3, <1>4, <1>5, <1>6, <1>7, <1>8 DEF Alive, PicksByPosition
<1> QED BY <1>9, <1>10 DEF media

-----------------------------------------------------------------------------
(* Folders inside folders.                                                     *)

Increases(g, n) == g \in [1 .. n -> Nat] /\ \A i, j \in 1 .. n : i < j => g[i] < g[j]

Covers(h, m, g, n) == \A i \in 1 .. n : \E j \in 1 .. m : h[j] = g[i]

\* A set of numbers is run through in one way.
LEMMA OneWay ==
    ASSUME NEW n \in Nat, NEW m \in Nat, NEW g, NEW h, Increases(g, n), Increases(h, m),
           Covers(h, m, g, n), Covers(g, n, h, m)
    PROVE  n = m /\ \A i \in 1 .. n : g[i] = h[i]
<1>0. /\ \A i \in 1 .. n : \E j \in 1 .. m : h[j] = g[i]
      /\ \A j \in 1 .. m : \E i \in 1 .. n : g[i] = h[j]
  BY DEF Covers
<1>1. /\ \A i \in 1 .. n : g[i] \in Nat
      /\ \A i, j \in 1 .. n : i < j => g[i] < g[j]
      /\ \A i \in 1 .. m : h[i] \in Nat
      /\ \A i, j \in 1 .. m : i < j => h[i] < h[j]
  BY DEF Increases
<1> DEFINE Differ == {i \in Nat : i \in 1 .. n \cup 1 .. m /\ ~(i \in 1 .. n /\ i \in 1 .. m /\ g[i] = h[i])}
<1>2. Differ = {}
  <2> SUFFICES ASSUME Differ # {} PROVE FALSE
    OBVIOUS
  <2>1. Min(Differ) \in Differ /\ \A i \in Differ : Min(Differ) <= i
    <3>1. Differ \in SUBSET Nat
      OBVIOUS
    <3> HIDE DEF Differ
    <3> QED BY <3>1, LeastIsOne
  <2>2. PICK k \in Differ : \A i \in Differ : k <= i
    BY <2>1
  <2>3. k \in Nat /\ k \in 1 .. n \cup 1 .. m /\ ~(k \in 1 .. n /\ k \in 1 .. m /\ g[k] = h[k])
    BY <2>2
  <2>4. ASSUME NEW i \in Nat, i < k, i \in 1 .. n \/ i \in 1 .. m
        PROVE  i \in 1 .. n /\ i \in 1 .. m /\ g[i] = h[i]
    <3>1. ~(k <= i)
      BY <2>3, <2>4
    <3>2. i \notin Differ
      <4> HIDE DEF Differ
      <4> QED BY <2>2, <3>1
    <3> QED BY <2>4, <3>2
  <2> HIDE DEF Differ
  <2>5. CASE k \in 1 .. n
    <3>1. PICK j \in 1 .. m : h[j] = g[k]
      BY <1>0, <2>5
    <3>2. j # k
      BY <2>3, <2>5, <3>1
    <3>3. ~(j < k)
      <4> SUFFICES ASSUME j < k PROVE FALSE
        OBVIOUS
      <4>1. j \in 1 .. n /\ g[j] = h[j]
        BY <2>4
      <4>2. g[j] < g[k]
        BY <1>1, <2>5, <4>1
      <4> QED BY <1>1, <2>5, <3>1, <4>1, <4>2
    <3>4. k < j /\ k \in 1 .. m
      BY <2>3, <2>5, <3>2, <3>3
    <3>5. h[k] < g[k]
      BY <1>1, <3>1, <3>4
    <3>6. PICK i \in 1 .. n : g[i] = h[k]
      BY <1>0, <3>4
    <3>7. i < k
      <4>1. ~(k < i) /\ i # k
        BY <1>1, <2>5, <3>4, <3>5, <3>6
      <4> QED BY <2>3, <4>1
    <3>8. i \in 1 .. m /\ h[i] = h[k]
      BY <2>4, <3>6, <3>7
    <3> QED BY <1>1, <3>4, <3>7, <3>8
  <2>6. CASE k \in 1 .. m
    <3>1. PICK j \in 1 .. n : g[j] = h[k]
      BY <1>0, <2>6
    <3>2. j # k
      BY <2>3, <2>6, <3>1
    <3>3. ~(j < k)
      <4> SUFFICES ASSUME j < k PROVE FALSE
        OBVIOUS
      <4>1. j \in 1 .. m /\ g[j] = h[j]
        BY <2>4
      <4>2. h[j] < h[k]
        BY <1>1, <2>6, <4>1
      <4> QED BY <1>1, <2>6, <3>1, <4>1, <4>2
    <3>4. k < j /\ k \in 1 .. n
      BY <2>3, <2>6, <3>2, <3>3
    <3> QED BY <2>5, <3>4
  <2> QED BY <2>3, <2>5, <2>6
<1>3. \A i \in 1 .. n \cup 1 .. m : i \in 1 .. n /\ i \in 1 .. m /\ g[i] = h[i]
  <2>1. \A i \in 1 .. n \cup 1 .. m : i \in Nat
    OBVIOUS
  <2> QED BY <1>2, <2>1
<1>4. n \in 1 .. m \/ n = 0
  BY <1>3
<1>5. m \in 1 .. n \/ m = 0
  BY <1>3
<1> QED BY <1>3, <1>4, <1>5

\* The folder of a folder holds the files with both labels, ...
LEMMA NestedRuns ==
    ASSUME NEW S, NEW files \in Seq(S), NEW a, NEW u, NEW b, NEW v
    PROVE  LET q == Folder(Folder(files, a, u), b, v)
           IN  \E g : /\ Increases(g, Len(q)) /\ Len(q) \in Nat
                      /\ \A n \in 1 .. Len(q) : /\ g[n] \in DOMAIN files /\ q[n] = files[g[n]]
                                                /\ q[n][a] = u /\ q[n][b] = v
                      /\ \A i \in DOMAIN files : files[i][a] = u /\ files[i][b] = v
                            => \E n \in 1 .. Len(q) : g[n] = i
<1> DEFINE pos == {i \in DOMAIN files : files[i][a] = u}
           r == Picked(files, pos)
           to == {i \in DOMAIN r : r[i][b] = v}
           q == Picked(r, to)
<1>1. Folder(Folder(files, a, u), b, v) = q
  BY DEF Folder, Those
<1>2. pos \in SUBSET (DOMAIN files) /\ DOMAIN files \subseteq Nat
  OBVIOUS
<1>3. r \in Seq(S)
  <2> HIDE DEF pos
  <2> QED BY <1>2, PickedRuns
<1>4. PICK g : Runs(g, r, files, pos)
  <2> HIDE DEF pos
  <2> QED BY <1>2, PickedRuns
<1>5. \A i \in DOMAIN files : i \in pos <=> files[i][a] = u
  OBVIOUS
<1> HIDE DEF pos, r
<1>6. /\ Len(r) \in Nat /\ DOMAIN r = 1 .. Len(r) /\ g \in [1 .. Len(r) -> pos]
      /\ \A n \in 1 .. Len(r) : r[n] = files[g[n]]
      /\ \A n, m \in 1 .. Len(r) : n < m => g[n] < g[m]
      /\ \A i \in pos : \E n \in 1 .. Len(r) : g[n] = i
  BY <1>3, <1>4 DEF Runs
<1>7. to \in SUBSET (DOMAIN r)
  OBVIOUS
<1>8. \A i \in 1 .. Len(r) : i \in to <=> r[i][b] = v
  BY <1>6
<1>9. q \in Seq(S) /\ \E h : Runs(h, q, r, to)
  <2> HIDE DEF to
  <2> QED BY <1>3, <1>7, PickedRuns
<1>10. PICK h : Runs(h, q, r, to)
  BY <1>9
<1> HIDE DEF to, q
<1>11. /\ Len(q) \in Nat /\ h \in [1 .. Len(q) -> to]
       /\ \A n \in 1 .. Len(q) : q[n] = r[h[n]]
       /\ \A n, m \in 1 .. Len(q) : n < m => h[n] < h[m]
       /\ \A i \in to : \E n \in 1 .. Len(q) : h[n] = i
  BY <1>9, <1>10 DEF Runs
<1> DEFINE c == [n \in 1 .. Len(q) |-> g[h[n]]]
<1>12. \A n \in 1 .. Len(q) : /\ h[n] \in 1 .. Len(r) /\ c[n] = g[h[n]] /\ c[n] \in pos
                              /\ q[n] = files[c[n]]
  <2>1. \A n \in 1 .. Len(q) : h[n] \in to /\ h[n] \in 1 .. Len(r)
    BY <1>6, <1>7, <1>11
  <2> QED BY <1>6, <1>11, <2>1
<1>13. Increases(c, Len(q))
  <2>1. c \in [1 .. Len(q) -> Nat]
    BY <1>2, <1>12
  <2>2. \A i, j \in 1 .. Len(q) : i < j => c[i] < c[j]
    BY <1>6, <1>11, <1>12
  <2> HIDE DEF c
  <2> QED BY <2>1, <2>2 DEF Increases
<1>14. \A n \in 1 .. Len(q) : c[n] \in DOMAIN files /\ q[n][a] = u /\ q[n][b] = v
  <2> SUFFICES ASSUME NEW n \in 1 .. Len(q)
               PROVE  c[n] \in DOMAIN files /\ q[n][a] = u /\ q[n][b] = v
    OBVIOUS
  <2>1. h[n] \in to /\ q[n] = r[h[n]]
    BY <1>11
  <2> HIDE DEF c
  <2> QED BY <1>2, <1>5, <1>8, <1>12, <2>1
<1>15. ASSUME NEW i \in DOMAIN files, files[i][a] = u, files[i][b] = v
       PROVE  \E n \in 1 .. Len(q) : c[n] = i
  <2>1. i \in pos
    BY <1>5, <1>15
  <2>2. PICK k \in 1 .. Len(r) : g[k] = i
    BY <1>6, <2>1
  <2>3. k \in to
    BY <1>6, <1>8, <1>15, <2>2
  <2>4. PICK n \in 1 .. Len(q) : h[n] = k
    BY <1>11, <2>3
  <2> QED BY <1>12, <2>2, <2>4
<1> HIDE DEF c
<1> QED BY <1>1, <1>11, <1>12, <1>13, <1>14, <1>15

\* ... whichever of the two is looked at first.
LEMMA FoldersCommute ==
    ASSUME NEW S, NEW files \in Seq(S), NEW a, NEW u, NEW b, NEW v
    PROVE  Folder(Folder(files, a, u), b, v) = Folder(Folder(files, b, v), a, u)
<1> DEFINE q == Folder(Folder(files, a, u), b, v)
           r == Folder(Folder(files, b, v), a, u)
<1>1. PICK g : /\ Increases(g, Len(q)) /\ Len(q) \in Nat
               /\ \A n \in 1 .. Len(q) : /\ g[n] \in DOMAIN files /\ q[n] = files[g[n]]
                                         /\ q[n][a] = u /\ q[n][b] = v
               /\ \A i \in DOMAIN files : files[i][a] = u /\ files[i][b] = v
                     => \E n \in 1 .. Len(q) : g[n] = i
  BY NestedRuns
<1>2. PICK h : /\ Increases(h, Len(r)) /\ Len(r) \in Nat
               /\ \A n \in 1 .. Len(r) : /\ h[n] \in DOMAIN files /\ r[n] = files[h[n]]
                                         /\ r[n][b] = v /\ r[n][a] = u
               /\ \A i \in DOMAIN files : files[i][b] = v /\ files[i][a] = u
                     => \E n \in 1 .. Len(r) : h[n] = i
  BY NestedRuns
<1>3. q \in Seq(S) /\ r \in Seq(S)
  <2>1. Folder(files, a, u) \in Seq(S) /\ Folder(files, b, v) \in Seq(S)
    BY FolderFacts
  <2> QED BY <2>1, FolderFacts
<1> HIDE DEF q, r
<1>4. ASSUME NEW i \in 1 .. Len(q) PROVE \E j \in 1 .. Len(r) : h[j] = g[i]
  <2>1. g[i] \in DOMAIN files /\ files[g[i]][a] = u /\ files[g[i]][b] = v
    BY <1>1
  <2> QED BY <1>2, <2>1
<1>5. ASSUME NEW j \in 1 .. Len(r) PROVE \E i \in 1 .. Len(q) : g[i] = h[j]
  <2>1. h[j] \in DOMAIN files /\ files[h[j]][a] = u /\ files[h[j]][b] = v
    BY <1>2
  <2> QED BY <1>1, <2>1
<1>6. Len(q) = Len(r) /\ \A i \in 1 .. Len(q) : g[i] = h[i]
  <2> DEFINE n == Len(q)
             m == Len(r)
  <2>1. n \in Nat /\ m \in Nat /\ Increases(g, n) /\ Increases(h, m)
    BY <1>1, <1>2
  <2>2. Covers(h, m, g, n)
    BY <1>4 DEF Covers
  <2>3. Covers(g, n, h, m)
    BY <1>5 DEF Covers
  <2> HIDE DEF n, m
  <2>4. n = m /\ \A i \in 1 .. n : g[i] = h[i]
    BY <2>1, <2>2, <2>3, OneWay
  <2> QED BY <2>4 DEF n, m
<1>7. q = r
  <2>1. ASSUME NEW i \in 1 .. Len(q) PROVE q[i] = r[i]
    <3>1. q[i] = files[g[i]]
      BY <1>1
    <3>2. r[i] = files[h[i]]
      BY <1>2, <1>6
    <3> QED BY <1>6, <3>1, <3>2
  <2> QED BY <1>3, <1>6, <2>1
<1> QED BY <1>7 DEF q, r

\* One tree holds at each of its places what another holds there.
Follows(tree, lead) ==
    \A k \in DOMAIN tree : \A n \in DOMAIN tree[k] :
        At(lead, <<k, n>>).s = tree[k][n].s /\ At(lead, <<k, n>>).e = tree[k][n].e

LEMMA AlignedFolders ==
    ASSUME NEW l, NEW s, ~(l = "eneyida" /\ s.shape = "tracks"), Aligned(l, s),
           NEW dub, \E f \in ToSet(s.files) : f.d = dub
    PROVE  Follows(Folders(Folder(s.files, "d", dub), "s"),
                   Folders(Folder(s.files, "d", First(s.files).d), "s"))
<1> DEFINE tree(d) == IF l = "eneyida" /\ s.shape = "tracks" THEN <<Folder(s.files, "d", d)>>
                      ELSE Folders(Folder(s.files, "d", d), "s")
           lead == tree(First(s.files).d)
<1>1. \A d \in {f.d : f \in ToSet(s.files)} :
         \A i \in DOMAIN tree(d) : \A j \in DOMAIN tree(d)[i] :
            At(lead, <<i, j>>).s = tree(d)[i][j].s /\ At(lead, <<i, j>>).e = tree(d)[i][j].e
  BY Zenon DEF Aligned
<1>2. \A d : tree(d) = Folders(Folder(s.files, "d", d), "s")
  OBVIOUS
<1>3. dub \in {f.d : f \in ToSet(s.files)}
  OBVIOUS
<1> HIDE DEF tree
<1> QED BY <1>1, <1>2, <1>3 DEF Follows

\* What stands at a place of a season in one dub stands at that place in the first.
LEMMA AlignedSeason ==
    ASSUME NEW l, NEW s, Possible(l, s), ~(l = "eneyida" /\ s.shape = "tracks"), Aligned(l, s),
           NEW v, NEW d, NEW j \in DOMAIN Folder(Folder(s.files, "s", v), "d", d)
    PROVE  LET found == Folder(Folder(s.files, "s", v), "d", d)[j]
           IN  /\ found \in ToSet(s.files) /\ found.d = d /\ found.s = v /\ found # NoFile
               /\ \E k \in DOMAIN Lead(s) : /\ j \in DOMAIN Lead(s)[k] /\ Lead(s)[k][j].s = v
                                            /\ Lead(s)[k][j].e = found.e
<1> DEFINE files == s.files
           mine == Folder(files, "d", d)
           tree == Folders(mine, "s")
           lead == Lead(s)
           q == Folder(Folder(files, "s", v), "d", d)
           found == q[j]
<1>1. /\ files \in Seq(File) /\ \A f \in ToSet(files) : f # NoFile /\ (f.s # 0 \/ f.e # 0)
      /\ files # <<>> => First(files) = Head(files)
  BY SiteFacts
<1>2. q \in Seq(File) /\ ToSet(q) = {f \in ToSet(Folder(files, "s", v)) : f["d"] = d}
  <2>1. Folder(files, "s", v) \in Seq(File)
    BY <1>1, FolderFacts
  <2> QED BY <2>1, FolderFacts
<1>3. ToSet(Folder(files, "s", v)) = {f \in ToSet(files) : f["s"] = v}
  BY <1>1, FolderFacts
<1>4. found \in ToSet(q)
  BY <1>2 DEF ToSet
<1>5. found \in ToSet(files) /\ found.d = d /\ found.s = v
  BY <1>2, <1>3, <1>4
<1>6. files # <<>>
  BY <1>5 DEF ToSet
<1>7. lead = Folders(Folder(files, "d", First(files).d), "s")
  BY <1>1, <1>6 DEF Lead, DubFolder
<1>8. \A k \in DOMAIN tree : \A n \in DOMAIN tree[k] :
         At(lead, <<k, n>>).s = tree[k][n].s /\ At(lead, <<k, n>>).e = tree[k][n].e
  <2>1. \E f \in ToSet(s.files) : f.d = d
    BY <1>5
  <2>2. Follows(tree, Folders(Folder(s.files, "d", First(s.files).d), "s"))
    BY <2>1, AlignedFolders
  <2> HIDE DEF lead, tree
  <2> QED BY <1>7, <2>2 DEF Follows
<1>9. q = Folder(mine, "s", v)
  BY <1>1, FoldersCommute
<1> HIDE DEF lead
<1>10. mine \in Seq(File) /\ ToSet(mine) = {f \in ToSet(files) : f["d"] = d}
  BY <1>1, FolderFacts
<1>11. found \in ToSet(mine)
  BY <1>5, <1>10
<1> HIDE DEF mine
<1>12. /\ \A k \in DOMAIN tree, f \in ToSet(mine) :
             f \in ToSet(tree[k]) <=> tree[k] = Folder(mine, "s", f["s"])
       /\ \A f \in ToSet(mine) : \E k \in DOMAIN tree : f \in ToSet(tree[k])
  BY <1>10, FoldersFacts
<1> HIDE DEF tree
<1>13. PICK k \in DOMAIN tree : tree[k] = q
  BY <1>5, <1>9, <1>11, <1>12
<1> HIDE DEF q, files
<1>14. At(lead, <<k, j>>).s = v /\ At(lead, <<k, j>>).e = found.e
  BY <1>5, <1>8, <1>13 DEF q, files
<1>15. At(lead, <<k, j>>) # NoFile
  BY <1>1, <1>5, <1>14 DEF NoFile
<1>16. k \in DOMAIN lead /\ j \in DOMAIN lead[k] /\ At(lead, <<k, j>>) = lead[k][j]
  BY <1>15 DEF At
<1>17. found # NoFile
  BY <1>1, <1>5
<1> QED BY <1>5, <1>14, <1>16, <1>17 DEF q, files, lead

\* Two dubs hold the same episode at one place of a season.
LEMMA AlignedTwice ==
    ASSUME NEW l, NEW s, Possible(l, s), ~(l = "eneyida" /\ s.shape = "tracks"), Aligned(l, s),
           NEW v, NEW c, NEW d, NEW j \in DOMAIN Folder(Folder(s.files, "s", v), "d", c),
           j \in DOMAIN Folder(Folder(s.files, "s", v), "d", d)
    PROVE  Folder(Folder(s.files, "s", v), "d", c)[j].e = Folder(Folder(s.files, "s", v), "d", d)[j].e
<1> DEFINE lead == Lead(s)
           p == Folder(Folder(s.files, "s", v), "d", c)[j]
           q == Folder(Folder(s.files, "s", v), "d", d)[j]
           mine == DubFolder(s.files, 0)
<1>1. PICK k \in DOMAIN lead : j \in DOMAIN lead[k] /\ lead[k][j].s = v /\ lead[k][j].e = p.e
  BY AlignedSeason
<1>2. PICK m \in DOMAIN lead : j \in DOMAIN lead[m] /\ lead[m][j].s = v /\ lead[m][j].e = q.e
  BY AlignedSeason
<1>3. s.files \in Seq(File)
  BY SiteFacts
<1>4. mine \in Seq(File)
  BY <1>3, DubFolderFacts
<1> HIDE DEF mine
<1>5. /\ Folders(mine, "s") \in Seq(Seq(File))
      /\ \A i, n \in DOMAIN Folders(mine, "s") :
            \A f \in ToSet(Folders(mine, "s")[i]), g \in ToSet(Folders(mine, "s")[n]) :
               f["s"] = g["s"] <=> i = n
  BY <1>4, FoldersFacts
<1>6. lead = Folders(mine, "s")
  BY DEF Lead, mine
<1> HIDE DEF lead, p, q
<1>7. lead[k][j] \in ToSet(lead[k]) /\ lead[m][j] \in ToSet(lead[m])
  BY <1>1, <1>2 DEF ToSet
<1>8. k = m
  BY <1>1, <1>2, <1>5, <1>6, <1>7
<1> QED BY <1>1, <1>2, <1>8 DEF p, q

LEMMA EneyidaReal ==
    ASSUME NEW s, Possible("eneyida", s), NEW pos, NEW dub, NEW ans
    PROVE  Real("eneyida", s, EneyidaStream(s, pos, dub, ans))
<1> DEFINE pick == EneyidaSelect(s, pos, dub)
           media == EneyidaStream(s, pos, dub, ans)
           season == Item(Folders(s.files, "s"), pos[1])
           tracks == Item(Folders(s.files, "d"), pos[1])
           Here == ToSet(s.files) \cup {NoFile, RawText}
<1>1. media.code = "ok" => pick # NoFile /\ media.file = pick
  BY MediaFacts DEF EneyidaStream
<1>2. s.files \in Seq(File) /\ First(s.files) \in Here
  BY SiteFacts
<1>3. At(Folders(DubFolder(s.files, 0), "s"), pos) \in Here
  BY LeadFacts
<1>4. At(<<DubFolder(season, dub)>>, <<1, pos[2]>>) \in Here
  <2>1. season \in Seq(File) /\ ToSet(season) \subseteq ToSet(s.files)
    BY <1>2, ItemFacts
  <2> HIDE DEF season
  <2>2. DubFolder(season, dub) \in Seq(File) /\ ToSet(DubFolder(season, dub)) \subseteq ToSet(season)
    BY <2>1, DubFolderFacts
  <2>3. At(<<DubFolder(season, dub)>>, <<1, pos[2]>>) \in ToSet(DubFolder(season, dub)) \cup {NoFile}
    BY <2>2, SingleFacts
  <2> QED BY <2>1, <2>2, <2>3
<1>5. At(<<tracks>>, <<1, pos[2]>>) \in Here
  <2>1. tracks \in Seq(File) /\ ToSet(tracks) \subseteq ToSet(s.files)
    BY <1>2, ItemFacts
  <2> HIDE DEF tracks
  <2>2. At(<<tracks>>, <<1, pos[2]>>) \in ToSet(tracks) \cup {NoFile}
    BY <2>1, SingleFacts
  <2> QED BY <2>1, <2>2
<1>6. At(<<Folder(s.files, "d", dub)>>, <<1, pos[2]>>) \in Here
  <2> DEFINE mine == Folder(s.files, "d", dub)
  <2>1. mine \in Seq(File) /\ ToSet(mine) \subseteq ToSet(s.files)
    BY <1>2, FolderFacts
  <2> HIDE DEF mine
  <2>2. At(<<mine>>, <<1, pos[2]>>) \in ToSet(mine) \cup {NoFile}
    BY <2>1, SingleFacts
  <2>3. At(<<mine>>, <<1, pos[2]>>) \in Here
    BY <2>1, <2>2
  <2> QED BY <2>3 DEF mine
<1>7. First(DubFolder(s.files, 0)) \in Here
  <2>1. DubFolder(s.files, 0) \in Seq(File) /\ ToSet(DubFolder(s.files, 0)) \subseteq ToSet(s.files)
    BY <1>2, DubFolderFacts
  <2> QED BY <2>1 DEF First, ToSet
<1>8. RawText \in Here /\ NoFile \in Here
  OBVIOUS
<1> HIDE DEF Here, season, tracks
<1>9. pick \in Here
  BY <1>2, <1>3, <1>4, <1>5, <1>6, <1>7, <1>8 DEF EneyidaSelect, season, tracks
<1> HIDE DEF pick, media
<1>10. Real("eneyida", s, media)
  BY <1>1, <1>9 DEF Real, Here, Trusting
<1> QED BY <1>10 DEF media

LEMMA EneyidaTracks ==
    ASSUME NEW s, Possible("eneyida", s), s.shape = "tracks", s.payload = "list", NEW row,
           NEW j \in DOMAIN DubFolder(s.files, 0), row.at = <<1, j>>,
           row.says = DubFolder(s.files, 0)[j], NEW dub \in DubsOf(s.files) \cup {0}
    PROVE  LET pick == EneyidaSelect(s, row.at, dub)
           IN  /\ (dub # 0 => DubsMatch("eneyida", s)) /\ pick # NoFile => Meant(s, row, dub, pick)
               /\ dub = 0 => pick # NoFile
<1> DEFINE files == s.files
           lead == DubFolder(files, 0)
           mine == Folder(files, "d", dub)
           tracks == Folders(files, "d")
           pick == EneyidaSelect(s, row.at, dub)
           known == dub # 0 /\ Contains(Labels(files, "d"), dub)
<1>1. /\ files \in Seq(File) /\ \A f \in ToSet(files) : f # NoFile /\ (f.s # 0 \/ f.e # 0)
      /\ files # <<>> => First(files) = Head(files)
  BY SiteFacts
<1>2. lead \in Seq(File) /\ ToSet(lead) \subseteq ToSet(files)
  BY <1>1, DubFolderFacts
<1>3. row.says \in ToSet(lead)
  BY <1>2 DEF ToSet
<1>4. row.says \in ToSet(files) /\ row.says # NoFile /\ files # <<>>
  <2> HIDE DEF files, lead
  <2>1. row.says \in ToSet(files) /\ row.says # NoFile
    BY <1>1, <1>2, <1>3
  <2> QED BY <2>1 DEF ToSet
<1>5. lead = Folder(files, "d", First(files).d) /\ lead = Folder(files, "d", Head(files).d)
  BY <1>1, <1>4, DubFolderFacts
<1>6. row.at # <<>> /\ row.at[1] = 1 /\ row.at[2] = j
  OBVIOUS
<1>7. pick = At(IF known THEN <<mine>> ELSE <<Item(tracks, 1)>>, <<1, j>>)
  BY <1>6 DEF EneyidaSelect
<1>8. Item(tracks, 1) = lead
  <2>1. 1 \in DOMAIN tracks /\ tracks[1] = Folder(files, "d", Head(files)["d"])
    <3> HIDE DEF files
    <3> QED BY <1>1, <1>4, FoldersFacts
  <2> QED BY <1>5, <2>1 DEF Item
<1>9. mine \in Seq(File) /\ ToSet(mine) = {f \in ToSet(files) : f["d"] = dub}
  BY <1>1, FolderFacts
<1>10. dub # 0 => known /\ \E f \in ToSet(files) : f.d = dub
  <2> SUFFICES ASSUME dub # 0 PROVE known /\ \E f \in ToSet(files) : f.d = dub
    OBVIOUS
  <2>1. PICK f \in ToSet(files) : f.d = dub
    BY DEF DubsOf
  <2> DEFINE labels == Labels(files, "d")
  <2>2. /\ DOMAIN labels = 1 .. Len(labels)
        /\ \A g \in ToSet(files) : \E n \in DOMAIN labels : labels[n] = g["d"]
    <3> HIDE DEF files
    <3> QED BY <1>1, LabelsFacts
  <2> HIDE DEF labels
  <2>3. \E n \in 1 .. Len(labels) : labels[n] = dub
    BY <2>1, <2>2
  <2>5. Contains(Labels(files, "d"), dub)
    BY <2>3 DEF Contains, labels
  <2> QED BY <2>1, <2>5
<1>11. ASSUME DubsMatch("eneyida", s), dub # 0, j \in DOMAIN mine
       PROVE  mine[j].s = row.says.s /\ mine[j].e = row.says.e
  <2>1. Aligned("eneyida", s)
    BY <1>11 DEF DubsMatch, PicksByPosition
  <2> DEFINE tree(d) == IF "eneyida" = "eneyida" /\ s.shape = "tracks" THEN <<Folder(s.files, "d", d)>>
                        ELSE Folders(Folder(s.files, "d", d), "s")
             first == tree(First(s.files).d)
  <2>2. \A d \in {f.d : f \in ToSet(s.files)} :
           \A i \in DOMAIN tree(d) : \A k \in DOMAIN tree(d)[i] :
              At(first, <<i, k>>).s = tree(d)[i][k].s /\ At(first, <<i, k>>).e = tree(d)[i][k].e
    BY <2>1, Zenon DEF Aligned
  <2>3. first = <<lead>> /\ tree(dub) = <<mine>>
    BY <1>5
  <2>4. dub \in {f.d : f \in ToSet(s.files)}
    BY <1>10, <1>11
  <2> HIDE DEF tree, first, lead, mine
  <2>5. 1 \in DOMAIN tree(dub) /\ tree(dub)[1] = mine
    BY <2>3
  <2>6. At(first, <<1, j>>).s = mine[j].s /\ At(first, <<1, j>>).e = mine[j].e
    BY <1>11, <2>2, <2>4, <2>5
  <2>7. At(<<lead>>, <<1, j>>) = row.says
    BY <1>2, SingleFacts DEF lead
  <2> QED BY <2>3, <2>6, <2>7
<1>12. ASSUME dub # 0 PROVE pick = IF j \in DOMAIN mine THEN mine[j] ELSE NoFile
  <2> HIDE DEF mine, known, pick
  <2> QED BY <1>7, <1>9, <1>10, <1>12, SingleFacts
<1>13. dub = 0 => pick = row.says
  <2> HIDE DEF lead, pick, tracks
  <2>1. At(<<lead>>, <<1, j>>) = row.says
    BY <1>2, SingleFacts DEF lead
  <2> QED BY <1>7, <1>8, <2>1
<1>14. dub # 0 /\ j \in DOMAIN mine => mine[j].d = dub
  BY <1>9 DEF ToSet
<1> HIDE DEF pick, mine, known, files
<1>15. ASSUME dub # 0 => DubsMatch("eneyida", s), pick # NoFile PROVE Meant(s, row, dub, pick)
  <2>1. CASE dub = 0
    BY <1>13, <2>1 DEF Meant
  <2>2. CASE dub # 0
    <3>1. j \in DOMAIN mine /\ pick = mine[j]
      BY <1>12, <1>15, <2>2
    <3>2. pick.s = row.says.s /\ pick.e = row.says.e /\ pick.d = dub
      BY <1>11, <1>14, <1>15, <2>2, <3>1
    <3> QED BY <3>2 DEF Meant
  <2> QED BY <2>1, <2>2
<1> QED BY <1>4, <1>13, <1>15 DEF pick

LEMMA EneyidaSeason ==
    ASSUME NEW s, Possible("eneyida", s), s.shape = "season", s.payload = "list", NEW row,
           NEW i \in DOMAIN Folders(s.files, "s"),
           NEW j \in DOMAIN DubFolder(Folders(s.files, "s")[i], 0), row.at = <<i, j>>,
           row.says = DubFolder(Folders(s.files, "s")[i], 0)[j],
           NEW dub \in DubsOf(Folder(s.files, "s", row.says.s)) \cup {0}
    PROVE  LET pick == EneyidaSelect(s, row.at, dub)
           IN  /\ (dub # 0 => DubsMatch("eneyida", s)) /\ pick # NoFile => Meant(s, row, dub, pick)
               /\ dub = 0 => pick # NoFile
<1> DEFINE files == s.files
           tree == Folders(files, "s")
           season == tree[i]
           lead == DubFolder(season, 0)
           pick == EneyidaSelect(s, row.at, dub)
<1>1. files \in Seq(File) /\ \A f \in ToSet(files) : f # NoFile
  BY SiteFacts
<1> HIDE DEF files
<1>2. /\ tree[i] # <<>> /\ tree[i] \in Seq(File) /\ ToSet(tree[i]) \subseteq ToSet(files)
      /\ \A f \in ToSet(files) : f \in ToSet(tree[i]) <=> tree[i] = Folder(files, "s", f["s"])
      /\ i \in DOMAIN tree
  BY <1>1, FoldersFacts DEF files
<1> HIDE DEF tree
<1>3. lead \in Seq(File) /\ ToSet(lead) \subseteq ToSet(season)
  BY <1>2, DubFolderFacts
<1>4. row.says \in ToSet(lead) /\ j \in DOMAIN lead /\ row.says = lead[j]
  BY <1>3 DEF ToSet, tree, files
<1>5. row.says \in ToSet(files) /\ row.says \in ToSet(season) /\ row.says # NoFile
  BY <1>1, <1>2, <1>3, <1>4
<1>6. season = Folder(files, "s", row.says.s)
  BY <1>2, <1>5
<1>7. season # <<>> /\ row.at # <<>> /\ Item(tree, row.at[1]) = season
  BY <1>2 DEF Item
<1> HIDE DEF season
<1>8. pick = At(<<DubFolder(season, dub)>>, <<1, j>>)
  BY <1>7 DEF EneyidaSelect, tree, files
<1>9. DubFolder(season, dub) \in Seq(File)
  BY <1>2, DubFolderFacts DEF season
<1>10. pick = IF j \in DOMAIN DubFolder(season, dub) THEN DubFolder(season, dub)[j] ELSE NoFile
  <2> DEFINE there == DubFolder(season, dub)
  <2> HIDE DEF there, pick
  <2> QED BY <1>8, <1>9, SingleFacts DEF there
<1> HIDE DEF pick
<1>11. dub = 0 => pick = row.says
  BY <1>4, <1>10
<1>12. ASSUME DubsMatch("eneyida", s), dub # 0, pick # NoFile
       PROVE  pick.s = row.says.s /\ pick.e = row.says.e /\ pick.d = dub
  <2> DEFINE v == row.says.s
             first == Head(season).d
  <2>1. Aligned("eneyida", s)
    BY <1>12 DEF DubsMatch, PicksByPosition
  <2>2. lead = Folder(Folder(s.files, "s", v), "d", first)
    <3>1. season \in Seq(File)
      BY <1>2 DEF season
    <3>2. lead = Folder(season, "d", first)
      BY <1>7, <3>1, DubFolderFacts
    <3> QED BY <1>6, <3>2 DEF files
  <2>3. DubFolder(season, dub) = Folder(Folder(s.files, "s", v), "d", dub)
    <3>1. PICK f \in ToSet(season) : f.d = dub
      BY <1>6, <1>12 DEF DubsOf, files
    <3>2. season \in Seq(File)
      BY <1>2 DEF season
    <3>3. DubFolder(season, dub) = Folder(season, "d", dub)
      BY <1>12, <3>1, <3>2, DubFolderFacts
    <3> QED BY <1>6, <3>3 DEF files
  <2> HIDE DEF lead, v, first
  <2>4. j \in DOMAIN Folder(Folder(s.files, "s", v), "d", dub)
        /\ pick = Folder(Folder(s.files, "s", v), "d", dub)[j]
    BY <1>10, <1>12, <2>3
  <2>5. pick.d = dub /\ pick.s = v
    BY <2>1, <2>4, AlignedSeason
  <2>6. j \in DOMAIN Folder(Folder(s.files, "s", v), "d", first)
        /\ row.says = Folder(Folder(s.files, "s", v), "d", first)[j]
    BY <1>4, <2>2
  <2>7. pick.e = row.says.e
    BY <2>1, <2>4, <2>6, AlignedTwice
  <2> QED BY <2>5, <2>7 DEF v
<1> QED BY <1>5, <1>11, <1>12 DEF pick, Meant

LEMMA EneyidaPlays ==
    ASSUME NEW s, Possible("eneyida", s), NEW listed, NEW ans,
           NEW row \in EneyidaContent(s, listed).rows, NEW dub \in row.dubs \cup {0}
    PROVE  /\ Right("eneyida", s, row, dub, EneyidaStream(s, row.at, dub, ans))
           /\ Alive("eneyida", s, row, dub, EneyidaStream(s, row.at, dub, AllUp))
<1> DEFINE pick == EneyidaSelect(s, row.at, dub)
           media(a) == EneyidaStream(s, row.at, dub, a)
           seasons == Folders(s.files, "s")
           first == [i \in DOMAIN seasons |-> DubFolder(seasons[i], 0)]
           rows == EneyidaSeasons(s, listed)
           Matches == dub # 0 => DubsMatch("eneyida", s)
<1>1. \A a : media(a).code = "ok" => pick # NoFile /\ media(a).file = pick
  BY MediaFacts DEF EneyidaStream
<1>2. s.files \in Seq(File) /\ \A f \in ToSet(s.files) : f # NoFile /\ f # RawText /\ f.d # Uk
  BY SiteFacts
<1>3. row \in rows \/ (row \in FilmRow(s.files, {}) /\ ~s.series)
  BY DetailFacts DEF EneyidaContent
<1>4. row \in rows => s.payload = "list"
  BY DEF EneyidaSeasons
<1>5. ASSUME row \in FilmRow(s.files, {}), ~s.series
      PROVE  /\ pick # NoFile /\ pick # RawText => Meant(s, row, dub, pick)
             /\ Intact(s) => pick # NoFile
  <2>1. s.files # <<>> /\ row.at = <<>> /\ row.says = Head(s.files) /\ dub = 0
    BY <1>5, FilmRowFacts
  <2>2. First(s.files) = Head(s.files) /\ Head(s.files) # NoFile
    BY <2>1, SiteFacts
  <2>3. DubFolder(s.files, 0) # <<>> /\ Head(DubFolder(s.files, 0)) = Head(s.files)
    BY <1>2, <2>1, DubFolderFacts
  <2>4. First(DubFolder(s.files, 0)) = Head(s.files)
    BY <2>3 DEF First
  <2>5. pick \in {NoFile, RawText, row.says}
    BY <2>1, <2>2, <2>4 DEF EneyidaSelect
  <2>6. Intact(s) => pick = row.says
    BY <1>5, <2>1, <2>2 DEF EneyidaSelect, Intact
  <2> QED BY <2>1, <2>2, <2>5, <2>6 DEF Meant
<1>6. ASSUME row \in rows, s.shape = "tracks"
      PROVE  (Matches /\ pick # NoFile => Meant(s, row, dub, pick)) /\ (dub = 0 => pick # NoFile)
  <2> DEFINE tree == <<DubFolder(s.files, 0)>>
  <2>1. row \in RowsOf(tree, LAMBDA f : DubsOf(s.files))
    BY <1>6 DEF EneyidaSeasons
  <2>2. \E j \in DOMAIN DubFolder(s.files, 0) :
           /\ row.at = <<1, j>> /\ row.says = DubFolder(s.files, 0)[j]
           /\ row.dubs = DubsOf(s.files)
    <3>1. DOMAIN tree = {1} /\ tree[1] = DubFolder(s.files, 0)
      OBVIOUS
    <3>2. PICK i \in DOMAIN tree : \E j \in DOMAIN tree[i] :
             row.at = <<i, j>> /\ row.says = tree[i][j] /\ row.dubs = DubsOf(s.files)
      BY <2>1 DEF RowsOf, Row
    <3> HIDE DEF tree
    <3> QED BY <3>1, <3>2
  <2>3. PICK j \in DOMAIN DubFolder(s.files, 0) :
           /\ row.at = <<1, j>> /\ row.says = DubFolder(s.files, 0)[j]
           /\ row.dubs = DubsOf(s.files)
    BY <2>2
  <2>4. dub \in DubsOf(s.files) \cup {0}
    BY <2>3
  <2> QED BY <1>4, <1>6, <2>3, <2>4, EneyidaTracks
<1>7. ASSUME row \in rows, s.shape \in {"season", "wrapped"}
      PROVE  /\ Matches /\ pick # NoFile => Meant(s, row, dub, pick)
             /\ s.shape = "season" /\ dub = 0 => pick # NoFile
  <2>1. row \in RowsOf(first, LAMBDA f : DubsOf(Folder(s.files, "s", f.s)))
    BY <1>7 DEF EneyidaSeasons
  <2>2. PICK i \in DOMAIN seasons : \E j \in DOMAIN DubFolder(seasons[i], 0) :
           /\ row.at = <<i, j>> /\ row.says = DubFolder(seasons[i], 0)[j]
           /\ row.dubs = DubsOf(Folder(s.files, "s", row.says.s))
    <3> HIDE DEF seasons
    <3>1. DOMAIN first = DOMAIN seasons /\ \A i \in DOMAIN seasons : first[i] = DubFolder(seasons[i], 0)
      OBVIOUS
    <3>2. PICK i \in DOMAIN first : \E j \in DOMAIN first[i] :
             /\ row.at = <<i, j>> /\ row.says = first[i][j]
             /\ row.dubs = DubsOf(Folder(s.files, "s", first[i][j].s))
      BY <2>1 DEF RowsOf, Row
    <3>3. PICK j \in DOMAIN first[i] :
             /\ row.at = <<i, j>> /\ row.says = first[i][j]
             /\ row.dubs = DubsOf(Folder(s.files, "s", first[i][j].s))
      BY <3>2
    <3> HIDE DEF first
    <3> QED BY <3>1, <3>3
  <2>3. PICK j \in DOMAIN DubFolder(seasons[i], 0) :
           /\ row.at = <<i, j>> /\ row.says = DubFolder(seasons[i], 0)[j]
           /\ row.dubs = DubsOf(Folder(s.files, "s", row.says.s))
    BY <2>2
  <2>4. dub \in DubsOf(Folder(s.files, "s", row.says.s)) \cup {0}
    BY <2>3
  <2>5. CASE s.shape = "season"
    BY <1>4, <1>7, <2>3, <2>4, <2>5, EneyidaSeason
  <2>6. CASE s.shape = "wrapped"
    <3>1. row.at # <<>>
      BY <2>3
    <3>2. pick = NoFile
      BY <1>4, <1>7, <2>6, <3>1 DEF EneyidaSelect
    <3> QED BY <2>6, <3>2
  <2> QED BY <1>7, <2>5, <2>6
<1>8. ASSUME row \in rows, s.shape = "dubbed" PROVE pick # NoFile /\ Meant(s, row, dub, pick)
  <2>1. row \in RowsOf(Lead(s), LAMBDA f : {Uk})
    BY <1>8 DEF EneyidaSeasons, Lead
  <2>2. PICK i \in DOMAIN Lead(s) : \E j \in DOMAIN Lead(s)[i] :
           row.at = <<i, j>> /\ row.says = Lead(s)[i][j] /\ row.dubs = {Uk}
    BY <2>1 DEF RowsOf, Row
  <2>3. PICK j \in DOMAIN Lead(s)[i] : row.at = <<i, j>> /\ row.says = Lead(s)[i][j] /\ row.dubs = {Uk}
    BY <2>2
  <2>4. At(Lead(s), row.at) = row.says /\ row.says \in ToSet(s.files) /\ row.says # NoFile
    BY <2>3, LeadFacts
  <2>5. row.at # <<>>
    BY <2>3
  <2>6. pick = row.says
    BY <1>4, <1>8, <2>4, <2>5 DEF EneyidaSelect, Lead
  <2> QED BY <1>2, <2>3, <2>4, <2>6 DEF Meant
<1>9. ASSUME row \in rows, s.shape \notin {"tracks", "season", "wrapped", "dubbed"}
      PROVE  pick = NoFile /\ s.shape = "plain"
  <2>1. row \in RowsOf(seasons, LAMBDA f : {Uk})
    BY <1>9 DEF EneyidaSeasons
  <2>2. row.at # <<>>
    BY <2>1 DEF RowsOf, Row
  <2>3. s.shape = "plain"
    <3>1. s.shape # "flat"
      BY <1>9 DEF EneyidaSeasons
    <3>2. s \in Title
      BY SiteFacts
    <3>3. s.shape \in {"flat", "plain", "season", "dubbed", "tracks", "wrapped"}
      BY <3>2 DEF Title
    <3> QED BY <1>9, <3>1, <3>3
  <2> QED BY <1>4, <1>9, <2>2, <2>3 DEF EneyidaSelect
<1>10. ASSUME Intact(s), pick # NoFile PROVE media(AllUp).code = "ok"
  <2>1. <<Unless(AllUp.page # "down", "unreachable"),
          Unless(AllUp.page = "page" /\ s.player # "none", "parse_failed"),
          Unless(AllUp.player # "down", "unreachable"),
          Unless(~(AllUp.player = "page") \/ ~s.removed, "gated"),
          Unless(AllUp.player = "page" /\ s.payload # "none", "parse_failed")>>
        = <<"ok", "ok", "ok", "ok", "ok">>
    BY <1>10, UpFacts DEF Intact
  <2>2. Refusal(<<"ok", "ok", "ok", "ok", "ok">>) = "ok"
    BY NoneRefused
  <2> QED BY <1>10, <2>1, <2>2, MediaFacts DEF EneyidaStream
<1> HIDE DEF media, pick, rows
<1>11. Right("eneyida", s, row, dub, media(ans))
  BY <1>1, <1>3, <1>5, <1>6, <1>7, <1>8, <1>9 DEF Right
<1>12. Alive("eneyida", s, row, dub, media(AllUp))
  <2> SUFFICES ASSUME Intact(s), dub = 0, ~DeadRows("eneyida", s, row) PROVE pick # NoFile
    BY <1>10 DEF Alive, PicksByPosition
  <2>1. s.shape \notin {"plain", "wrapped"}
    BY DEF DeadRows
  <2> QED BY <1>3, <1>5, <1>6, <1>7, <1>8, <1>9, <2>1
<1> QED BY <1>11, <1>12 DEF media

-----------------------------------------------------------------------------
(* uaflix: an episode's own page, or the show's.                               *)

UaflixOwn(s, pos) == {f \in ToSet(s.files) : s.linked /\ pos = <<f.s, f.e>>}

UaflixPlayed(s, pos, page) ==
    IF UaflixOwn(s, pos) # {} /\ page = "page" THEN CHOOSE f \in UaflixOwn(s, pos) : TRUE
    ELSE IF s.payload = "url" THEN First(s.files)
    ELSE IF s.payload = "list" THEN At(Lead(s), pos)
    ELSE NoFile

LEMMA UaflixMedia ==
    ASSUME NEW s, NEW pos, NEW dub, NEW ans
    PROVE  /\ UaflixStream(s, pos, dub, ans).code = "ok" =>
                 /\ UaflixPlayed(s, pos, ans.page) # NoFile
                 /\ UaflixStream(s, pos, dub, ans).file = UaflixPlayed(s, pos, ans.page)
           /\ Intact(s) /\ UaflixPlayed(s, pos, "page") # NoFile
                 => UaflixStream(s, pos, dub, AllUp).code = "ok"
<1>1. ASSUME UaflixStream(s, pos, dub, ans).code = "ok"
      PROVE  /\ UaflixPlayed(s, pos, ans.page) # NoFile
             /\ UaflixStream(s, pos, dub, ans).file = UaflixPlayed(s, pos, ans.page)
  <2>1. \E code : UaflixStream(s, pos, dub, ans) = Media(code, UaflixPlayed(s, pos, ans.page))
    BY DEF UaflixStream, UaflixPlayed, UaflixOwn, Lead
  <2> QED BY <1>1, <2>1, MediaFacts
<1>2. ASSUME Intact(s), UaflixPlayed(s, pos, "page") # NoFile
      PROVE  UaflixStream(s, pos, dub, AllUp).code = "ok"
  <2> DEFINE paged == UaflixOwn(s, pos) # {} /\ AllUp.page = "page"
             show == IF pos = <<>> THEN AllUp.page ELSE AllUp.show
             codes == <<Unless(AllUp.page # "down", "unreachable"),
                        Unless(paged \/ show # "down", "unreachable"),
                        Unless(paged \/ show = "page", "not_found"),
                        Unless(paged \/ s.player # "none", "parse_failed"),
                        Unless(paged \/ s.player # "youtube", "not_found"),
                        Lenient(AllUp.player)>>
  <2>1. codes = <<"ok", "ok", "ok", "ok", "ok", "ok">>
    <3>1. show = "page" /\ s.player # "none" /\ s.player # "youtube" /\ AllUp.page = "page"
          /\ Lenient(AllUp.player) = "ok"
      BY <1>2, UpFacts DEF Intact
    <3> HIDE DEF show, paged
    <3> QED BY <3>1 DEF Unless
  <2>2. Refusal(codes) = "ok"
    <3> HIDE DEF codes
    <3> QED BY <2>1, NoneRefused
  <2>3. UaflixStream(s, pos, dub, AllUp) = Media(Refusal(codes), UaflixPlayed(s, pos, AllUp.page))
    BY DEF UaflixStream, UaflixPlayed, UaflixOwn, Lead
  <2>4. AllUp.page = "page"
    BY UpFacts
  <2> HIDE DEF codes
  <2> QED BY <1>2, <2>2, <2>3, <2>4, MediaFacts
<1> QED BY <1>1, <1>2

LEMMA UaflixPlayedFacts ==
    ASSUME NEW s, Possible("uaflix", s), NEW pos, NEW page
    PROVE  /\ UaflixPlayed(s, pos, page) \in ToSet(s.files) \cup {NoFile}
           /\ UaflixOwn(s, pos) # {} /\ page = "page" =>
                 LET file == UaflixPlayed(s, pos, page)
                 IN  file # NoFile /\ pos = <<file.s, file.e>>
<1>1. /\ \A f \in ToSet(s.files) : f # NoFile
      /\ First(s.files) \in ToSet(s.files) \cup {NoFile}
      /\ At(Lead(s), pos) \in ToSet(s.files) \cup {NoFile}
  BY SiteFacts, LeadFacts
<1>2. ASSUME UaflixOwn(s, pos) # {}, page = "page"
      PROVE  UaflixPlayed(s, pos, page) \in UaflixOwn(s, pos)
  <2>1. UaflixPlayed(s, pos, page) = CHOOSE f \in UaflixOwn(s, pos) : TRUE
    BY <1>2 DEF UaflixPlayed
  <2>2. \E f \in UaflixOwn(s, pos) : TRUE
    BY <1>2
  <2> QED BY <2>1, <2>2, Zenon
<1>3. \A f \in UaflixOwn(s, pos) : f \in ToSet(s.files) /\ pos = <<f.s, f.e>>
  BY DEF UaflixOwn
<1>4. ~(UaflixOwn(s, pos) # {} /\ page = "page") => UaflixPlayed(s, pos, page) \in ToSet(s.files) \cup {NoFile}
  BY <1>1 DEF UaflixPlayed
<1> QED BY <1>1, <1>2, <1>3, <1>4

LEMMA UaflixReal ==
    ASSUME NEW s, Possible("uaflix", s), NEW pos, NEW dub, NEW ans
    PROVE  Real("uaflix", s, UaflixStream(s, pos, dub, ans))
<1> QED BY UaflixMedia, UaflixPlayedFacts DEF Real

LEMMA UaflixPlays ==
    ASSUME NEW s, Possible("uaflix", s), NEW listed, NEW ans,
           NEW row \in UaflixContent(s, listed).rows, NEW dub \in row.dubs \cup {0}
    PROVE  /\ Right("uaflix", s, row, dub, UaflixStream(s, row.at, dub, ans))
           /\ Alive("uaflix", s, row, dub, UaflixStream(s, row.at, dub, AllUp))
<1> DEFINE played(page) == UaflixPlayed(s, row.at, page)
<1>1. row \in UaflixSeasons(s, listed)
  BY DetailFacts DEF UaflixContent
<1>2. ASSUME s.linked
      PROVE  /\ played("page") # NoFile /\ dub = 0
             /\ \A page : played(page) # NoFile /\ ~Misnumbered("uaflix", s) =>
                   played(page).s = row.says.s /\ played(page).e = row.says.e
  <2>1. PICK f \in ToSet(s.files) : row = Row(<<f.s, f.e>>, f, {})
    BY <1>1, <1>2 DEF UaflixSeasons
  <2>2. row.at = <<f.s, f.e>> /\ row.says = f /\ dub = 0
    BY <2>1, RowFacts
  <2>3. f \in UaflixOwn(s, row.at)
    BY <1>2, <2>2 DEF UaflixOwn
  <2>4. played("page") # NoFile /\ row.at = <<played("page").s, played("page").e>>
    BY <2>3, UaflixPlayedFacts
  <2>5. played("page").s = f.s /\ played("page").e = f.e
    <3> HIDE DEF played
    <3> QED BY <2>2, <2>4
  <2>6. ASSUME NEW page, page # "page", played(page) # NoFile, ~Misnumbered("uaflix", s)
        PROVE  played(page).s = f.s /\ played(page).e = f.e
    <3> DEFINE there == IF s.payload = "url" THEN First(s.files)
                        ELSE At(Folders(DubFolder(s.files, 0), "s"), <<f.s, f.e>>)
    <3>1. there = NoFile \/ <<there.s, there.e>> = <<f.s, f.e>>
      BY <1>2, <2>6 DEF Misnumbered
    <3>2. played(page) = there
      BY <2>2, <2>6 DEF UaflixPlayed, Lead
    <3> HIDE DEF there, played
    <3> QED BY <2>6, <3>1, <3>2
  <2> HIDE DEF played
  <2>7. \A page : played(page) # NoFile /\ ~Misnumbered("uaflix", s) =>
           played(page).s = f.s /\ played(page).e = f.e
    BY <2>5, <2>6
  <2> QED BY <2>2, <2>4, <2>7
<1>3. ASSUME ~s.linked
      PROVE  (\A page : played(page) = row.says) /\ row.says # NoFile /\ dub = 0
  <2>1. row \in RowsOf(Lead(s), LAMBDA f : {}) /\ s.payload = "list"
    BY <1>1, <1>3 DEF UaflixSeasons, UaflixProbe, Lead
  <2>2. PICK i \in DOMAIN Lead(s) : \E j \in DOMAIN Lead(s)[i] :
           row.at = <<i, j>> /\ row.says = Lead(s)[i][j] /\ row.dubs = {}
    BY <2>1 DEF RowsOf, Row
  <2>3. PICK j \in DOMAIN Lead(s)[i] : row.at = <<i, j>> /\ row.says = Lead(s)[i][j] /\ row.dubs = {}
    BY <2>2
  <2>4. At(Lead(s), row.at) = row.says /\ row.says # NoFile
    BY <2>3, LeadFacts
  <2>5. UaflixOwn(s, row.at) = {}
    BY <1>3 DEF UaflixOwn
  <2> QED BY <2>1, <2>3, <2>4, <2>5 DEF UaflixPlayed
<1>4. played("page") # NoFile /\ dub = 0
  BY <1>2, <1>3
<1>5. ASSUME NEW page, played(page) # NoFile, ~Misnumbered("uaflix", s)
      PROVE  played(page).s = row.says.s /\ played(page).e = row.says.e
  <2> HIDE DEF played
  <2> QED BY <1>2, <1>3, <1>5
<1>6. Right("uaflix", s, row, dub, UaflixStream(s, row.at, dub, ans))
  <2> SUFFICES ASSUME UaflixStream(s, row.at, dub, ans).code = "ok", ~Misnumbered("uaflix", s)
               PROVE  Meant(s, row, dub, UaflixStream(s, row.at, dub, ans).file)
    BY DEF Right
  <2>1. /\ played(ans.page) # NoFile
        /\ UaflixStream(s, row.at, dub, ans).file = played(ans.page)
    BY UaflixMedia
  <2> HIDE DEF played
  <2> QED BY <1>4, <1>5, <2>1 DEF Meant
<1>7. Alive("uaflix", s, row, dub, UaflixStream(s, row.at, dub, AllUp))
  BY <1>4, UaflixMedia DEF Alive
<1> QED BY <1>6, <1>7

-----------------------------------------------------------------------------
(* Episodes by their own number: coaninet, animeon, unimay, simpsonsuatv and   *)
(* uakino.                                                                     *)

\* The files of one number.
LEMMA NumberedFacts ==
    ASSUME NEW files \in Seq(File), NEW e
    PROVE  /\ Folder(files, "e", e) \in Seq(File)
           /\ \A f : f \in ToSet(Folder(files, "e", e)) <=> f \in ToSet(files) /\ f.e = e
           /\ Folder(files, "e", e) # <<>> => Head(Folder(files, "e", e)) \in ToSet(Folder(files, "e", e))
           /\ (\E f \in ToSet(files) : f.e = e) => Folder(files, "e", e) # <<>>
<1> DEFINE q == Folder(files, "e", e)
<1>1. /\ q \in Seq(File) /\ ToSet(q) = {f \in ToSet(files) : f["e"] = e}
      /\ q = <<>> <=> \A f \in ToSet(files) : f["e"] # e
  BY FolderFacts
<1> HIDE DEF q
<1>2. q # <<>> => Head(q) \in ToSet(q)
  BY <1>1 DEF ToSet
<1> QED BY <1>1, <1>2 DEF q

\* The files of one dub.
LEMMA DubbedFacts ==
    ASSUME NEW files \in Seq(File), NEW d
    PROVE  /\ Folder(files, "d", d) \in Seq(File)
           /\ \A f : f \in ToSet(Folder(files, "d", d)) <=> f \in ToSet(files) /\ f.d = d
           /\ Folder(files, "d", d) # <<>> => Head(Folder(files, "d", d)) \in ToSet(Folder(files, "d", d))
           /\ (\E f \in ToSet(files) : f.d = d) => Folder(files, "d", d) # <<>>
<1> DEFINE q == Folder(files, "d", d)
<1>1. /\ q \in Seq(File) /\ ToSet(q) = {f \in ToSet(files) : f["d"] = d}
      /\ q = <<>> <=> \A f \in ToSet(files) : f["d"] # d
  BY FolderFacts
<1> HIDE DEF q
<1>2. q # <<>> => Head(q) \in ToSet(q)
  BY <1>1 DEF ToSet
<1> QED BY <1>1, <1>2 DEF q

LEMMA HeadFacts ==
    ASSUME NEW S, NEW q \in Seq(S), q # <<>>
    PROVE  Head(q) \in ToSet(q)
BY DEF ToSet

LEMMA DubOrFirstFacts ==
    ASSUME NEW files \in Seq(File), NEW dub
    PROVE  /\ files = <<>> => DubOrFirst(files, dub) = NoFile
           /\ files # <<>> => DubOrFirst(files, dub) \in ToSet(files)
           /\ dub # 0 /\ (\E f \in ToSet(files) : f.d = dub) => DubOrFirst(files, dub).d = dub
<1> DEFINE same == IF dub = 0 THEN <<>> ELSE Folder(files, "d", dub)
<1>1. DubOrFirst(files, dub) =
         IF files = <<>> THEN NoFile ELSE IF same = <<>> THEN First(files) ELSE Head(same)
  BY DEF DubOrFirst
<1>2. same # <<>> => Head(same) \in ToSet(files) /\ Head(same).d = dub
  BY DubbedFacts
<1>3. dub # 0 /\ (\E f \in ToSet(files) : f.d = dub) => same # <<>>
  BY DubbedFacts
<1>4. files # <<>> => First(files) = Head(files) /\ Head(files) \in ToSet(files)
  BY HeadFacts DEF First
<1>5. files = <<>> => ToSet(files) = {}
  BY DEF ToSet
<1> HIDE DEF same
<1> QED BY <1>1, <1>2, <1>3, <1>4, <1>5

LEMMA CoaninetReal ==
    ASSUME NEW s, Possible("coaninet", s), NEW pos, NEW dub, NEW ans
    PROVE  Real("coaninet", s, CoaninetStream(s, pos, dub, ans))
<1> DEFINE found == Numbered(s.files, IF pos = <<>> THEN 1 ELSE pos[2])
           pick == DubOrFirst(found, dub)
           media == CoaninetStream(s, pos, dub, ans)
<1>1. media.code = "ok" => pick # NoFile /\ media.file = pick
  BY MediaFacts DEF CoaninetStream
<1>2. s.files \in Seq(File)
  BY SiteFacts
<1>3. found \in Seq(File) /\ ToSet(found) \subseteq ToSet(s.files)
  BY <1>2, NumberedFacts DEF Numbered
<1> HIDE DEF found, media
<1>4. pick \in ToSet(s.files) \cup {NoFile}
  BY <1>3, DubOrFirstFacts
<1> HIDE DEF pick
<1>5. Real("coaninet", s, media)
  BY <1>1, <1>4 DEF Real
<1> QED BY <1>5 DEF media

LEMMA CoaninetPlays ==
    ASSUME NEW s, Possible("coaninet", s), NEW listed, NEW ans,
           NEW row \in CoaninetContent(s, listed).rows, NEW dub \in row.dubs \cup {0}
    PROVE  /\ Right("coaninet", s, row, dub, CoaninetStream(s, row.at, dub, ans))
           /\ Alive("coaninet", s, row, dub, CoaninetStream(s, row.at, dub, AllUp))
<1> DEFINE found == Numbered(s.files, row.at[2])
           pick == DubOrFirst(found, dub)
           media(a) == CoaninetStream(s, row.at, dub, a)
<1>1. PICK e \in Numbers(s.files) :
         row = Row(<<1, e>>, Head(Numbered(s.files, e)), DubsOf(Numbered(s.files, e)))
  BY DetailFacts DEF CoaninetContent, NumberRows
<1>2. /\ row.at = <<1, e>> /\ row.says = Head(Numbered(s.files, e))
      /\ row.dubs = DubsOf(Numbered(s.files, e))
  BY <1>1, RowFacts
<1>3. row.at # <<>> /\ row.at[2] = e
  BY <1>2
<1>4. \A a : media(a) = Media(Refusal(CoaninetSeason(s, a) \o <<Unless(found # <<>>, "not_found")>>), pick)
  BY <1>3 DEF CoaninetStream
<1>5. s.files \in Seq(File) /\ \A f, g \in ToSet(s.files) : f # NoFile /\ f.s = g.s
  BY SiteFacts DEF Possible, Seasonless
<1>6. found = Numbered(s.files, e)
  BY <1>3
<1>7. found \in Seq(File) /\ found # <<>> /\ \A f : f \in ToSet(found) <=> f \in ToSet(s.files) /\ f.e = e
  BY <1>5, <1>6, NumberedFacts DEF Numbered, Numbers
<1> HIDE DEF found
<1>8. row.says \in ToSet(found) /\ row.dubs = DubsOf(found)
  BY <1>2, <1>6, <1>7, HeadFacts
<1>9. pick \in ToSet(found) /\ (dub # 0 => pick.d = dub)
  <2>1. dub # 0 => \E f \in ToSet(found) : f.d = dub
    BY <1>8 DEF DubsOf
  <2> QED BY <1>7, <2>1, DubOrFirstFacts
<1> HIDE DEF pick
<1>10. pick # NoFile /\ Meant(s, row, dub, pick)
  BY <1>5, <1>7, <1>8, <1>9 DEF Meant
<1>11. ASSUME Intact(s) PROVE media(AllUp).code = "ok"
  <2>1. CoaninetSeason(s, AllUp) = <<"ok", "ok", "ok">> /\ <<Unless(found # <<>>, "not_found")>> = <<"ok">>
    BY <1>7, <1>11, UpFacts DEF Intact, CoaninetSeason
  <2>2. Refusal(CoaninetSeason(s, AllUp) \o <<Unless(found # <<>>, "not_found")>>) = "ok"
    BY <2>1, NoneRefused
  <2> HIDE DEF media
  <2> QED BY <1>4, <1>10, <2>2, MediaFacts
<1>12. media(ans).code = "ok" => media(ans).file = pick
  <2> HIDE DEF media
  <2> QED BY <1>4, MediaFacts
<1> HIDE DEF media
<1>13. Right("coaninet", s, row, dub, media(ans))
  BY <1>10, <1>12 DEF Right
<1>14. Alive("coaninet", s, row, dub, media(AllUp))
  BY <1>11 DEF Alive
<1> QED BY <1>13, <1>14 DEF media

\* The files that pass a condition on their positions.
LEMMA ThoseFacts ==
    ASSUME NEW files \in Seq(File), NEW pos \in SUBSET (DOMAIN files)
    PROVE  /\ Picked(files, pos) \in Seq(File) /\ ToSet(Picked(files, pos)) \subseteq ToSet(files)
           /\ \A i \in pos : files[i] \in ToSet(Picked(files, pos))
           /\ \A f \in ToSet(Picked(files, pos)) : \E i \in pos : f = files[i]
           /\ Picked(files, pos) # <<>> => Head(Picked(files, pos)) \in ToSet(Picked(files, pos))
<1> DEFINE q == Picked(files, pos)
<1>1. q \in Seq(File) /\ ToSet(q) = {files[i] : i \in pos}
  BY PickedFacts
<1> HIDE DEF q
<1>2. \A i \in pos : files[i] \in ToSet(files)
  BY DEF ToSet
<1>3. q # <<>> => Head(q) \in ToSet(q)
  BY <1>1, HeadFacts
<1> QED BY <1>1, <1>2, <1>3 DEF q

\* A walked pair leaves files of the title.
LEMMA AnimeonPairsFacts ==
    ASSUME NEW s, s.files \in Seq(File), NEW ans
    PROVE  AnimeonPairs(s, ans) \in Seq(File) /\ ToSet(AnimeonPairs(s, ans)) \subseteq ToSet(s.files)
<1> DEFINE pos == {i \in DOMAIN s.files : ans.list = "page" \/ s.files[i].d # First(s.files).d}
<1>1. AnimeonPairs(s, ans) = Picked(s.files, pos)
  BY DEF AnimeonPairs, Those
<1>2. pos \in SUBSET (DOMAIN s.files)
  OBVIOUS
<1> HIDE DEF pos
<1> QED BY <1>1, <1>2, ThoseFacts

AnimeonNamed(s, dub) ==
    Those(IF s.payload = "list" THEN s.files ELSE <<>>, LAMBDA f : dub = 0 \/ f.d = dub)

LEMMA AnimeonNamedFacts ==
    ASSUME NEW s, s.files \in Seq(File), NEW dub, AnimeonNamed(s, dub) # <<>>
    PROVE  Head(AnimeonNamed(s, dub)) \in ToSet(s.files) /\ (dub = 0 \/ Head(AnimeonNamed(s, dub)).d = dub)
<1> DEFINE files == IF s.payload = "list" THEN s.files ELSE <<>>
           pos == {i \in DOMAIN files : dub = 0 \/ files[i].d = dub}
           named == AnimeonNamed(s, dub)
<1>1. named = Picked(files, pos)
  BY DEF AnimeonNamed, Those
<1>2. files \in Seq(File) /\ pos \in SUBSET (DOMAIN files) /\ ToSet(files) \subseteq ToSet(s.files)
  BY DEF ToSet
<1>3. \A i \in pos : dub = 0 \/ files[i].d = dub
  OBVIOUS
<1> HIDE DEF named, files, pos
<1>4. /\ named \in Seq(File) /\ ToSet(named) \subseteq ToSet(files)
      /\ \A f \in ToSet(named) : \E i \in pos : f = files[i]
  BY <1>1, <1>2, ThoseFacts
<1>5. Head(named) \in ToSet(named)
  BY <1>4, HeadFacts DEF named
<1> QED BY <1>2, <1>3, <1>4, <1>5 DEF named

\* What a film's press plays, ...
LEMMA AnimeonFilmMedia ==
    ASSUME NEW s, NEW dub, NEW ans, AnimeonFilmStream(s, dub, ans).code = "ok"
    PROVE  AnimeonNamed(s, dub) # <<>> /\ AnimeonFilmStream(s, dub, ans).file = Head(AnimeonNamed(s, dub))
<1>1. \A code, file : Media(code, file).code = "ok" => file # NoFile /\ Media(code, file).file = file
  BY MediaFacts
<1>2. \/ \E code : AnimeonFilmStream(s, dub, ans) = Media(code, NoFile)
      \/ /\ AnimeonNamed(s, dub) # <<>>
         /\ AnimeonFilmStream(s, dub, ans) = Media(Strict(ans.file), Head(AnimeonNamed(s, dub)))
  <2> DEFINE named == AnimeonNamed(s, dub)
             media == AnimeonFilmStream(s, dub, ans)
  <2>1. \/ \E code : media = Media(code, NoFile)
        \/ named # <<>> /\ media = Media(Strict(ans.file), Head(named))
    BY Zenon DEF AnimeonFilmStream, AnimeonNamed
  <2> QED BY <2>1
<1> QED BY <1>1, <1>2

\* ... and what an episode's does.
AnimeonChosen(s, pos, dub) ==
    IF dub = 0 THEN Numbered(s.files, pos[2]) ELSE Folder(Numbered(s.files, pos[2]), "d", dub)

LEMMA AnimeonMedia ==
    ASSUME NEW s, s.files \in Seq(File), NEW pos, pos # <<>>, NEW dub, NEW ans
    PROVE  /\ AnimeonStream(s, pos, dub, ans).code = "ok" =>
                 /\ AnimeonChosen(s, pos, dub) # <<>>
                 /\ AnimeonStream(s, pos, dub, ans).file = Head(AnimeonChosen(s, pos, dub))
           /\ AnimeonChosen(s, pos, dub) # <<>> =>
                 AnimeonStream(s, pos, dub, ans) = Media(Strict(ans.file), Head(AnimeonChosen(s, pos, dub)))
<1> DEFINE sources == Numbered(s.files, pos[2])
           chosen == AnimeonChosen(s, pos, dub)
           media == AnimeonStream(s, pos, dub, ans)
<1>1. sources = <<>> => chosen = <<>>
  <2>1. sources \in Seq(File)
    BY NumberedFacts DEF Numbered
  <2> HIDE DEF sources
  <2>2. ToSet(<<>>) = {}
    BY DEF ToSet
  <2>3. sources = <<>> => Folder(sources, "d", dub) = <<>>
    <3>1. \A f : f \notin ToSet(<<>>)
      BY <2>2
    <3>2. /\ \A f : f \in ToSet(Folder(sources, "d", dub)) <=> f \in ToSet(sources) /\ f.d = dub
          /\ Folder(sources, "d", dub) # <<>>
                => Head(Folder(sources, "d", dub)) \in ToSet(Folder(sources, "d", dub))
      BY <2>1, DubbedFacts
    <3> QED BY <3>1, <3>2
  <2> QED BY <2>3 DEF AnimeonChosen, sources
<1>2. media = IF sources = <<>> THEN Media("parse_failed", NoFile)
              ELSE IF chosen = <<>> THEN Media("translation_missing", NoFile)
              ELSE Media(Strict(ans.file), Head(chosen))
  BY DEF AnimeonStream, AnimeonChosen
<1> HIDE DEF sources, chosen, media
<1> QED BY <1>1, <1>2, MediaFacts DEF chosen, media

LEMMA AnimeonReal ==
    ASSUME NEW s, Possible("animeon", s), NEW pos, NEW dub, NEW ans
    PROVE  Real("animeon", s, AnimeonStream(s, pos, dub, ans))
<1>1. s.files \in Seq(File)
  BY SiteFacts
<1>2. CASE pos = <<>>
  <2>1. AnimeonStream(s, pos, dub, ans) = AnimeonFilmStream(s, dub, ans)
    BY <1>2 DEF AnimeonStream
  <2> QED BY <1>1, <2>1, AnimeonFilmMedia, AnimeonNamedFacts DEF Real
<1>3. CASE pos # <<>>
  <2> DEFINE sources == Numbered(s.files, pos[2])
             chosen == AnimeonChosen(s, pos, dub)
  <2>1. sources \in Seq(File) /\ ToSet(sources) \subseteq ToSet(s.files)
    BY <1>1, NumberedFacts DEF Numbered
  <2>2. chosen = IF dub = 0 THEN sources ELSE Folder(sources, "d", dub)
    BY DEF AnimeonChosen
  <2> HIDE DEF sources, chosen
  <2>3. chosen # <<>> => Head(chosen) \in ToSet(s.files)
    BY <2>1, <2>2, HeadFacts, DubbedFacts
  <2> QED BY <1>1, <1>3, <2>3, AnimeonMedia DEF Real, chosen
<1> QED BY <1>2, <1>3

LEMMA AnimeonEpisode ==
    ASSUME NEW s, Possible("animeon", s), NEW listed, NEW row \in NumberRows(AnimeonPairs(s, listed)),
           NEW dub \in row.dubs \cup {0}
    PROVE  /\ row.at # <<>> /\ AnimeonChosen(s, row.at, dub) # <<>>
           /\ Head(AnimeonChosen(s, row.at, dub)) # NoFile
           /\ Meant(s, row, dub, Head(AnimeonChosen(s, row.at, dub)))
<1> DEFINE pairs == AnimeonPairs(s, listed)
           mine(e) == Numbered(pairs, e)
<1>1. /\ s.files \in Seq(File)
      /\ \A f \in ToSet(s.files) : f # NoFile
  BY SiteFacts
<1>2. pairs \in Seq(File) /\ ToSet(pairs) \subseteq ToSet(s.files)
  BY <1>1, AnimeonPairsFacts
<1>3. \A f, g \in ToSet(s.files) : f.s = g.s
  BY DEF Possible, Seasonless
<1>4. PICK e \in Numbers(pairs) : row = Row(<<1, e>>, Head(mine(e)), DubsOf(mine(e)))
  BY DEF NumberRows
<1> HIDE DEF pairs
<1>5. /\ mine(e) \in Seq(File) /\ mine(e) # <<>>
      /\ \A f : f \in ToSet(mine(e)) <=> f \in ToSet(pairs) /\ f.e = e
  BY <1>2, NumberedFacts DEF Numbered, Numbers
<1> HIDE DEF mine
<1>6. row.at = <<1, e>> /\ row.says = Head(mine(e)) /\ row.dubs = DubsOf(mine(e))
  BY <1>4, RowFacts
<1>7. row.at # <<>> /\ row.at[2] = e
  BY <1>6
<1>8. row.says \in ToSet(mine(e))
  BY <1>5, <1>6, HeadFacts
<1> DEFINE sources == Numbered(s.files, e)
           chosen == AnimeonChosen(s, row.at, dub)
<1>9. /\ sources \in Seq(File)
      /\ \A f : f \in ToSet(sources) <=> f \in ToSet(s.files) /\ f.e = e
      /\ (\E f \in ToSet(s.files) : f.e = e) => sources # <<>>
  BY <1>1, NumberedFacts DEF Numbered
<1>10. chosen = IF dub = 0 THEN sources ELSE Folder(sources, "d", dub)
  BY <1>7 DEF AnimeonChosen
<1> HIDE DEF sources, chosen
<1>11. row.says \in ToSet(sources) /\ sources # <<>>
  BY <1>2, <1>5, <1>8, <1>9
<1>12. dub # 0 => \E f \in ToSet(sources) : f.d = dub
  BY <1>2, <1>5, <1>6, <1>9 DEF DubsOf
<1>13. chosen # <<>> /\ Head(chosen) \in ToSet(sources) /\ (dub # 0 => Head(chosen).d = dub)
  BY <1>9, <1>10, <1>11, <1>12, HeadFacts, DubbedFacts
<1>14. Head(chosen) # NoFile /\ Meant(s, row, dub, Head(chosen))
  BY <1>1, <1>3, <1>9, <1>11, <1>13 DEF Meant
<1> QED BY <1>7, <1>13, <1>14 DEF chosen

LEMMA AnimeonPlays ==
    ASSUME NEW s, Possible("animeon", s), NEW listed, NEW ans,
           NEW row \in AnimeonContent(s, listed).rows, NEW dub \in row.dubs \cup {0}
    PROVE  /\ Right("animeon", s, row, dub, AnimeonStream(s, row.at, dub, ans))
           /\ Alive("animeon", s, row, dub, AnimeonStream(s, row.at, dub, AllUp))
<1> DEFINE media(a) == AnimeonStream(s, row.at, dub, a)
           chosen == AnimeonChosen(s, row.at, dub)
<1>1. s.files \in Seq(File) /\ \A f \in ToSet(s.files) : f # NoFile /\ f.d # Uk
  BY SiteFacts
<1>2. CASE s.series
  <2>1. row \in NumberRows(AnimeonPairs(s, listed))
    BY <1>2, DetailFacts DEF AnimeonContent, AnimeonEpisodes
  <2>2. row.at # <<>> /\ chosen # <<>> /\ Head(chosen) # NoFile /\ Meant(s, row, dub, Head(chosen))
    BY <2>1, AnimeonEpisode
  <2>3. media(ans).code = "ok" => media(ans).file = Head(chosen)
    BY <1>1, <2>2, AnimeonMedia
  <2>4. media(AllUp) = Media("ok", Head(chosen))
    BY <1>1, <2>2, AnimeonMedia, UpFacts
  <2>5. media(AllUp).code = "ok"
    BY <2>2, <2>4, MediaFacts
  <2> HIDE DEF media, chosen
  <2>6. Right("animeon", s, row, dub, media(ans)) /\ Alive("animeon", s, row, dub, media(AllUp))
    BY <2>2, <2>3, <2>5 DEF Right, Alive
  <2> QED BY <2>6 DEF media
<1>3. CASE ~s.series
  <2>1. row.at = <<>> /\ row.says = Head(s.files) /\ s.files # <<>>
    <3>1. \E dubs : row \in FilmRow(s.files, dubs)
      BY <1>3, DetailFacts DEF AnimeonContent, AnimeonFilm
    <3> QED BY <3>1, FilmRowFacts
  <2>2. row.says \in ToSet(s.files)
    BY <1>1, <2>1, HeadFacts
  <2>3. \A f, g \in ToSet(s.files) : f.s = g.s /\ f.e = g.e
    BY <1>3 DEF Possible, Seasonless
  <2>4. media(ans) = AnimeonFilmStream(s, dub, ans)
    BY <2>1 DEF AnimeonStream
  <2>5. media(ans).code = "ok" => Meant(s, row, dub, media(ans).file)
    <3> DEFINE file == Head(AnimeonNamed(s, dub))
    <3> SUFFICES ASSUME media(ans).code = "ok" PROVE Meant(s, row, dub, media(ans).file)
      OBVIOUS
    <3>1. AnimeonNamed(s, dub) # <<>> /\ media(ans).file = file
      BY <2>4, AnimeonFilmMedia
    <3>2. file \in ToSet(s.files) /\ (dub = 0 \/ file.d = dub)
      BY <1>1, <3>1, AnimeonNamedFacts
    <3> HIDE DEF file, media
    <3> QED BY <2>2, <2>3, <3>1, <3>2 DEF Meant
  <2>6. DeadRows("animeon", s, row)
    BY <1>3 DEF DeadRows
  <2> QED BY <2>5, <2>6 DEF Right, Alive
<1> QED BY <1>2, <1>3

LEMMA UnimayReal ==
    ASSUME NEW s, Possible("unimay", s), NEW pos, NEW dub, NEW ans
    PROVE  Real("unimay", s, UnimayStream(s, pos, dub, ans))
<1> DEFINE found == Numbered(s.files, IF pos = <<>> THEN 1 ELSE pos[2])
           free == UnimayFree(s)
           pick == IF found # <<>> THEN found ELSE free
           code == Refusal(UnimayRelease(s, ans))
           media == UnimayStream(s, pos, dub, ans)
<1>1. s.files \in Seq(File)
  BY SiteFacts
<1>2. found \in Seq(File) /\ ToSet(found) \subseteq ToSet(s.files)
  BY <1>1, NumberedFacts DEF Numbered
<1>3. free \in Seq(File) /\ ToSet(free) \subseteq ToSet(s.files)
  <2> DEFINE at2 == {i \in DOMAIN s.files : s.files[i].d # Premium}
  <2>1. free = Picked(s.files, at2) /\ at2 \in SUBSET (DOMAIN s.files)
    BY DEF UnimayFree, Those
  <2> HIDE DEF at2, free
  <2> QED BY <1>1, <2>1, ThoseFacts
<1>4. media = IF pick = <<>> THEN Media(Refusal(<<code, "not_found">>), NoFile) ELSE Media(code, Head(pick))
  BY DEF UnimayStream
<1> HIDE DEF found, free, media, code
<1>5. pick # <<>> => Head(pick) \in ToSet(s.files)
  BY <1>2, <1>3, HeadFacts
<1> HIDE DEF pick
<1>6. media.code = "ok" => pick # <<>> /\ media.file = Head(pick)
  BY <1>4, MediaFacts
<1>7. Real("unimay", s, media)
  BY <1>5, <1>6 DEF Real
<1> QED BY <1>7 DEF media

LEMMA UnimayPlays ==
    ASSUME NEW s, Possible("unimay", s), NEW listed, NEW ans,
           NEW row \in UnimayContent(s, listed).rows, NEW dub \in row.dubs \cup {0}
    PROVE  /\ Right("unimay", s, row, dub, UnimayStream(s, row.at, dub, ans))
           /\ Alive("unimay", s, row, dub, UnimayStream(s, row.at, dub, AllUp))
<1> DEFINE found == Numbered(s.files, row.at[2])
           free == UnimayFree(s)
           pick == IF found # <<>> THEN found ELSE free
           media(a) == UnimayStream(s, row.at, dub, a)
<1>1. s.files \in Seq(File) /\ \A f \in ToSet(s.files) : f # NoFile
  BY SiteFacts
<1>2. \A f, g \in ToSet(s.files) : f.s = g.s
  BY DEF Possible, Seasonless
<1>3. PICK i \in {j \in DOMAIN s.files : s.files[j].d # Premium} :
         row = Row(<<1, IF s.files[i].e = 0 THEN i ELSE s.files[i].e>>, s.files[i], {})
  BY DetailFacts DEF UnimayContent
<1>4. /\ i \in DOMAIN s.files /\ s.files[i].d # Premium /\ s.files[i] \in ToSet(s.files)
      /\ row.says = s.files[i] /\ row.dubs = {} /\ row.at # <<>>
      /\ row.at = <<1, IF s.files[i].e = 0 THEN i ELSE s.files[i].e>>
  <2> DEFINE n == IF s.files[i].e = 0 THEN i ELSE s.files[i].e
  <2>1. i \in DOMAIN s.files /\ s.files[i].d # Premium
    OBVIOUS
  <2>2. s.files[i] \in ToSet(s.files)
    BY DEF ToSet
  <2> HIDE DEF n
  <2>3. row = Row(<<1, n>>, s.files[i], {})
    BY <1>3 DEF n
  <2>4. row.says = s.files[i] /\ row.dubs = {} /\ row.at = <<1, n>>
    BY <2>3, RowFacts
  <2>5. row.at # <<>>
    BY <2>4
  <2> QED BY <2>1, <2>2, <2>4, <2>5 DEF n
<1>5. dub = 0
  BY <1>4
<1>6. row.at[2] = IF row.says.e = 0 THEN i ELSE row.says.e
  BY <1>4
<1>7. /\ found \in Seq(File) /\ \A f : f \in ToSet(found) <=> f \in ToSet(s.files) /\ f.e = row.at[2]
      /\ (\E f \in ToSet(s.files) : f.e = row.at[2]) => found # <<>>
  BY <1>1, NumberedFacts DEF Numbered
<1>8. free \in Seq(File) /\ ToSet(free) \subseteq ToSet(s.files) /\ row.says \in ToSet(free)
  <2> DEFINE at2 == {j \in DOMAIN s.files : s.files[j].d # Premium}
  <2>1. free = Picked(s.files, at2) /\ at2 \in SUBSET (DOMAIN s.files)
    BY DEF UnimayFree, Those
  <2>2. i \in at2
    BY <1>4
  <2> HIDE DEF at2, free
  <2> QED BY <1>1, <1>4, <2>1, <2>2, ThoseFacts
<1>9. \A a : media(a) = IF pick = <<>> THEN Media(Refusal(<<Refusal(UnimayRelease(s, a)), "not_found">>), NoFile)
                        ELSE Media(Refusal(UnimayRelease(s, a)), Head(pick))
  BY <1>4 DEF UnimayStream
<1> HIDE DEF found, free, media
<1>10. pick # <<>> /\ Head(pick) \in ToSet(s.files)
  <2>1. free # <<>>
    BY <1>8 DEF ToSet
  <2> QED BY <1>7, <1>8, <2>1, HeadFacts
<1>11. ~Misnumbered("unimay", s) => Head(pick).e = row.says.e
  <2> SUFFICES ASSUME ~Misnumbered("unimay", s) PROVE Head(pick).e = row.says.e
    OBVIOUS
  <2>1. row.says.e # 0
    BY <1>4 DEF Misnumbered
  <2>2. found # <<>> /\ row.at[2] = row.says.e
    BY <1>4, <1>6, <1>7, <2>1
  <2> QED BY <1>7, <2>2, HeadFacts
<1> HIDE DEF pick
<1>12. \A a : media(a) = Media(Refusal(UnimayRelease(s, a)), Head(pick))
  BY <1>9, <1>10
<1>13. media(ans).code = "ok" => media(ans).file = Head(pick)
  BY <1>12, MediaFacts
<1>14. ASSUME Intact(s) PROVE media(AllUp).code = "ok"
  <2>1. UnimayRelease(s, AllUp) = <<"ok", "ok">>
    BY <1>14, UpFacts DEF Intact, UnimayRelease
  <2>2. Refusal(UnimayRelease(s, AllUp)) = "ok"
    BY <2>1, NoneRefused
  <2>3. Head(pick) # NoFile
    BY <1>1, <1>10
  <2> QED BY <1>12, <2>2, <2>3, MediaFacts
<1>15. Right("unimay", s, row, dub, media(ans))
  BY <1>2, <1>4, <1>5, <1>10, <1>11, <1>13 DEF Right, Meant
<1>16. Alive("unimay", s, row, dub, media(AllUp))
  BY <1>14 DEF Alive
<1> QED BY <1>15, <1>16 DEF media

SimpsonsPage(s, pos) == Those(s.files, LAMBDA f : pos = <<f.s, f.e>>)

LEMMA SimpsonsPageFacts ==
    ASSUME NEW s, s.files \in Seq(File), NEW pos
    PROVE  /\ SimpsonsPage(s, pos) # <<>> =>
                 /\ Head(SimpsonsPage(s, pos)) \in ToSet(s.files)
                 /\ pos = <<Head(SimpsonsPage(s, pos)).s, Head(SimpsonsPage(s, pos)).e>>
           /\ (\E f \in ToSet(s.files) : pos = <<f.s, f.e>>) => SimpsonsPage(s, pos) # <<>>
<1> DEFINE where == {i \in DOMAIN s.files : pos = <<s.files[i].s, s.files[i].e>>}
           page == SimpsonsPage(s, pos)
<1>1. page = Picked(s.files, where) /\ where \in SUBSET (DOMAIN s.files)
  BY DEF SimpsonsPage, Those
<1>2. \A i \in where : pos = <<s.files[i].s, s.files[i].e>>
  OBVIOUS
<1>3. (\E f \in ToSet(s.files) : pos = <<f.s, f.e>>) => where # {}
  BY DEF ToSet
<1> HIDE DEF where, page
<1>4. /\ page \in Seq(File) /\ ToSet(page) \subseteq ToSet(s.files)
      /\ \A i \in where : s.files[i] \in ToSet(page)
      /\ \A f \in ToSet(page) : \E i \in where : f = s.files[i]
      /\ page # <<>> => Head(page) \in ToSet(page)
  BY <1>1, ThoseFacts
<1>5. where # {} => page # <<>>
  BY <1>4 DEF ToSet
<1>6. page # <<>> => Head(page) \in ToSet(s.files) /\ pos = <<Head(page).s, Head(page).e>>
  BY <1>2, <1>4
<1> QED BY <1>3, <1>5, <1>6 DEF page

LEMMA SimpsonsMedia ==
    ASSUME NEW s, NEW pos, NEW dub, NEW ans
    PROVE  /\ SimpsonsStream(s, pos, dub, ans).code = "ok" =>
                 /\ SimpsonsPage(s, pos) # <<>>
                 /\ SimpsonsStream(s, pos, dub, ans).file = Head(SimpsonsPage(s, pos))
           /\ Intact(s) /\ SimpsonsPage(s, pos) # <<>> /\ Head(SimpsonsPage(s, pos)) # NoFile
                 => SimpsonsStream(s, pos, dub, AllUp).code = "ok"
<1> DEFINE page == SimpsonsPage(s, pos)
           codes(a) == <<Lenient(a.page), Unless(s.player # "none", "parse_failed"), Lenient(a.player)>>
           media(a) == SimpsonsStream(s, pos, dub, a)
<1>1. \A a : media(a) = IF page = <<>> THEN Media("not_found", NoFile)
                        ELSE Media(Refusal(codes(a)), Head(page))
  BY DEF SimpsonsStream, SimpsonsPage
<1>2. Intact(s) => codes(AllUp) = <<"ok", "ok", "ok">>
  BY UpFacts DEF Intact
<1> HIDE DEF page, codes, media
<1>3. Intact(s) => Refusal(codes(AllUp)) = "ok"
  BY <1>2, NoneRefused
<1>4. media(ans).code = "ok" => page # <<>> /\ media(ans).file = Head(page)
  BY <1>1, MediaFacts
<1>5. Intact(s) /\ page # <<>> /\ Head(page) # NoFile => media(AllUp).code = "ok"
  BY <1>1, <1>3, MediaFacts
<1> QED BY <1>4, <1>5 DEF page, media

LEMMA SimpsonsReal ==
    ASSUME NEW s, Possible("simpsonsuatv", s), NEW pos, NEW dub, NEW ans
    PROVE  Real("simpsonsuatv", s, SimpsonsStream(s, pos, dub, ans))
BY SiteFacts, SimpsonsMedia, SimpsonsPageFacts DEF Real

LEMMA SimpsonsPlays ==
    ASSUME NEW s, Possible("simpsonsuatv", s), NEW listed, NEW ans,
           NEW row \in SimpsonsContent(s, listed).rows, NEW dub \in row.dubs \cup {0}
    PROVE  /\ Right("simpsonsuatv", s, row, dub, SimpsonsStream(s, row.at, dub, ans))
           /\ Alive("simpsonsuatv", s, row, dub, SimpsonsStream(s, row.at, dub, AllUp))
<1> DEFINE page == SimpsonsPage(s, row.at)
<1>1. s.files \in Seq(File) /\ \A f \in ToSet(s.files) : f # NoFile
  BY SiteFacts
<1>2. PICK f \in ToSet(s.files) : row = Row(<<f.s, f.e>>, f, {})
  <2> DEFINE seasons == IF s.shape = "season" THEN SimpsonsShow(s, listed) ELSE {f.s : f \in ToSet(s.files)}
  <2>1. row \in {Row(<<f.s, f.e>>, f, {}) : f \in {g \in ToSet(s.files) : g.s \in seasons}}
    BY DetailFacts DEF SimpsonsContent
  <2> HIDE DEF seasons
  <2> QED BY <2>1
<1>3. row.at = <<f.s, f.e>> /\ row.says = f /\ dub = 0
  BY <1>2, RowFacts
<1>4. page # <<>> /\ Head(page) \in ToSet(s.files) /\ row.at = <<Head(page).s, Head(page).e>>
  BY <1>1, <1>3, SimpsonsPageFacts
<1> HIDE DEF page
<1>5. Head(page) # NoFile /\ Head(page).s = f.s /\ Head(page).e = f.e
  BY <1>1, <1>3, <1>4
<1>6. Meant(s, row, dub, Head(page))
  BY <1>3, <1>5 DEF Meant
<1>7. Right("simpsonsuatv", s, row, dub, SimpsonsStream(s, row.at, dub, ans))
  BY <1>6, SimpsonsMedia DEF Right, page
<1>8. Alive("simpsonsuatv", s, row, dub, SimpsonsStream(s, row.at, dub, AllUp))
  BY <1>4, <1>5, SimpsonsMedia DEF Alive, page
<1> QED BY <1>7, <1>8

\* The voice asked for is of the files, and is the one asked for if they have it.
LEMMA PickVoiceFacts ==
    ASSUME NEW files \in Seq(File), NEW dub
    PROVE  /\ PickVoice(files, dub) \in ToSet(files) \cup {NoFile}
           /\ files = <<>> => PickVoice(files, dub) = NoFile
           /\ files # <<>> /\ (dub \in {0, Uk} \/ \E f \in ToSet(files) : f.d = dub)
                 => PickVoice(files, dub) \in ToSet(files)
           /\ dub # 0 /\ (\E f \in ToSet(files) : f.d = dub) => PickVoice(files, dub).d = dub
<1> DEFINE same == IF dub = 0 THEN <<>> ELSE Folder(files, "d", dub)
           pick == PickVoice(files, dub)
<1>1. pick = IF files = <<>> \/ (dub \notin {0, Uk} /\ same = <<>>) THEN NoFile
             ELSE IF same = <<>> THEN First(files) ELSE Head(same)
  BY DEF PickVoice
<1>2. same # <<>> => Head(same) \in ToSet(files) /\ Head(same).d = dub
  BY DubbedFacts
<1>3. dub # 0 /\ (\E f \in ToSet(files) : f.d = dub) => same # <<>>
  BY DubbedFacts
<1>4. files # <<>> => First(files) = Head(files) /\ Head(files) \in ToSet(files)
  BY HeadFacts DEF First
<1>5. files = <<>> => ToSet(files) = {}
  BY DEF ToSet
<1> HIDE DEF same, pick
<1> QED BY <1>1, <1>2, <1>3, <1>4, <1>5 DEF pick

UakinoFound(s, pos) == Folder(UakinoItems(s), "e", IF pos = <<>> THEN 0 ELSE pos[2])

LEMMA UakinoFoundFacts ==
    ASSUME NEW s, s.files \in Seq(File), NEW pos
    PROVE  /\ UakinoItems(s) \in Seq(File) /\ ToSet(UakinoItems(s)) \subseteq ToSet(s.files)
           /\ UakinoFound(s, pos) \in Seq(File) /\ ToSet(UakinoFound(s, pos)) \subseteq ToSet(s.files)
           /\ \A f : f \in ToSet(UakinoFound(s, pos)) <=>
                 f \in ToSet(UakinoItems(s)) /\ f.e = IF pos = <<>> THEN 0 ELSE pos[2]
<1> DEFINE items == UakinoItems(s)
           n == IF pos = <<>> THEN 0 ELSE pos[2]
<1>1. items \in Seq(File) /\ ToSet(items) \subseteq ToSet(s.files)
  BY DEF UakinoItems, ToSet
<1> HIDE DEF items, n
<1>2. /\ Folder(items, "e", n) \in Seq(File)
      /\ \A f : f \in ToSet(Folder(items, "e", n)) <=> f \in ToSet(items) /\ f.e = n
  BY <1>1, NumberedFacts
<1>3. UakinoFound(s, pos) = Folder(items, "e", n)
  BY DEF UakinoFound, items, n
<1> QED BY <1>1, <1>2, <1>3 DEF items, n

LEMMA UakinoMedia ==
    ASSUME NEW s, s.files \in Seq(File), NEW pos, NEW dub, NEW ans
    PROVE  LET found == UakinoFound(s, pos)
               media == UakinoStream(s, pos, dub, ans)
               open    == UakinoStream(s, pos, dub, AllUp)
           IN  /\ media.code = "ok" =>
                     \/ found # <<>> /\ media.file = PickVoice(found, dub) /\ media.file # NoFile
                     \/ found = <<>> /\ pos = <<>> /\ media.file = First(s.files) /\ media.file # NoFile
               /\ Intact(s) /\ found # <<>> /\ PickVoice(found, dub) # NoFile => open.code = "ok"
               /\ Intact(s) /\ found = <<>> /\ pos = <<>> /\ s.player = "vod" /\ First(s.files) # NoFile
                     => open.code = "ok"
<1> DEFINE found == UakinoFound(s, pos)
           pick == PickVoice(found, dub)
           list(a) == Refusal(UakinoPlaylist(s, a))
           embeds(a) == <<list(a), Posted(a.page), Unless(s.player = "vod", "parse_failed"), Lenient(a.player)>>
           voices(a) == <<list(a), Unless(pick # NoFile, "translation_missing"), Lenient(a.player)>>
           media(a) == UakinoStream(s, pos, dub, a)
<1>1. \A a : media(a) = IF found # <<>> \/ list(a) # "ok" THEN Media(Refusal(voices(a)), pick)
                        ELSE IF pos = <<>> THEN Media(Refusal(embeds(a)), First(s.files))
                        ELSE Media("not_found", NoFile)
  BY Zenon DEF UakinoStream, UakinoFound
<1>2. found = <<>> => pick = NoFile
  <2>1. found \in Seq(File)
    BY UakinoFoundFacts
  <2> HIDE DEF found
  <2> QED BY <2>1, PickVoiceFacts
<1>3. Intact(s) => list(AllUp) = "ok"
  <2> SUFFICES ASSUME Intact(s) PROVE list(AllUp) = "ok"
    OBVIOUS
  <2>1. UakinoPlaylist(s, AllUp) = <<"ok", "ok">>
    BY UpFacts DEF Intact, UakinoPlaylist
  <2> QED BY <2>1, NoneRefused
<1> HIDE DEF found, pick, list
<1>4. ASSUME Intact(s), pick # NoFile PROVE Refusal(voices(AllUp)) = "ok"
  <2>1. voices(AllUp) = <<"ok", "ok", "ok">>
    BY <1>3, <1>4, UpFacts
  <2> HIDE DEF voices
  <2> QED BY <2>1, NoneRefused
<1>5. ASSUME Intact(s), s.player = "vod" PROVE Refusal(embeds(AllUp)) = "ok"
  <2>1. embeds(AllUp) = <<"ok", "ok", "ok", "ok">>
    BY <1>3, <1>5, UpFacts
  <2> HIDE DEF embeds
  <2> QED BY <2>1, NoneRefused
<1> HIDE DEF voices, embeds, media
<1>6. media(ans).code = "ok" =>
         \/ found # <<>> /\ media(ans).file = pick /\ pick # NoFile
         \/ found = <<>> /\ pos = <<>> /\ media(ans).file = First(s.files) /\ media(ans).file # NoFile
  BY <1>1, <1>2, MediaFacts
<1>7. Intact(s) /\ found # <<>> /\ pick # NoFile => media(AllUp).code = "ok"
  BY <1>1, <1>4, MediaFacts
<1>8. Intact(s) /\ found = <<>> /\ pos = <<>> /\ s.player = "vod" /\ First(s.files) # NoFile
         => media(AllUp).code = "ok"
  BY <1>1, <1>3, <1>5, MediaFacts
<1> QED BY <1>6, <1>7, <1>8 DEF found, pick, media

LEMMA UakinoReal ==
    ASSUME NEW s, Possible("uakino", s), NEW pos, NEW dub, NEW ans
    PROVE  Real("uakino", s, UakinoStream(s, pos, dub, ans))
<1> DEFINE found == UakinoFound(s, pos)
           media == UakinoStream(s, pos, dub, ans)
<1>1. s.files \in Seq(File) /\ First(s.files) \in ToSet(s.files) \cup {NoFile}
  BY SiteFacts
<1>2. found \in Seq(File) /\ ToSet(found) \subseteq ToSet(s.files)
  BY <1>1, UakinoFoundFacts
<1>3. media.code = "ok" =>
         \/ media.file = PickVoice(found, dub) /\ media.file # NoFile
         \/ media.file = First(s.files) /\ media.file # NoFile
  BY <1>1, UakinoMedia
<1> HIDE DEF found, media
<1>4. PickVoice(found, dub) \in ToSet(found) \cup {NoFile}
  BY <1>2, PickVoiceFacts
<1>5. Real("uakino", s, media)
  BY <1>1, <1>2, <1>3, <1>4 DEF Real
<1> QED BY <1>5 DEF media

LEMMA UakinoPlays ==
    ASSUME NEW s, Possible("uakino", s), NEW listed, NEW ans,
           NEW row \in UakinoContent(s, listed).rows, NEW dub \in row.dubs \cup {0}
    PROVE  /\ Right("uakino", s, row, dub, UakinoStream(s, row.at, dub, ans))
           /\ Alive("uakino", s, row, dub, UakinoStream(s, row.at, dub, AllUp))
<1> DEFINE items == UakinoItems(s)
           where == {i \in DOMAIN items : items[i].e # 0}
           episodes == Those(items, LAMBDA f : f.e # 0)
           mine(e) == Folder(episodes, "e", e)
           dubs == IF DubsOf(items) = {} THEN {Uk} ELSE DubsOf(items)
           found == UakinoFound(s, row.at)
           pick == PickVoice(found, dub)
           media(a) == UakinoStream(s, row.at, dub, a)
<1>1. s.files \in Seq(File) /\ \A f \in ToSet(s.files) : f # NoFile /\ f.d # Uk
  BY SiteFacts
<1>2. \A f, g \in ToSet(s.files) : f.s = g.s
  BY DEF Possible, Seasonless
<1>3. /\ items \in Seq(File) /\ ToSet(items) \subseteq ToSet(s.files)
      /\ items = <<>> \/ items = s.files
      /\ found \in Seq(File) /\ ToSet(found) \subseteq ToSet(s.files)
      /\ \A f : f \in ToSet(found) <=> f \in ToSet(items) /\ f.e = IF row.at = <<>> THEN 0 ELSE row.at[2]
  BY <1>1, UakinoFoundFacts DEF UakinoItems
<1>4. /\ episodes # <<>> /\ row \in {Row(<<1, e>>, Head(mine(e)), DubsOf(mine(e))) : e \in {f.e : f \in ToSet(episodes)}}
      \/ /\ episodes = <<>> /\ row \in FilmRow(s.files, dubs)
         /\ items # <<>> \/ s.player = "vod"
  <2> DEFINE p == <<Posted(listed.page), Unless(s.titled, "parse_failed")>>
             q == UakinoPlaylist(s, listed)
             r == <<Unless(items # <<>> \/ s.player = "vod", "gated")>>
             S == {p[1], p[2], q[1], q[2], r[1]}
  <2>1. Refusal((p \o q) \o r) = "ok"
    BY DetailFacts DEF UakinoContent
  <2>2. p \in Seq(S) /\ q \in Seq(S) /\ r \in Seq(S)
    BY DEF UakinoPlaylist
  <2>3. Len(r) = 1 /\ r[1] = Unless(items # <<>> \/ s.player = "vod", "gated")
    OBVIOUS
  <2>4. row \in IF episodes # <<>>
                THEN {Row(<<1, e>>, Head(mine(e)), DubsOf(mine(e))) : e \in {f.e : f \in ToSet(episodes)}}
                ELSE FilmRow(s.files, dubs)
    BY DetailFacts DEF UakinoContent
  <2> HIDE DEF p, q, r, S
  <2>5. p \o q \in Seq(S)
    BY <2>2, ConcatProperties
  <2>6. Refusal(r) = "ok"
    BY <2>1, <2>2, <2>5, OkJoin
  <2>7. r[1] = "ok"
    <3>1. 1 \in 1 .. Len(r)
      BY <2>3
    <3>2. \A i \in 1 .. Len(r) : r[i] = "ok"
      BY <2>2, <2>6, OkPasses
    <3> QED BY <3>1, <3>2
  <2>8. items # <<>> \/ s.player = "vod"
    BY <2>3, <2>7 DEF Unless
  <2> HIDE DEF items, episodes, mine, dubs
  <2> QED BY <2>4, <2>8
<1>5. /\ episodes = Picked(items, where) /\ where \in SUBSET (DOMAIN items)
      /\ \A i \in where : items[i].e # 0
      /\ \A i \in DOMAIN items : items[i].e # 0 => i \in where
  BY DEF Those
<1> HIDE DEF items, where, episodes, found
<1>6. /\ episodes \in Seq(File) /\ ToSet(episodes) \subseteq ToSet(items)
      /\ \A f \in ToSet(episodes) : f.e # 0
      /\ \A i \in where : items[i] \in ToSet(episodes)
  BY <1>3, <1>5, ThoseFacts
<1>7. ASSUME episodes # <<>>
      PROVE  /\ found # <<>> /\ pick # NoFile => Meant(s, row, dub, pick)
             /\ found # <<>> /\ pick # NoFile
  <2>1. PICK e \in {f.e : f \in ToSet(episodes)} : row = Row(<<1, e>>, Head(mine(e)), DubsOf(mine(e)))
    BY <1>4, <1>7
  <2>2. row.at = <<1, e>> /\ row.says = Head(mine(e)) /\ row.dubs = DubsOf(mine(e))
    <3> HIDE DEF mine
    <3> QED BY <2>1, RowFacts
  <2>3. /\ mine(e) \in Seq(File) /\ mine(e) # <<>>
        /\ \A f : f \in ToSet(mine(e)) <=> f \in ToSet(episodes) /\ f.e = e
    BY <1>6, <2>1, NumberedFacts
  <2> HIDE DEF mine
  <2>4. row.says \in ToSet(mine(e))
    BY <2>2, <2>3, HeadFacts
  <2>5. row.at # <<>> /\ row.at[2] = e
    BY <2>2
  <2>6. \A f : f \in ToSet(found) <=> f \in ToSet(items) /\ f.e = e
    BY <1>3, <2>5
  <2>7. row.says \in ToSet(found)
    BY <1>6, <2>3, <2>4, <2>6
  <2>8. found # <<>>
    BY <2>7 DEF ToSet
  <2>9. dub # 0 => \E f \in ToSet(found) : f.d = dub
    BY <1>6, <2>2, <2>3, <2>6 DEF DubsOf
  <2>10. pick \in ToSet(found) /\ (dub # 0 => pick.d = dub)
    BY <1>3, <2>8, <2>9, PickVoiceFacts
  <2> HIDE DEF pick
  <2> QED BY <1>1, <1>2, <1>3, <2>6, <2>7, <2>8, <2>10 DEF Meant
<1>8. ASSUME episodes = <<>>
      PROVE  /\ row.at = <<>> /\ s.files # <<>> /\ row.says = Head(s.files) /\ row.dubs = dubs
             /\ items # <<>> \/ s.player = "vod"
             /\ found = <<>> <=> items = <<>>
             /\ \A f \in ToSet(items) : f.e = 0 /\ f \in ToSet(found)
  <2>1. row.at = <<>> /\ s.files # <<>> /\ row.says = Head(s.files) /\ row.dubs = dubs
    <3> HIDE DEF dubs
    <3> QED BY <1>4, <1>8, FilmRowFacts
  <2>2. \A f \in ToSet(items) : f.e = 0
    <3> SUFFICES ASSUME NEW f \in ToSet(items), f.e # 0 PROVE FALSE
      OBVIOUS
    <3>1. PICK i \in DOMAIN items : items[i] = f
      BY DEF ToSet
    <3>2. f \in ToSet(episodes)
      BY <1>5, <1>6, <3>1
    <3> QED BY <1>8, <3>2 DEF ToSet
  <2>3. \A f \in ToSet(items) : f \in ToSet(found)
    BY <1>3, <2>1, <2>2
  <2>4. found = <<>> <=> items = <<>>
    <3>1. items # <<>> => Head(items) \in ToSet(found)
      BY <1>3, <2>3, HeadFacts
    <3>2. found # <<>> => Head(found) \in ToSet(items)
      BY <1>3, HeadFacts
    <3>3. \A f : f \notin ToSet(<<>>)
      BY DEF ToSet
    <3> QED BY <3>1, <3>2, <3>3
  <2> QED BY <1>4, <1>8, <2>1, <2>2, <2>3, <2>4
<1>9. ASSUME episodes = <<>>, found # <<>>
      PROVE  pick # NoFile /\ Meant(s, row, dub, pick)
  <2>1. items = s.files
    BY <1>3, <1>8, <1>9
  <2>2. row.says \in ToSet(found)
    BY <1>1, <1>8, <1>9, <2>1, HeadFacts
  <2>3. dub \in {0, Uk} \/ \E f \in ToSet(found) : f.d = dub
    BY <1>8, <1>9 DEF DubsOf
  <2>4. pick \in ToSet(found) /\ (dub # 0 /\ (\E f \in ToSet(found) : f.d = dub) => pick.d = dub)
    BY <1>3, <1>9, <2>3, PickVoiceFacts
  <2>5. pick.s = row.says.s /\ pick.e = row.says.e
    BY <1>2, <1>3, <1>8, <1>9, <2>2, <2>4
  <2> HIDE DEF pick
  <2> QED BY <1>1, <1>3, <2>3, <2>4, <2>5 DEF Meant
<1>10. ASSUME episodes = <<>>, found = <<>>
       PROVE  /\ First(s.files) # NoFile /\ Meant(s, row, dub, First(s.files))
              /\ s.player = "vod" /\ row.at = <<>>
  <2>1. items = <<>> /\ s.player = "vod"
    BY <1>8, <1>10
  <2>2. dub \in {0, Uk}
    <3>1. DubsOf(items) = {}
      BY <2>1 DEF DubsOf, ToSet
    <3> QED BY <1>8, <1>10, <3>1
  <2>3. First(s.files) = Head(s.files) /\ Head(s.files) # NoFile
    BY <1>8, <1>10, SiteFacts
  <2> QED BY <1>1, <1>8, <1>10, <2>1, <2>2, <2>3 DEF Meant
<1>11. Right("uakino", s, row, dub, media(ans))
  <2> SUFFICES ASSUME media(ans).code = "ok" PROVE Meant(s, row, dub, media(ans).file)
    BY DEF Right
  <2>1. \/ found # <<>> /\ media(ans).file = pick
        \/ found = <<>> /\ row.at = <<>> /\ media(ans).file = First(s.files)
    BY <1>1, UakinoMedia DEF found
  <2> HIDE DEF media, pick
  <2> QED BY <1>7, <1>9, <1>10, <2>1
<1>12. Alive("uakino", s, row, dub, media(AllUp))
  <2> SUFFICES ASSUME Intact(s) PROVE media(AllUp).code = "ok"
    BY DEF Alive
  <2>1. /\ found # <<>> /\ pick # NoFile => media(AllUp).code = "ok"
        /\ found = <<>> /\ row.at = <<>> /\ s.player = "vod" /\ First(s.files) # NoFile
              => media(AllUp).code = "ok"
    BY <1>1, UakinoMedia DEF found
  <2> HIDE DEF media, pick
  <2> QED BY <1>7, <1>9, <1>10, <2>1
<1> QED BY <1>11, <1>12

-----------------------------------------------------------------------------
(* Episodes by position: hentaiukr, ufdub, bambooua and cikavaideya.           *)

\* A row of a tree, offering no dubs.
Plain(row, tree) ==
    \E i \in DOMAIN tree : \E j \in DOMAIN tree[i] :
        row.at = <<i, j>> /\ row.says = tree[i][j] /\ row.dubs = {}

LEMMA SingleRows ==
    ASSUME NEW q \in Seq(File), NEW row, Plain(row, <<q>>)
    PROVE  \E j \in DOMAIN q : /\ row.at = <<1, j>> /\ row.at # <<>> /\ row.at[2] = j
                               /\ row.says = q[j] /\ row.dubs = {} /\ q[j] \in ToSet(q)
<1> DEFINE tree == <<q>>
<1>1. PICK i \in DOMAIN tree : \E j \in DOMAIN tree[i] : row.at = <<i, j>> /\ row.says = tree[i][j] /\ row.dubs = {}
  BY DEF Plain
<1>2. DOMAIN tree = {1} /\ tree[1] = q
  OBVIOUS
<1> HIDE DEF tree
<1>3. PICK j \in DOMAIN q : row.at = <<1, j>> /\ row.says = q[j] /\ row.dubs = {}
  BY <1>1, <1>2
<1>4. row.at # <<>> /\ row.at[2] = j
  BY <1>3
<1>5. q[j] \in ToSet(q)
  BY DEF ToSet
<1> QED BY <1>3, <1>4, <1>5

LEMMA TreeRows ==
    ASSUME NEW files \in Seq(File), NEW row, Plain(row, Folders(files, "s"))
    PROVE  /\ At(Folders(files, "s"), row.at) = row.says /\ row.at # <<>>
           /\ row.says \in ToSet(files) /\ row.dubs = {}
<1> DEFINE tree == Folders(files, "s")
<1>1. PICK i \in DOMAIN tree : \E j \in DOMAIN tree[i] : row.at = <<i, j>> /\ row.says = tree[i][j] /\ row.dubs = {}
  BY DEF Plain
<1>2. PICK j \in DOMAIN tree[i] : row.at = <<i, j>> /\ row.says = tree[i][j] /\ row.dubs = {}
  BY <1>1
<1>3. row.at # <<>>
  BY <1>2
<1>4. At(tree, <<i, j>>) = tree[i][j] /\ tree[i][j] \in ToSet(files)
  BY TreeFacts
<1> QED BY <1>2, <1>3, <1>4

LEMMA HentaiukrMedia ==
    ASSUME NEW s, NEW pos, NEW dub, NEW ans
    PROVE  LET n    == IF pos = <<>> THEN 1 ELSE pos[2]
               file == IF n \in DOMAIN s.files THEN s.files[n] ELSE NoFile
           IN  /\ HentaiukrStream(s, pos, dub, ans).code = "ok" =>
                     file # NoFile /\ HentaiukrStream(s, pos, dub, ans).file = file
               /\ Intact(s) /\ file # NoFile => HentaiukrStream(s, pos, dub, AllUp).code = "ok"
<1> DEFINE n == IF pos = <<>> THEN 1 ELSE pos[2]
           file == IF n \in DOMAIN s.files THEN s.files[n] ELSE NoFile
           codes(a) == <<Posted(a.player), Unless(s.payload # "garbled", "parse_failed"),
                         Unless(n \in DOMAIN s.files, "not_found"),
                         Unless(s.payload # "none", "parse_failed"),
                         Unless(s.payload # "hollow", "ValueError")>>
           media(a) == HentaiukrStream(s, pos, dub, a)
<1>1. \A a : media(a) = Media(Refusal(HentaiukrTitle(s, a) \o codes(a)), file)
  BY Zenon DEF HentaiukrStream
<1>2. media(ans).code = "ok" => file # NoFile /\ media(ans).file = file
  <2> HIDE DEF media, file, codes
  <2> QED BY <1>1, MediaFacts
<1>3. ASSUME Intact(s), file # NoFile PROVE media(AllUp).code = "ok"
  <2>1. n \in DOMAIN s.files
    BY <1>3
  <2>2. HentaiukrTitle(s, AllUp) = <<"ok", "ok">>
    BY <1>3, UpFacts DEF Intact, HentaiukrTitle
  <2>3. codes(AllUp) = <<"ok", "ok", "ok", "ok", "ok">>
    <3>1. s.payload # "garbled" /\ s.payload # "none" /\ s.payload # "hollow"
      BY <1>3 DEF Intact
    <3> HIDE DEF n
    <3> QED BY <2>1, <3>1, UpFacts
  <2> HIDE DEF codes, media, file
  <2>4. Refusal(HentaiukrTitle(s, AllUp) \o codes(AllUp)) = "ok"
    BY <2>2, <2>3, NoneRefused
  <2> QED BY <1>1, <1>3, <2>4, MediaFacts
<1> QED BY <1>2, <1>3

LEMMA HentaiukrReal ==
    ASSUME NEW s, Possible("hentaiukr", s), NEW pos, NEW dub, NEW ans
    PROVE  Real("hentaiukr", s, HentaiukrStream(s, pos, dub, ans))
<1> DEFINE n == IF pos = <<>> THEN 1 ELSE pos[2]
           file == IF n \in DOMAIN s.files THEN s.files[n] ELSE NoFile
<1>1. file \in ToSet(s.files) \cup {NoFile}
  BY DEF ToSet
<1>2. HentaiukrStream(s, pos, dub, ans).code = "ok" =>
         file # NoFile /\ HentaiukrStream(s, pos, dub, ans).file = file
  BY HentaiukrMedia
<1> HIDE DEF file
<1> QED BY <1>1, <1>2 DEF Real

LEMMA HentaiukrPlays ==
    ASSUME NEW s, Possible("hentaiukr", s), NEW listed, NEW ans,
           NEW row \in HentaiukrContent(s, listed).rows, NEW dub \in row.dubs \cup {0}
    PROVE  /\ Right("hentaiukr", s, row, dub, HentaiukrStream(s, row.at, dub, ans))
           /\ Alive("hentaiukr", s, row, dub, HentaiukrStream(s, row.at, dub, AllUp))
<1> DEFINE n == IF row.at = <<>> THEN 1 ELSE row.at[2]
           file == IF n \in DOMAIN s.files THEN s.files[n] ELSE NoFile
<1>1. s.files \in Seq(File) /\ \A f \in ToSet(s.files) : f # NoFile
  BY SiteFacts
<1>2. Plain(row, <<s.files>>)
  <2>1. row \in IF s.payload = "garbled" THEN {} ELSE RowsOf(<<s.files>>, LAMBDA f : {})
    BY DetailFacts DEF HentaiukrContent
  <2> QED BY <2>1 DEF RowsOf, Row, Plain
<1>3. PICK j \in DOMAIN s.files :
         /\ row.at = <<1, j>> /\ row.at # <<>> /\ row.at[2] = j
         /\ row.says = s.files[j] /\ row.dubs = {} /\ s.files[j] \in ToSet(s.files)
  BY <1>1, <1>2, SingleRows
<1>4. file = row.says /\ file # NoFile /\ dub = 0
  BY <1>1, <1>3
<1>5. /\ HentaiukrStream(s, row.at, dub, ans).code = "ok" =>
            HentaiukrStream(s, row.at, dub, ans).file = file
      /\ Intact(s) /\ file # NoFile => HentaiukrStream(s, row.at, dub, AllUp).code = "ok"
  BY HentaiukrMedia
<1> HIDE DEF file
<1> QED BY <1>4, <1>5 DEF Right, Alive, Meant

LEMMA UfdubReal ==
    ASSUME NEW s, Possible("ufdub", s), NEW pos, NEW dub, NEW ans
    PROVE  Real("ufdub", s, UfdubStream(s, pos, dub, ans))
<1> DEFINE file == IF pos # <<>> THEN At(<<s.files>>, pos) ELSE First(s.files)
           media == UfdubStream(s, pos, dub, ans)
<1>1. media.code = "ok" => file # NoFile /\ media.file = file
  BY MediaFacts DEF UfdubStream
<1>2. s.files \in Seq(File) /\ First(s.files) \in ToSet(s.files) \cup {NoFile}
  BY SiteFacts
<1>3. At(<<s.files>>, pos) \in ToSet(s.files) \cup {NoFile}
  BY <1>2, SingleFacts
<1>4. file \in ToSet(s.files) \cup {NoFile}
  BY <1>2, <1>3
<1> HIDE DEF file, media
<1>5. Real("ufdub", s, media)
  BY <1>1, <1>4 DEF Real
<1> QED BY <1>5 DEF media

LEMMA UfdubPlays ==
    ASSUME NEW s, Possible("ufdub", s), NEW listed, NEW ans,
           NEW row \in UfdubContent(s, listed).rows, NEW dub \in row.dubs \cup {0}
    PROVE  /\ Right("ufdub", s, row, dub, UfdubStream(s, row.at, dub, ans))
           /\ Alive("ufdub", s, row, dub, UfdubStream(s, row.at, dub, AllUp))
<1> DEFINE file == IF row.at # <<>> THEN At(<<s.files>>, row.at) ELSE First(s.files)
           codes(a) == <<Lenient(a.page), Unless(s.player # "none", "parse_failed"),
                         Lenient(a.player), Unless(s.files # <<>>, "parse_failed"),
                         Unless(file # NoFile, "not_found")>>
           media(a) == UfdubStream(s, row.at, dub, a)
<1>1. s.files \in Seq(File) /\ \A f \in ToSet(s.files) : f # NoFile
  BY SiteFacts
<1>2. Plain(row, <<s.files>>) \/ row \in FilmRow(s.files, {})
  <2>1. row \in RowsOf(<<s.files>>, LAMBDA f : {}) \/ row \in FilmRow(s.files, {})
    BY DetailFacts DEF UfdubContent
  <2> QED BY <2>1 DEF RowsOf, Row, Plain
<1>3. file = row.says /\ file # NoFile /\ dub = 0 /\ s.files # <<>>
  <2>1. CASE Plain(row, <<s.files>>)
    <3>1. PICK j \in DOMAIN s.files :
             /\ row.at = <<1, j>> /\ row.at # <<>>
             /\ row.says = s.files[j] /\ row.dubs = {} /\ s.files[j] \in ToSet(s.files)
      BY <1>1, <2>1, SingleRows
    <3>2. At(<<s.files>>, <<1, j>>) = s.files[j]
      BY <1>1, SingleFacts
    <3>3. s.files # <<>>
      BY <1>1
    <3> QED BY <1>1, <3>1, <3>2, <3>3
  <2>2. CASE row \in FilmRow(s.files, {})
    <3>1. s.files # <<>> /\ row.at = <<>> /\ row.says = Head(s.files) /\ dub = 0
      BY <2>2, FilmRowFacts
    <3> QED BY <3>1, SiteFacts
  <2> QED BY <1>2, <2>1, <2>2
<1>4. \A a : media(a) = Media(Refusal(codes(a)), file)
  BY DEF UfdubStream
<1>5. Intact(s) => codes(AllUp) = <<"ok", "ok", "ok", "ok", "ok">>
  <2> HIDE DEF file
  <2> QED BY <1>3, UpFacts DEF Intact
<1> HIDE DEF codes, media, file
<1>6. Intact(s) => Refusal(codes(AllUp)) = "ok"
  BY <1>5, NoneRefused
<1>7. Right("ufdub", s, row, dub, media(ans))
  BY <1>3, <1>4, MediaFacts DEF Right, Meant
<1>8. Alive("ufdub", s, row, dub, media(AllUp))
  BY <1>3, <1>4, <1>6, MediaFacts DEF Alive
<1> QED BY <1>7, <1>8 DEF media

BambooNumbered(s) == Those(s.files, LAMBDA f : f.e # 0)

LEMMA BambooNumberedFacts ==
    ASSUME NEW s, s.files \in Seq(File)
    PROVE  BambooNumbered(s) \in Seq(File) /\ ToSet(BambooNumbered(s)) \subseteq ToSet(s.files)
<1> DEFINE where == {i \in DOMAIN s.files : s.files[i].e # 0}
<1>1. BambooNumbered(s) = Picked(s.files, where) /\ where \in SUBSET (DOMAIN s.files)
  BY DEF BambooNumbered, Those
<1> HIDE DEF where
<1> QED BY <1>1, ThoseFacts

LEMMA BambooReal ==
    ASSUME NEW s, Possible("bambooua", s), NEW pos, NEW dub, NEW ans
    PROVE  Real("bambooua", s, BambooStream(s, pos, dub, ans))
<1> DEFINE file == BambooSelect(s, pos)
           media == BambooStream(s, pos, dub, ans)
           files == BambooNumbered(s)
<1>1. media.code = "ok" => file # NoFile /\ media.file = file
  BY MediaFacts DEF BambooStream
<1>2. s.files \in Seq(File) /\ First(s.files) \in ToSet(s.files) \cup {NoFile}
  BY SiteFacts
<1>3. files \in Seq(File) /\ ToSet(files) \subseteq ToSet(s.files)
  BY <1>2, BambooNumberedFacts
<1>4. file = IF pos # <<>> THEN At(Folders(files, "s"), pos) ELSE First(s.files)
  BY DEF BambooSelect, BambooNumbered
<1> HIDE DEF files, file, media
<1>5. At(Folders(files, "s"), pos) \in ToSet(files) \cup {NoFile}
  BY <1>3, TreeFacts
<1>6. Real("bambooua", s, media)
  BY <1>1, <1>2, <1>3, <1>4, <1>5 DEF Real
<1> QED BY <1>6 DEF media

LEMMA BambooPlays ==
    ASSUME NEW s, Possible("bambooua", s), NEW listed, NEW ans,
           NEW row \in BambooContent(s, listed).rows, NEW dub \in row.dubs \cup {0}
    PROVE  /\ Right("bambooua", s, row, dub, BambooStream(s, row.at, dub, ans))
           /\ Alive("bambooua", s, row, dub, BambooStream(s, row.at, dub, AllUp))
<1> DEFINE file == BambooSelect(s, row.at)
           files == BambooNumbered(s)
           codes == <<Unless(file # NoFile, "not_found"), Unless(file.d # Sponsor, "gated")>>
           media(a) == BambooStream(s, row.at, dub, a)
<1>1. s.files \in Seq(File) /\ \A f \in ToSet(s.files) : f # NoFile
  BY SiteFacts
<1>2. files \in Seq(File) /\ ToSet(files) \subseteq ToSet(s.files)
  BY <1>1, BambooNumberedFacts
<1>3. Plain(row, Folders(files, "s")) \/ row \in FilmRow(s.files, {})
  <2>1. row \in RowsOf(Folders(files, "s"), LAMBDA f : {}) \/ row \in FilmRow(s.files, {})
    BY DetailFacts DEF BambooContent, BambooSeasons, BambooNumbered
  <2> QED BY <2>1 DEF RowsOf, Row, Plain
<1>4. file = IF row.at # <<>> THEN At(Folders(files, "s"), row.at) ELSE First(s.files)
  BY DEF BambooSelect, BambooNumbered
<1> HIDE DEF files, file
<1>5. file = row.says /\ file # NoFile /\ dub = 0 /\ s.files # <<>>
  <2>1. CASE Plain(row, Folders(files, "s"))
    <3>1. /\ At(Folders(files, "s"), row.at) = row.says /\ row.at # <<>>
          /\ row.says \in ToSet(files) /\ row.dubs = {}
      BY <1>2, <2>1, TreeRows
    <3>2. s.files # <<>>
      BY <1>2, <3>1 DEF ToSet
    <3> QED BY <1>1, <1>2, <1>4, <3>1, <3>2
  <2>2. CASE row \in FilmRow(s.files, {})
    <3>1. s.files # <<>> /\ row.at = <<>> /\ row.says = Head(s.files) /\ dub = 0
      BY <2>2, FilmRowFacts
    <3> QED BY <1>4, <3>1, SiteFacts
  <2> QED BY <1>3, <2>1, <2>2
<1>6. \A a : media(a) = Media(Refusal(BambooGate(s, a) \o codes), file)
  BY DEF BambooStream, file
<1>7. ASSUME Intact(s), row.says.d # Sponsor PROVE Refusal(BambooGate(s, AllUp) \o codes) = "ok"
  <2>1. BambooGate(s, AllUp) = <<"ok", "ok", "ok">>
    BY <1>5, <1>7, UpFacts DEF Intact, BambooGate
  <2>2. codes = <<"ok", "ok">>
    BY <1>5, <1>7, UpFacts
  <2> HIDE DEF codes
  <2> QED BY <2>1, <2>2, NoneRefused
<1> HIDE DEF codes, media
<1>8. Right("bambooua", s, row, dub, media(ans))
  BY <1>5, <1>6, MediaFacts DEF Right, Meant
<1>9. Alive("bambooua", s, row, dub, media(AllUp))
  BY <1>5, <1>6, <1>7, MediaFacts DEF Alive, DeadRows
<1> QED BY <1>8, <1>9 DEF media

-----------------------------------------------------------------------------
(* Episodes by position in a playlist that was arranged: cikavaideya and        *)
(* animeua.                                                                    *)

\* The seasons of cikavaideya by number, and its episodes by theirs.
CikavaAhead(files) ==
    LET Ahead(f, g) == f.s < g.s \/ (f.s = g.s /\ f.e < g.e)
        all == DOMAIN files
    IN  {p \in all \X all : \/ Ahead(files[p[1]], files[p[2]])
                            \/ ~Ahead(files[p[2]], files[p[1]]) /\ p[1] < p[2]}

LEMMA CikavaOrders ==
    ASSUME NEW files \in Seq(File)
    PROVE  Orders(CikavaAhead(files), DOMAIN files)
<1> DEFINE R == CikavaAhead(files)
           I == DOMAIN files
           Ahead(f, g) == f.s < g.s \/ (f.s = g.s /\ f.e < g.e)
           Earlier(i, j) == \/ Ahead(files[i], files[j])
                            \/ ~Ahead(files[j], files[i]) /\ i < j
<1>1. I \subseteq Nat /\ \A i \in I : files[i].s \in Nat /\ files[i].e \in Nat
  <2>1. \A i \in I : files[i] \in File
    OBVIOUS
  <2> QED BY <2>1 DEF File
<1>2. \A i, j \in I : <<i, j>> \in R <=> Earlier(i, j)
  BY DEF CikavaAhead
<1> HIDE DEF R
<1>3. \A i, j \in I : i = j \/ Earlier(i, j) \/ Earlier(j, i)
  BY <1>1
<1>4. \A i \in I : ~Earlier(i, i)
  BY <1>1
<1>5. ASSUME NEW i \in I, NEW j \in I, NEW k \in I, Earlier(i, j), Earlier(j, k)
      PROVE  Earlier(i, k)
  <2>1. /\ i \in Nat /\ j \in Nat /\ k \in Nat
        /\ files[i].s \in Nat /\ files[j].s \in Nat /\ files[k].s \in Nat
        /\ files[i].e \in Nat /\ files[j].e \in Nat /\ files[k].e \in Nat
    BY <1>1
  <2> HIDE DEF I
  <2>2. CASE Ahead(files[i], files[j])
    <3>1. files[i].s <= files[j].s /\ files[j].s <= files[k].s
      BY <1>5, <2>1, <2>2
    <3>2. files[i].s = files[j].s => files[i].e < files[j].e
      BY <2>1, <2>2
    <3>3. files[j].s = files[k].s => files[j].e <= files[k].e
      BY <1>5, <2>1
    <3>4. CASE files[i].s < files[k].s
      BY <3>4
    <3>5. CASE ~(files[i].s < files[k].s)
      <4>1. files[i].s = files[j].s /\ files[j].s = files[k].s
        BY <2>1, <3>1, <3>5
      <4>2. files[i].e < files[j].e /\ files[j].e <= files[k].e
        BY <3>2, <3>3, <4>1
      <4>3. files[i].e < files[k].e
        BY <2>1, <4>2
      <4> QED BY <4>1, <4>3
    <3> QED BY <3>4, <3>5
  <2>3. CASE ~Ahead(files[i], files[j])
    BY <1>5, <2>1, <2>3
  <2> QED BY <2>2, <2>3
<1> HIDE DEF Earlier, I
<1>6. Orders(R, I)
  BY <1>2, <1>3, <1>4, <1>5 DEF Orders
<1> QED BY <1>6 DEF R, I

LEMMA CikavaArranged ==
    ASSUME NEW s, s.files \in Seq(File)
    PROVE  LET files == Arranged(s.files, CikavaAhead(s.files))
           IN  /\ files \in Seq(File) /\ ToSet(files) = ToSet(s.files)
               /\ CikavaTree(s) = Folders(files, "s")
<1>1. Orders(CikavaAhead(s.files), DOMAIN s.files)
  BY CikavaOrders
<1>2. CikavaTree(s) = Folders(Arranged(s.files, CikavaAhead(s.files)), "s")
  BY Zenon DEF CikavaTree, CikavaAhead
<1> QED BY <1>1, <1>2, ArrangedFacts

LEMMA CikavaReal ==
    ASSUME NEW s, Possible("cikavaideya", s), NEW pos, NEW dub, NEW ans
    PROVE  Real("cikavaideya", s, CikavaStream(s, pos, dub, ans))
<1> DEFINE page == Refusal(<<Lenient(ans.page), CikavaPlayer(s)>>)
           file == IF page = "ok" THEN CikavaSelect(s, pos) ELSE NoFile
           media == CikavaStream(s, pos, dub, ans)
           files == Arranged(s.files, CikavaAhead(s.files))
<1>1. media.code = "ok" => file # NoFile /\ media.file = file
  BY MediaFacts DEF CikavaStream
<1>2. s.files \in Seq(File) /\ First(s.files) \in ToSet(s.files) \cup {NoFile}
  BY SiteFacts
<1>3. files \in Seq(File) /\ ToSet(files) = ToSet(s.files) /\ CikavaTree(s) = Folders(files, "s")
  BY <1>2, CikavaArranged
<1>4. file = NoFile \/ file = First(s.files) \/ file = At(Folders(files, "s"), pos)
  BY <1>3 DEF CikavaSelect
<1> HIDE DEF files, file, media
<1>5. At(Folders(files, "s"), pos) \in ToSet(files) \cup {NoFile}
  BY <1>3, TreeFacts
<1>6. Real("cikavaideya", s, media)
  BY <1>1, <1>2, <1>3, <1>4, <1>5 DEF Real
<1> QED BY <1>6 DEF media

LEMMA CikavaPlays ==
    ASSUME NEW s, Possible("cikavaideya", s), NEW listed, NEW ans,
           NEW row \in CikavaContent(s, listed).rows, NEW dub \in row.dubs \cup {0}
    PROVE  /\ Right("cikavaideya", s, row, dub, CikavaStream(s, row.at, dub, ans))
           /\ Alive("cikavaideya", s, row, dub, CikavaStream(s, row.at, dub, AllUp))
<1> DEFINE page(a) == Refusal(<<Lenient(a.page), CikavaPlayer(s)>>)
           pick == CikavaSelect(s, row.at)
           file(a) == IF page(a) = "ok" THEN pick ELSE NoFile
           codes(a) == <<page(a), Unless(file(a) # NoFile, "parse_failed"), Lenient(a.player),
                         CikavaProbe(s, a)>>
           media(a) == CikavaStream(s, row.at, dub, a)
           files == Arranged(s.files, CikavaAhead(s.files))
<1>1. s.files \in Seq(File) /\ \A f \in ToSet(s.files) : f # NoFile
  BY SiteFacts
<1>2. files \in Seq(File) /\ ToSet(files) = ToSet(s.files) /\ CikavaTree(s) = Folders(files, "s")
  BY <1>1, CikavaArranged
<1>3. IF s.payload = "url" THEN row \in FilmRow(s.files, {}) ELSE Plain(row, Folders(files, "s"))
  <2>1. row \in IF s.payload = "url" THEN FilmRow(s.files, {}) ELSE RowsOf(Folders(files, "s"), LAMBDA f : {})
    BY <1>2, DetailFacts DEF CikavaContent
  <2> QED BY <2>1 DEF RowsOf, Row, Plain
<1>4. pick = IF s.payload = "url" THEN IF row.at = <<>> THEN First(s.files) ELSE NoFile
             ELSE At(Folders(files, "s"), row.at)
  BY <1>2 DEF CikavaSelect
<1> HIDE DEF files, pick
<1>5. pick = row.says /\ pick # NoFile /\ dub = 0
  <2>1. CASE s.payload # "url"
    <3>1. /\ At(Folders(files, "s"), row.at) = row.says
          /\ row.says \in ToSet(files) /\ row.dubs = {}
      BY <1>2, <1>3, <2>1, TreeRows
    <3> QED BY <1>1, <1>2, <1>4, <2>1, <3>1
  <2>2. CASE s.payload = "url"
    <3>1. s.files # <<>> /\ row.at = <<>> /\ row.says = Head(s.files) /\ dub = 0
      BY <1>3, <2>2, FilmRowFacts
    <3> QED BY <1>4, <2>2, <3>1, SiteFacts
  <2> QED BY <2>1, <2>2
<1>6. \A a : media(a) = Media(Refusal(codes(a)), file(a))
  BY Zenon DEF CikavaStream, pick
<1>7. ASSUME Intact(s) PROVE Refusal(codes(AllUp)) = "ok" /\ file(AllUp) = pick
  <2>1. <<Lenient(AllUp.page), CikavaPlayer(s)>> = <<"ok", "ok">>
    BY <1>7, UpFacts DEF Intact, CikavaPlayer
  <2>2. page(AllUp) = "ok"
    BY <2>1, NoneRefused
  <2> HIDE DEF page
  <2>3. codes(AllUp) = <<"ok", "ok", "ok", "ok">>
    BY <1>5, <1>7, <2>2, UpFacts DEF Intact, CikavaProbe
  <2> HIDE DEF codes
  <2> QED BY <2>2, <2>3, NoneRefused
<1>8. \A a : file(a) = NoFile \/ file(a) = pick
  OBVIOUS
<1> HIDE DEF codes, media, file
<1>9. Right("cikavaideya", s, row, dub, media(ans))
  BY <1>5, <1>6, <1>8, MediaFacts DEF Right, Meant
<1>10. Alive("cikavaideya", s, row, dub, media(AllUp))
  BY <1>5, <1>6, <1>7, MediaFacts DEF Alive
<1> QED BY <1>9, <1>10 DEF media

\* The order of a walk dub by dub, season by season.
DubThenSeason(files) ==
    LET Dub(i)    == Min({j \in DOMAIN files : files[j].d = files[i].d})
        Season(i) == Min({j \in DOMAIN files : files[j].d = files[i].d /\ files[j].s = files[i].s})
    IN  {p \in (DOMAIN files) \X (DOMAIN files) :
            LET i == p[1]
                j == p[2]
            IN  \/ Dub(i) < Dub(j)
                \/ Dub(i) = Dub(j) /\ Season(i) < Season(j)
                \/ Season(i) = Season(j) /\ i < j}

LEMMA DubOrders ==
    ASSUME NEW files \in Seq(File)
    PROVE  Orders(DubThenSeason(files), DOMAIN files)
<1> DEFINE R == DubThenSeason(files)
           I == DOMAIN files
           D(i) == {j \in I : files[j].d = files[i].d}
           S(i) == {j \in I : files[j].d = files[i].d /\ files[j].s = files[i].s}
           Dub(i) == Min(D(i))
           Season(i) == Min(S(i))
           Earlier(i, j) == \/ Dub(i) < Dub(j)
                            \/ Dub(i) = Dub(j) /\ Season(i) < Season(j)
                            \/ Season(i) = Season(j) /\ i < j
<1>1. I \subseteq Nat
  OBVIOUS
<1>2. \A i, j \in I : <<i, j>> \in R <=> Earlier(i, j)
  BY DEF DubThenSeason
<1>3. ASSUME NEW i \in I PROVE Dub(i) \in D(i) /\ Season(i) \in S(i)
  <2>1. D(i) \in SUBSET Nat /\ D(i) # {} /\ S(i) \in SUBSET Nat /\ S(i) # {}
    BY <1>1
  <2> HIDE DEF D, S
  <2> QED BY <2>1, LeastIsOne
<1>4. ASSUME NEW i \in I, NEW j \in I, Season(i) = Season(j) PROVE Dub(i) = Dub(j)
  <2>1. Season(i) \in S(i) /\ Season(i) \in S(j)
    BY <1>3, <1>4
  <2>2. files[i].d = files[j].d
    BY <2>1
  <2>3. D(i) = D(j)
    BY <2>2
  <2> QED BY <2>3
<1>5. \A i \in I : Dub(i) \in Nat /\ Season(i) \in Nat
  BY <1>1, <1>3
<1> HIDE DEF R, Dub, Season
<1>6. \A i, j \in I : i = j \/ Earlier(i, j) \/ Earlier(j, i)
  BY <1>1, <1>5
<1>7. \A i \in I : ~Earlier(i, i)
  BY <1>1, <1>5
<1>8. ASSUME NEW i \in I, NEW j \in I, NEW k \in I, Earlier(i, j), Earlier(j, k)
      PROVE  Earlier(i, k)
  <2>1. /\ i \in Nat /\ j \in Nat /\ k \in Nat
        /\ Dub(i) \in Nat /\ Dub(j) \in Nat /\ Dub(k) \in Nat
        /\ Season(i) \in Nat /\ Season(j) \in Nat /\ Season(k) \in Nat
    BY <1>1, <1>5
  <2>2. Dub(i) <= Dub(j) /\ Dub(j) <= Dub(k)
    BY <1>4, <1>8, <2>1
  <2>3. CASE Dub(i) < Dub(k)
    BY <2>3
  <2>4. CASE ~(Dub(i) < Dub(k))
    <3>1. Dub(i) = Dub(j) /\ Dub(j) = Dub(k)
      BY <2>1, <2>2, <2>4
    <3>2. /\ Season(i) < Season(j) \/ (Season(i) = Season(j) /\ i < j)
          /\ Season(j) < Season(k) \/ (Season(j) = Season(k) /\ j < k)
      BY <1>8, <2>1, <3>1
    <3>3. Season(i) < Season(k) \/ (Season(i) = Season(k) /\ i < k)
      BY <2>1, <3>2
    <3> QED BY <3>1, <3>3
  <2> QED BY <2>3, <2>4
<1> HIDE DEF Earlier, I
<1>9. Orders(R, I)
  BY <1>2, <1>6, <1>7, <1>8 DEF Orders
<1> QED BY <1>9 DEF R, I

LEMMA DubMajorFacts ==
    ASSUME NEW files \in Seq(File)
    PROVE  /\ DubMajor(files) \in Seq(File) /\ ToSet(DubMajor(files)) = ToSet(files)
           /\ DubMajor(files) = Arranged(files, DubThenSeason(files))
<1>1. DubMajor(files) = Arranged(files, DubThenSeason(files))
  BY Zenon DEF DubMajor, DubThenSeason
<1> QED BY <1>1, DubOrders, ArrangedFacts

\* Seasons of groups: each holds the files of one episode.
LEMMA GroupFacts ==
    ASSUME NEW files \in Seq(File)
    PROVE  LET seasons == Folders(files, "s")
               groups  == [i \in DOMAIN seasons |-> Folders(seasons[i], "e")]
           IN  /\ DOMAIN groups = DOMAIN seasons
               /\ \A i \in DOMAIN groups : \A j \in DOMAIN groups[i] :
                     /\ groups[i][j] \in Seq(File) /\ groups[i][j] # <<>>
                     /\ ToSet(groups[i][j]) \subseteq ToSet(files)
                     /\ \A f, g \in ToSet(groups[i][j]) : f.s = g.s /\ f.e = g.e
               /\ \A i, j : \/ Item(Item(groups, i), j) = <<>>
                            \/ /\ i \in DOMAIN groups /\ j \in DOMAIN groups[i]
                               /\ Item(Item(groups, i), j) = groups[i][j]
<1> DEFINE seasons == Folders(files, "s")
           groups  == [i \in DOMAIN seasons |-> Folders(seasons[i], "e")]
<1>1. /\ \A i \in DOMAIN seasons : seasons[i] \in Seq(File) /\ ToSet(seasons[i]) \subseteq ToSet(files)
      /\ \A i \in DOMAIN seasons : \A f, g \in ToSet(seasons[i]) : f["s"] = g["s"]
  <2>1. LET tree == Folders(files, "s")
        IN  /\ \A i \in DOMAIN tree : tree[i] # <<>> /\ tree[i] \in Seq(File)
            /\ \A i \in DOMAIN tree : ToSet(tree[i]) \subseteq ToSet(files)
            /\ \A i, k \in DOMAIN tree : \A f \in ToSet(tree[i]), g \in ToSet(tree[k]) :
                  f["s"] = g["s"] <=> i = k
    BY FoldersFacts
  <2> HIDE DEF seasons
  <2> QED BY <2>1 DEF seasons
<1>2. DOMAIN groups = DOMAIN seasons /\ \A i \in DOMAIN groups : groups[i] = Folders(seasons[i], "e")
  OBVIOUS
<1> HIDE DEF seasons, groups
<1>3. ASSUME NEW i \in DOMAIN groups, NEW j \in DOMAIN groups[i]
      PROVE  /\ groups[i][j] \in Seq(File) /\ groups[i][j] # <<>>
             /\ ToSet(groups[i][j]) \subseteq ToSet(files)
             /\ \A f, g \in ToSet(groups[i][j]) : f.s = g.s /\ f.e = g.e
  <2> DEFINE season == seasons[i]
             tree == Folders(season, "e")
  <2>1. season \in Seq(File) /\ ToSet(season) \subseteq ToSet(files) /\ \A f, g \in ToSet(season) : f.s = g.s
    BY <1>1, <1>2
  <2>2. groups[i] = tree
    BY <1>2
  <2> HIDE DEF season
  <2>3. /\ \A n \in DOMAIN tree : tree[n] # <<>> /\ tree[n] \in Seq(File)
        /\ \A n \in DOMAIN tree : ToSet(tree[n]) \subseteq ToSet(season)
        /\ \A n, k \in DOMAIN tree : \A f \in ToSet(tree[n]), g \in ToSet(tree[k]) :
              f["e"] = g["e"] <=> n = k
    BY <2>1, FoldersFacts
  <2> HIDE DEF tree
  <2>4. \A f, g \in ToSet(tree[j]) : f.e = g.e
    BY <2>2, <2>3
  <2> QED BY <2>1, <2>2, <2>3, <2>4
<1>4. ASSUME NEW i, NEW j
      PROVE  \/ Item(Item(groups, i), j) = <<>>
             \/ /\ i \in DOMAIN groups /\ j \in DOMAIN groups[i]
                /\ Item(Item(groups, i), j) = groups[i][j]
  BY DEF Item
<1> QED BY <1>2, <1>3, <1>4 DEF groups, seasons

\* A group of animeua holds the labelled files of one episode.
AnimeuaTitled(s) == Those(DubMajor(s.files), LAMBDA f : f.d # 0)

LEMMA AnimeuaGroupFacts ==
    ASSUME NEW s, s.files \in Seq(File)
    PROVE  /\ \A i \in DOMAIN AnimeuaGroups(s) : \A j \in DOMAIN AnimeuaGroups(s)[i] :
                 LET group == AnimeuaGroups(s)[i][j]
                 IN  /\ group \in Seq(File) /\ group # <<>> /\ ToSet(group) \subseteq ToSet(s.files)
                     /\ \A f, g \in ToSet(group) : f.s = g.s /\ f.e = g.e
           /\ \A i, j : \/ Item(Item(AnimeuaGroups(s), i), j) = <<>>
                        \/ /\ i \in DOMAIN AnimeuaGroups(s) /\ j \in DOMAIN AnimeuaGroups(s)[i]
                           /\ Item(Item(AnimeuaGroups(s), i), j) = AnimeuaGroups(s)[i][j]
<1> DEFINE all == DubMajor(s.files)
           where == {i \in DOMAIN all : all[i].d # 0}
           files == AnimeuaTitled(s)
           groups == AnimeuaGroups(s)
<1>1. all \in Seq(File) /\ ToSet(all) = ToSet(s.files)
  BY DubMajorFacts
<1>2. files = Picked(all, where) /\ where \in SUBSET (DOMAIN all)
  BY DEF AnimeuaTitled, Those
<1> HIDE DEF all, where
<1>3. files \in Seq(File) /\ ToSet(files) \subseteq ToSet(s.files)
  BY <1>1, <1>2, ThoseFacts
<1>4. groups = [i \in DOMAIN Folders(files, "s") |-> Folders(Folders(files, "s")[i], "e")]
  BY Zenon DEF AnimeuaGroups, AnimeuaTitled
<1> HIDE DEF files, groups
<1>5. LET seasons == Folders(files, "s")
          tree    == [i \in DOMAIN seasons |-> Folders(seasons[i], "e")]
      IN  /\ \A i \in DOMAIN tree : \A j \in DOMAIN tree[i] :
                /\ tree[i][j] \in Seq(File) /\ tree[i][j] # <<>>
                /\ ToSet(tree[i][j]) \subseteq ToSet(files)
                /\ \A f, g \in ToSet(tree[i][j]) : f.s = g.s /\ f.e = g.e
          /\ \A i, j : \/ Item(Item(tree, i), j) = <<>>
                       \/ /\ i \in DOMAIN tree /\ j \in DOMAIN tree[i]
                          /\ Item(Item(tree, i), j) = tree[i][j]
  BY <1>3, GroupFacts
<1>6. /\ \A i \in DOMAIN groups : \A j \in DOMAIN groups[i] :
            /\ groups[i][j] \in Seq(File) /\ groups[i][j] # <<>>
            /\ ToSet(groups[i][j]) \subseteq ToSet(files)
            /\ \A f, g \in ToSet(groups[i][j]) : f.s = g.s /\ f.e = g.e
      /\ \A i, j : \/ Item(Item(groups, i), j) = <<>>
                   \/ /\ i \in DOMAIN groups /\ j \in DOMAIN groups[i]
                      /\ Item(Item(groups, i), j) = groups[i][j]
  BY <1>4, <1>5
<1> QED BY <1>3, <1>6 DEF groups

LEMMA AnimeuaReal ==
    ASSUME NEW s, Possible("animeua", s), NEW pos, NEW dub, NEW ans
    PROVE  Real("animeua", s, AnimeuaStream(s, pos, dub, ans))
<1> DEFINE group == Item(Item(AnimeuaGroups(s), pos[1]), pos[2])
           pick == AnimeuaPick(s, pos, dub)
           played == DubOrFirst(group, dub)
           media == AnimeuaStream(s, pos, dub, ans)
<1>1. media.code = "ok" => pick # NoFile /\ media.file = pick
  BY MediaFacts DEF AnimeuaStream
<1>2. s.files \in Seq(File) /\ First(s.files) \in ToSet(s.files) \cup {NoFile}
  BY SiteFacts
<1>3. group = <<>> \/ (group \in Seq(File) /\ ToSet(group) \subseteq ToSet(s.files))
  BY <1>2, AnimeuaGroupFacts
<1>4. pick \in {NoFile, RawText, First(s.files), played}
  BY DEF AnimeuaPick
<1> HIDE DEF group, pick, media
<1>5. played = NoFile \/ played \in ToSet(s.files)
  <2>1. CASE group = <<>>
    BY <2>1 DEF DubOrFirst
  <2>2. CASE group # <<>>
    BY <1>3, <2>2, DubOrFirstFacts
  <2> QED BY <2>1, <2>2
<1> HIDE DEF played
<1>6. Real("animeua", s, media)
  BY <1>1, <1>2, <1>4, <1>5 DEF Real, Trusting
<1> QED BY <1>6 DEF media

LEMMA AnimeuaPlays ==
    ASSUME NEW s, Possible("animeua", s), NEW listed, NEW ans,
           NEW row \in AnimeuaContent(s, listed).rows, NEW dub \in row.dubs \cup {0}
    PROVE  /\ Right("animeua", s, row, dub, AnimeuaStream(s, row.at, dub, ans))
           /\ Alive("animeua", s, row, dub, AnimeuaStream(s, row.at, dub, AllUp))
<1> DEFINE groups == AnimeuaGroups(s)
           pick == AnimeuaPick(s, row.at, dub)
           codes(a) == <<Lenient(a.page), Unless(s.player # "none", "parse_failed"), Lenient(a.player)>>
           media(a) == AnimeuaStream(s, row.at, dub, a)
<1>1. s.files \in Seq(File) /\ \A f \in ToSet(s.files) : f # NoFile
  BY SiteFacts
<1>2. \/ row \in AnimeuaSeasons(s) /\ s.payload = "list"
      \/ row \in FilmRow(s.files, {}) /\ ~(s.series /\ s.player # "none" /\ s.payload = "list")
  BY DetailFacts DEF AnimeuaContent
<1>3. ASSUME row \in AnimeuaSeasons(s), s.payload = "list"
      PROVE  pick # NoFile /\ Meant(s, row, dub, pick)
  <2>1. PICK i \in DOMAIN groups : \E j \in DOMAIN groups[i] :
           row = Row(<<i, j>>, Head(groups[i][j]), DubsOf(groups[i][j]))
    BY <1>3 DEF AnimeuaSeasons
  <2>2. PICK j \in DOMAIN groups[i] : row = Row(<<i, j>>, Head(groups[i][j]), DubsOf(groups[i][j]))
    BY <2>1
  <2> DEFINE group == groups[i][j]
  <2>3. /\ group \in Seq(File) /\ group # <<>> /\ ToSet(group) \subseteq ToSet(s.files)
        /\ \A f, g \in ToSet(group) : f.s = g.s /\ f.e = g.e
    BY <1>1, AnimeuaGroupFacts
  <2>4. row.at = <<i, j>> /\ row.says = Head(group) /\ row.dubs = DubsOf(group)
    BY <2>2, RowFacts
  <2>5. row.at # <<>> /\ row.at[1] = i /\ row.at[2] = j
    BY <2>4
  <2>6. Item(Item(groups, row.at[1]), row.at[2]) = group
    BY <2>5 DEF Item
  <2>7. pick = DubOrFirst(group, dub)
    BY <1>3, <2>5, <2>6 DEF AnimeuaPick
  <2> HIDE DEF group, pick, groups
  <2>8. row.says \in ToSet(group)
    BY <2>3, <2>4, HeadFacts
  <2>9. dub # 0 => \E f \in ToSet(group) : f.d = dub
    BY <2>4 DEF DubsOf
  <2>10. pick \in ToSet(group) /\ (dub # 0 => pick.d = dub)
    BY <2>3, <2>7, <2>9, DubOrFirstFacts
  <2> QED BY <1>1, <2>3, <2>8, <2>10 DEF Meant
<1>4. ASSUME row \in FilmRow(s.files, {})
      PROVE  /\ pick # NoFile /\ pick # RawText => Meant(s, row, dub, pick)
             /\ s.payload = "url" => pick # NoFile
  <2>1. s.files # <<>> /\ row.at = <<>> /\ row.says = Head(s.files) /\ dub = 0
    BY <1>4, FilmRowFacts
  <2>2. First(s.files) = row.says /\ row.says # NoFile
    BY <2>1, SiteFacts
  <2>3. pick \in {NoFile, RawText, row.says}
    BY <2>1, <2>2 DEF AnimeuaPick
  <2>4. s.payload = "url" => pick = row.says
    BY <2>1, <2>2 DEF AnimeuaPick
  <2> HIDE DEF pick
  <2> QED BY <2>1, <2>2, <2>3, <2>4 DEF Meant
<1>5. \A a : media(a) = Media(Refusal(codes(a)), pick)
  BY DEF AnimeuaStream
<1>6. ASSUME Intact(s) PROVE Refusal(codes(AllUp)) = "ok" /\ pick # NoFile
  <2>1. codes(AllUp) = <<"ok", "ok", "ok">>
    BY <1>6, UpFacts DEF Intact
  <2>2. s.player # "none" /\ s.payload = IF s.series THEN "list" ELSE "url"
    BY <1>6 DEF Intact
  <2>3. pick # NoFile
    BY <1>2, <1>3, <1>4, <2>2
  <2> HIDE DEF codes
  <2> QED BY <2>1, <2>3, NoneRefused
<1> HIDE DEF codes, media, pick
<1>7. Right("animeua", s, row, dub, media(ans))
  BY <1>2, <1>3, <1>4, <1>5, MediaFacts DEF Right
<1>8. Alive("animeua", s, row, dub, media(AllUp))
  BY <1>5, <1>6, MediaFacts DEF Alive
<1> QED BY <1>7, <1>8 DEF media

-----------------------------------------------------------------------------
(* Episodes by their title in a canonical dub: anitubeinua.                     *)

\* A finite order has a member ahead of all others.
LEMMA Foremost ==
    ASSUME NEW I, IsFiniteSet(I), NEW R, Orders(R, I), I # {}
    PROVE  \E b \in I : \A j \in I : j = b \/ <<b, j>> \in R
<1>1. /\ Cardinality(I) \in Nat
      /\ \A i \in I : Rank(R, I, i) \in 1 .. Cardinality(I)
      /\ \A i, j \in I : <<i, j>> \in R => Rank(R, I, i) < Rank(R, I, j)
      /\ \A n \in 1 .. Cardinality(I) : \E i \in I : Rank(R, I, i) = n
  BY Ranked
<1>2. 1 \in 1 .. Cardinality(I)
  BY <1>1
<1>3. PICK b \in I : Rank(R, I, b) = 1
  BY <1>1, <1>2
<1>4. ASSUME NEW j \in I PROVE j = b \/ <<b, j>> \in R
  <2>1. <<j, b>> \notin R
    BY <1>1, <1>3
  <2> QED BY <2>1 DEF Orders
<1> QED BY <1>4

\* A season that has files has a fullest dub, whichever number breaks a tie.
LEMMA FullestFacts ==
    ASSUME NEW season \in Seq(File), season # <<>>, NEW tie,
           \A i \in DOMAIN Folders(season, "d") : tie[i] \in Nat,
           \A i, j \in DOMAIN Folders(season, "d") : tie[i] = tie[j] => i = j
    PROVE  \E b \in DOMAIN Folders(season, "d") : \A j \in DOMAIN Folders(season, "d") :
              \/ Len(Folders(season, "d")[j]) < Len(Folders(season, "d")[b])
              \/ Len(Folders(season, "d")[j]) = Len(Folders(season, "d")[b]) /\ tie[b] <= tie[j]
<1> DEFINE studios == Folders(season, "d")
           I == DOMAIN studios
           Size(i) == Len(studios[i])
           R == {p \in I \X I : \/ Size(p[2]) < Size(p[1])
                                \/ Size(p[1]) = Size(p[2]) /\ tie[p[1]] < tie[p[2]]}
<1>1. studios \in Seq(Seq(File)) /\ 1 \in DOMAIN studios /\ \A i \in DOMAIN studios : studios[i] \in Seq(File)
  BY FoldersFacts
<1> HIDE DEF studios
<1>2. /\ IsFiniteSet(I) /\ I # {} /\ \A i \in I : Size(i) \in Nat /\ tie[i] \in Nat
      /\ \A i, j \in I : tie[i] = tie[j] => i = j
  <2>1. DOMAIN studios = 1 .. Len(studios) /\ Len(studios) \in Nat
    BY <1>1
  <2>2. IsFiniteSet(1 .. Len(studios))
    BY <2>1, FS_Interval
  <2> QED BY <1>1, <2>1, <2>2 DEF studios
<1>3. \A i, j \in I : <<i, j>> \in R <=> Size(j) < Size(i) \/ (Size(i) = Size(j) /\ tie[i] < tie[j])
  OBVIOUS
<1> HIDE DEF R, Size, I
<1>4. Orders(R, I)
  <2>1. ASSUME NEW i \in I, NEW j \in I PROVE i = j \/ <<i, j>> \in R \/ <<j, i>> \in R
    <3>1. tie[i] \in Nat /\ tie[j] \in Nat /\ Size(i) \in Nat /\ Size(j) \in Nat
      BY <1>2
    <3>2. \/ Size(j) < Size(i) \/ Size(i) < Size(j)
          \/ Size(i) = Size(j) /\ (tie[i] < tie[j] \/ tie[j] < tie[i] \/ tie[i] = tie[j])
      BY <3>1
    <3> QED BY <1>2, <1>3, <3>2
  <2>2. \A i \in I : <<i, i>> \notin R
    BY <1>2, <1>3
  <2>3. \A i, j, k \in I : <<i, j>> \in R /\ <<j, k>> \in R => <<i, k>> \in R
    BY <1>2, <1>3
  <2> QED BY <2>1, <2>2, <2>3 DEF Orders
<1>5. PICK b \in I : \A j \in I : j = b \/ <<b, j>> \in R
  BY <1>2, <1>4, Foremost
<1>6. ASSUME NEW j \in I PROVE Size(j) < Size(b) \/ (Size(j) = Size(b) /\ tie[b] <= tie[j])
  <2>1. tie[b] \in Nat /\ tie[j] \in Nat
    BY <1>2
  <2>2. CASE j = b
    BY <2>1, <2>2
  <2>3. CASE <<b, j>> \in R
    <3>1. Size(j) < Size(b) \/ (Size(b) = Size(j) /\ tie[b] < tie[j])
      BY <1>3, <2>3
    <3> QED BY <2>1, <3>1
  <2> QED BY <1>5, <2>2, <2>3
<1> QED BY <1>6 DEF Size, I, studios

\* The studio listed and the studio joined through are dubs of the season, and
\* of one length.
LEMMA CanonFacts ==
    ASSUME NEW season \in Seq(File), season # <<>>,
           NEW canon \in {CanonicalStudio(season), JoinStudio(season)}
    PROVE  /\ canon \in Seq(File) /\ canon # <<>>
           /\ ToSet(canon) \subseteq ToSet(season)
           /\ \A f, g \in ToSet(canon) : f.d = g.d
           /\ Len(CanonicalStudio(season)) = Len(JoinStudio(season))
<1> DEFINE studios == Folders(season, "d")
           First1(k) == \E i \in DOMAIN studios :
                           /\ studios[i] = k
                           /\ \A j \in DOMAIN studios :
                                 Len(studios[j]) < Len(k) \/ (Len(studios[j]) = Len(k) /\ i <= j)
           Lowest(k) == \A o \in ToSet(studios) :
                           Len(o) < Len(k) \/ (Len(o) = Len(k) /\ Head(k).d <= Head(o).d)
<1>1. /\ studios \in Seq(Seq(File))
      /\ \A i \in DOMAIN studios : studios[i] # <<>> /\ studios[i] \in Seq(File)
      /\ \A i \in DOMAIN studios : ToSet(studios[i]) \subseteq ToSet(season)
      /\ \A i, k \in DOMAIN studios : \A f \in ToSet(studios[i]), g \in ToSet(studios[k]) :
            f["d"] = g["d"] <=> i = k
  BY FoldersFacts
<1>2. CanonicalStudio(season) = CHOOSE k \in ToSet(studios) : First1(k)
  BY Zenon DEF CanonicalStudio
<1>3. JoinStudio(season) = CHOOSE k \in ToSet(studios) : Lowest(k)
  BY Zenon DEF JoinStudio
<1>4. DOMAIN studios \subseteq Nat /\ \A i \in DOMAIN studios : Head(studios[i]) \in ToSet(studios[i])
  <2>1. \A i \in DOMAIN studios : Head(studios[i]) \in ToSet(studios[i])
    <3> HIDE DEF studios
    <3> QED BY <1>1, HeadFacts
  <2> QED BY <1>1, <2>1
<1>5. \A i \in DOMAIN studios : Head(studios[i]).d \in Nat
  <2>1. \A i \in DOMAIN studios : \A f \in ToSet(studios[i]) : f \in File
    BY <1>1 DEF ToSet
  <2> HIDE DEF studios
  <2> QED BY <1>4, <2>1 DEF File
<1> DEFINE place == [i \in DOMAIN studios |-> i]
           id == [i \in DOMAIN studios |-> Head(studios[i]).d]
<1>6. PICK a \in DOMAIN studios : \A j \in DOMAIN studios :
         Len(studios[j]) < Len(studios[a]) \/ (Len(studios[j]) = Len(studios[a]) /\ a <= j)
  <2>1. /\ \A i \in DOMAIN Folders(season, "d") : place[i] \in Nat /\ place[i] = i
        /\ \A i, j \in DOMAIN Folders(season, "d") : place[i] = place[j] => i = j
    BY <1>4
  <2> HIDE DEF place
  <2>2. \E b \in DOMAIN studios : \A j \in DOMAIN studios :
           \/ Len(studios[j]) < Len(studios[b])
           \/ Len(studios[j]) = Len(studios[b]) /\ place[b] <= place[j]
    BY <2>1, FullestFacts
  <2> QED BY <2>1, <2>2
<1>7. PICK b \in DOMAIN studios : \A j \in DOMAIN studios :
         \/ Len(studios[j]) < Len(studios[b])
         \/ Len(studios[j]) = Len(studios[b]) /\ Head(studios[b]).d <= Head(studios[j]).d
  <2>1. /\ \A i \in DOMAIN Folders(season, "d") : id[i] \in Nat /\ id[i] = Head(studios[i]).d
        /\ \A i, j \in DOMAIN Folders(season, "d") : id[i] = id[j] => i = j
    BY <1>1, <1>4, <1>5
  <2> HIDE DEF id
  <2>2. \E k \in DOMAIN studios : \A j \in DOMAIN studios :
           \/ Len(studios[j]) < Len(studios[k])
           \/ Len(studios[j]) = Len(studios[k]) /\ id[k] <= id[j]
    BY <2>1, FullestFacts
  <2> QED BY <2>1, <2>2
<1>8. \A k : k \in ToSet(studios) <=> \E i \in DOMAIN studios : k = studios[i]
  BY DEF ToSet
<1> HIDE DEF studios
<1>9. First1(studios[a]) /\ Lowest(studios[b])
  BY <1>6, <1>7, <1>8
<1>10. CanonicalStudio(season) \in ToSet(studios) /\ First1(CanonicalStudio(season))
  <2> HIDE DEF First1
  <2>1. studios[a] \in ToSet(studios)
    BY <1>8
  <2> QED BY <1>2, <1>9, <2>1, Zenon
<1>11. JoinStudio(season) \in ToSet(studios) /\ Lowest(JoinStudio(season))
  <2> HIDE DEF Lowest
  <2>1. studios[b] \in ToSet(studios)
    BY <1>8
  <2> QED BY <1>3, <1>9, <2>1, Zenon
<1>12. Len(CanonicalStudio(season)) = Len(JoinStudio(season))
  <2> DEFINE c == CanonicalStudio(season)
             k == JoinStudio(season)
  <2>1. Len(c) \in Nat /\ Len(k) \in Nat
    BY <1>1, <1>8, <1>10, <1>11
  <2>2. Len(c) < Len(k) \/ Len(c) = Len(k)
    BY <1>10, <1>11
  <2>3. Len(k) < Len(c) \/ Len(k) = Len(c)
    BY <1>8, <1>10, <1>11
  <2> HIDE DEF c, k
  <2>4. Len(c) = Len(k)
    BY <2>1, <2>2, <2>3
  <2> QED BY <2>4 DEF c, k
<1>13. PICK i \in DOMAIN studios : canon = studios[i]
  BY <1>8, <1>10, <1>11
<1> QED BY <1>1, <1>12, <1>13

\* What anitubeinua looks up in a season.
AnitubeSame(season, e, d) == Those(season, LAMBDA f : f.e = e /\ f.d = d)

LEMMA AnitubeSameFacts ==
    ASSUME NEW season \in Seq(File), NEW e, NEW d
    PROVE  /\ AnitubeSame(season, e, d) # <<>> =>
                 /\ Head(AnitubeSame(season, e, d)) \in ToSet(season)
                 /\ Head(AnitubeSame(season, e, d)).e = e /\ Head(AnitubeSame(season, e, d)).d = d
           /\ (\E f \in ToSet(season) : f.e = e /\ f.d = d) => AnitubeSame(season, e, d) # <<>>
<1> DEFINE where == {i \in DOMAIN season : season[i].e = e /\ season[i].d = d}
           same == AnitubeSame(season, e, d)
<1>1. same = Picked(season, where)
  BY DEF AnitubeSame, Those
<1>2. \A i \in where : i \in DOMAIN season /\ season[i].e = e /\ season[i].d = d
  OBVIOUS
<1>3. \A i \in DOMAIN season : season[i].e = e /\ season[i].d = d => i \in where
  OBVIOUS
<1> HIDE DEF same, where
<1>4. where \in SUBSET (DOMAIN season)
  BY <1>2
<1>5. /\ same \in Seq(File) /\ ToSet(same) \subseteq ToSet(season)
      /\ \A i \in where : season[i] \in ToSet(same)
      /\ \A f \in ToSet(same) : \E i \in where : f = season[i]
      /\ same # <<>> => Head(same) \in ToSet(same)
  BY <1>1, <1>4, ThoseFacts
<1>6. same = <<>> => ToSet(same) = {}
  BY DEF ToSet
<1>7. ASSUME NEW f \in ToSet(season), f.e = e, f.d = d PROVE same # <<>>
  <2>1. PICK i \in DOMAIN season : season[i] = f
    BY DEF ToSet
  <2> QED BY <1>3, <1>5, <1>6, <1>7, <2>1
<1>8. same # <<>> => Head(same) \in ToSet(season) /\ Head(same).e = e /\ Head(same).d = d
  BY <1>2, <1>5
<1> QED BY <1>7, <1>8 DEF same

\* What anitubeinua picks is a file of the season it looks in.
LEMMA AnitubePickFacts ==
    ASSUME NEW s, s.files \in Seq(File), NEW pos, NEW dub
    PROVE  AnitubePick(s, pos, dub) = NoFile \/ AnitubePick(s, pos, dub) \in ToSet(s.files)
<1> DEFINE seasons == Folders(s.files, "s")
           season == Item(seasons, pos[1])
           canon == JoinStudio(season)
           same == AnitubeSame(season, canon[pos[2]].e, IF dub = 0 THEN Head(canon).d ELSE dub)
           pick == AnitubePick(s, pos, dub)
<1>1. /\ \A i \in DOMAIN seasons : seasons[i] \in Seq(File)
      /\ \A i \in DOMAIN seasons : ToSet(seasons[i]) \subseteq ToSet(s.files)
  BY FoldersFacts
<1>2. pick = IF pos[2] \in DOMAIN canon /\ same # <<>> THEN Head(same) ELSE NoFile
  BY Zenon DEF AnitubePick, AnitubeSame
<1> HIDE DEF seasons, pick
<1>3. season = <<>> \/ (season \in Seq(File) /\ ToSet(season) \subseteq ToSet(s.files))
  BY <1>1 DEF Item
<1> HIDE DEF season
<1>4. CASE season = <<>>
  <2>1. canon = <<>>
    BY <1>4 DEF JoinStudio
  <2> QED BY <1>2, <2>1 DEF pick
<1>5. CASE season # <<>>
  <2> DEFINE e == canon[pos[2]].e
             d == IF dub = 0 THEN Head(canon).d ELSE dub
  <2>1. season \in Seq(File)
    BY <1>3, <1>5
  <2> HIDE DEF e, d, canon
  <2>2. AnitubeSame(season, e, d) # <<>> => Head(AnitubeSame(season, e, d)) \in ToSet(season)
    BY <2>1, AnitubeSameFacts
  <2>3. same # <<>> => Head(same) \in ToSet(season)
    BY <2>2 DEF e, d
  <2> HIDE DEF same
  <2> QED BY <1>2, <1>3, <1>5, <2>3 DEF pick
<1> QED BY <1>4, <1>5

LEMMA AnitubeReal ==
    ASSUME NEW s, Possible("anitubeinua", s), NEW pos, NEW dub, NEW ans
    PROVE  Real("anitubeinua", s, AnitubeStream(s, pos, dub, ans))
<1> DEFINE pick == AnitubePick(s, pos, dub)
           media == AnitubeStream(s, pos, dub, ans)
<1>1. media.code = "ok" => pick # NoFile /\ media.file = pick
  BY MediaFacts DEF AnitubeStream
<1>2. s.files \in Seq(File)
  BY SiteFacts
<1> HIDE DEF media
<1>3. pick = NoFile \/ pick \in ToSet(s.files)
  BY <1>2, AnitubePickFacts
<1> HIDE DEF pick
<1>4. Real("anitubeinua", s, media)
  BY <1>1, <1>3 DEF Real
<1> QED BY <1>4 DEF media

\* A listed row of anitubeinua plays its own episode.
LEMMA AnitubeEpisode ==
    ASSUME NEW s, s.files \in Seq(File), NEW row \in AnitubeSeasons(s), NEW dub \in row.dubs \cup {0}
    PROVE  /\ row.at # <<>>
           /\ AnitubePick(s, row.at, dub) = NoFile \/ AnitubePick(s, row.at, dub) \in ToSet(s.files)
           /\ ~StudiosDisagree(s) =>
                /\ AnitubePick(s, row.at, dub) \in ToSet(s.files)
                /\ AnitubePick(s, row.at, dub).s = row.says.s
                /\ AnitubePick(s, row.at, dub).e = row.says.e
                /\ dub # 0 => AnitubePick(s, row.at, dub).d = dub
<1> DEFINE seasons == Folders(s.files, "s")
           tree == [i \in DOMAIN seasons |-> CanonicalStudio(seasons[i])]
           Others(f) == {i \in DOMAIN s.files : s.files[i].s = f.s /\ s.files[i].e = f.e}
<1>1. row \in UNION {{[at |-> <<i, j>>, says |-> tree[i][j],
                       dubs |-> DubsOf(Picked(s.files, Others(tree[i][j])))]
                         : j \in DOMAIN tree[i]} : i \in DOMAIN tree}
  BY Zenon DEF AnitubeSeasons, RowsOf, Row, Those
<1>2. PICK i \in DOMAIN seasons : \E j \in DOMAIN CanonicalStudio(seasons[i]) :
         /\ row.at = <<i, j>> /\ row.says = CanonicalStudio(seasons[i])[j]
         /\ row.dubs = DubsOf(Picked(s.files, Others(CanonicalStudio(seasons[i])[j])))
  <2> HIDE DEF Others, seasons
  <2> QED BY <1>1
<1> DEFINE season == seasons[i]
           canon == CanonicalStudio(season)
           joined == JoinStudio(season)
<1>3. PICK j \in DOMAIN canon :
         /\ row.at = <<i, j>> /\ row.says = canon[j]
         /\ row.dubs = DubsOf(Picked(s.files, Others(canon[j])))
  BY <1>2
<1>4. /\ season \in Seq(File) /\ season # <<>> /\ ToSet(season) \subseteq ToSet(s.files)
      /\ \A f, g \in ToSet(season) : f.s = g.s
      /\ \A f \in ToSet(season) : \A g \in ToSet(s.files) : g.s = f.s => g \in ToSet(season)
  <2>1. LET t == Folders(s.files, "s")
        IN  /\ \A n \in DOMAIN t : t[n] # <<>> /\ t[n] \in Seq(File)
            /\ \A n \in DOMAIN t : ToSet(t[n]) \subseteq ToSet(s.files)
            /\ \A f \in ToSet(s.files) : \E n \in DOMAIN t : f \in ToSet(t[n])
            /\ \A n, k \in DOMAIN t : \A f \in ToSet(t[n]), g \in ToSet(t[k]) :
                  f["s"] = g["s"] <=> n = k
    BY FoldersFacts
  <2> HIDE DEF seasons, canon, joined
  <2>2. \A n, k \in DOMAIN seasons : \A f \in ToSet(seasons[n]), g \in ToSet(seasons[k]) :
                  f.s = g.s <=> n = k
    BY <2>1 DEF seasons
  <2>3. /\ \A n \in DOMAIN seasons : seasons[n] # <<>> /\ seasons[n] \in Seq(File)
        /\ \A n \in DOMAIN seasons : ToSet(seasons[n]) \subseteq ToSet(s.files)
        /\ \A f \in ToSet(s.files) : \E n \in DOMAIN seasons : f \in ToSet(seasons[n])
    BY <2>1 DEF seasons
  <2>4. ASSUME NEW f \in ToSet(season), NEW g \in ToSet(s.files), g.s = f.s PROVE g \in ToSet(season)
    <3>1. PICK n \in DOMAIN seasons : g \in ToSet(seasons[n])
      BY <2>3
    <3>2. n = i
      BY <2>2, <2>4, <3>1
    <3> QED BY <3>1, <3>2
  <2> QED BY <2>2, <2>3, <2>4
<1>5. row.at # <<>> /\ row.at[1] = i /\ row.at[2] = j /\ i \in DOMAIN seasons
  BY <1>3
<1>6. Item(seasons, row.at[1]) = season
  BY <1>5 DEF Item
<1> DEFINE d == IF dub = 0 THEN Head(joined).d ELSE dub
           same == AnitubeSame(season, joined[j].e, d)
           pick == AnitubePick(s, row.at, dub)
<1>7. pick = IF j \in DOMAIN joined /\ same # <<>> THEN Head(same) ELSE NoFile
  <2>1. pick = LET ss == Item(seasons, row.at[1])
                   cc == JoinStudio(ss)
                   sm == AnitubeSame(ss, cc[row.at[2]].e, IF dub = 0 THEN Head(cc).d ELSE dub)
               IN  IF row.at[2] \in DOMAIN cc /\ sm # <<>> THEN Head(sm) ELSE NoFile
    BY Zenon DEF AnitubePick, AnitubeSame
  <2> HIDE DEF pick
  <2> QED BY <1>5, <1>6, <2>1
<1>a. pick = NoFile \/ pick \in ToSet(s.files)
  BY AnitubePickFacts
<1>b. ~StudiosDisagree(s) => canon[j].e = joined[j].e
  <2>1. season \in ToSet(seasons)
    BY DEF ToSet
  <2> HIDE DEF seasons, season
  <2>2. ~StudiosDisagree(s) => \A k \in DOMAIN CanonicalStudio(season) :
           CanonicalStudio(season)[k].e = JoinStudio(season)[k].e
    BY <2>1 DEF StudiosDisagree, seasons
  <2> QED BY <1>3, <2>2
<1> HIDE DEF season, pick
<1>8. /\ canon \in Seq(File) /\ canon # <<>> /\ ToSet(canon) \subseteq ToSet(season)
      /\ \A f, g \in ToSet(canon) : f.d = g.d
  BY <1>4, CanonFacts
<1>c. /\ joined \in Seq(File) /\ joined # <<>> /\ ToSet(joined) \subseteq ToSet(season)
      /\ \A f, g \in ToSet(joined) : f.d = g.d
      /\ Len(canon) = Len(joined)
  BY <1>4, CanonFacts
<1> HIDE DEF canon, joined
<1>d. j \in DOMAIN joined
  BY <1>3, <1>8, <1>c
<1>e. joined[j] \in ToSet(joined) /\ Head(joined) \in ToSet(joined)
  BY <1>c, <1>d, HeadFacts DEF ToSet
<1>f. ASSUME ~StudiosDisagree(s)
      PROVE  /\ pick \in ToSet(s.files) /\ pick.s = row.says.s /\ pick.e = row.says.e
             /\ dub # 0 => pick.d = dub
  <2>9. row.says \in ToSet(canon) /\ Head(canon) \in ToSet(canon) /\ row.says = canon[j]
    BY <1>3, <1>8, HeadFacts DEF ToSet
  <2>10. \E f \in ToSet(season) : f.e = canon[j].e /\ f.d = d
    <3>1. CASE dub = 0
      BY <1>b, <1>c, <1>e, <1>f, <3>1
    <3>2. CASE dub # 0
      <4> DEFINE others == Others(row.says)
      <4>1. dub \in DubsOf(Picked(s.files, others))
        BY <1>3, <2>9, <3>2
      <4>2. others \in SUBSET (DOMAIN s.files)
        OBVIOUS
      <4>3. \A n \in others : s.files[n].s = row.says.s /\ s.files[n].e = row.says.e
        OBVIOUS
      <4> HIDE DEF others
      <4>4. PICK f \in ToSet(Picked(s.files, others)) : f.d = dub
        BY <4>1 DEF DubsOf
      <4>5. PICK n \in others : f = s.files[n]
        BY <4>2, ThoseFacts
      <4>6. f \in ToSet(s.files)
        BY <4>2, <4>5 DEF ToSet
      <4>7. f.s = row.says.s /\ f.e = row.says.e
        BY <4>3, <4>5
      <4>8. f \in ToSet(season)
        BY <1>4, <1>8, <2>9, <4>6, <4>7
      <4> QED BY <2>9, <3>2, <4>4, <4>7, <4>8
    <3> QED BY <3>1, <3>2
  <2> DEFINE e == canon[j].e
  <2>11. \E f \in ToSet(season) : f.e = e /\ f.d = d
    BY <2>10
  <2>12. same = AnitubeSame(season, e, d)
    BY <1>b, <1>f
  <2> HIDE DEF e, d, same
  <2>13. same # <<>> /\ Head(same) \in ToSet(season) /\ Head(same).e = e /\ Head(same).d = d
    BY <1>4, <2>11, <2>12, AnitubeSameFacts
  <2>14. pick = Head(same)
    BY <1>d, <1>7, <2>13
  <2>15. pick \in ToSet(s.files) /\ pick.s = row.says.s /\ pick.e = row.says.e
    BY <1>4, <1>8, <2>9, <2>13, <2>14 DEF e
  <2>16. dub # 0 => pick.d = dub
    BY <2>13, <2>14 DEF d
  <2> QED BY <2>15, <2>16
<1> QED BY <1>5, <1>a, <1>f DEF pick

LEMMA AnitubePlays ==
    ASSUME NEW s, Possible("anitubeinua", s), NEW listed, NEW ans,
           NEW row \in AnitubeContent(s, listed).rows, NEW dub \in row.dubs \cup {0}
    PROVE  /\ Right("anitubeinua", s, row, dub, AnitubeStream(s, row.at, dub, ans))
           /\ Alive("anitubeinua", s, row, dub, AnitubeStream(s, row.at, dub, AllUp))
<1> DEFINE pick == AnitubePick(s, row.at, dub)
           codes(a) == AnitubePlaylist(s, a)
           rest(a) == <<Unless(pick # NoFile, "parse_failed"), Lenient(a.player)>>
           media(a) == AnitubeStream(s, row.at, dub, a)
<1>1. s.files \in Seq(File) /\ \A f \in ToSet(s.files) : f # NoFile
  BY SiteFacts
<1>2. row \in AnitubeSeasons(s) /\ Refusal(AnitubePlaylist(s, listed)) = "ok"
  BY DetailFacts DEF AnitubeContent
<1>3. /\ row.at # <<>>
      /\ pick = NoFile \/ pick \in ToSet(s.files)
      /\ ~StudiosDisagree(s) =>
            /\ pick \in ToSet(s.files) /\ pick.s = row.says.s /\ pick.e = row.says.e
            /\ dub # 0 => pick.d = dub
  BY <1>1, <1>2, AnitubeEpisode
<1>4. \A a : media(a) = Media(Refusal(codes(a) \o rest(a)), pick)
  BY <1>3 DEF AnitubeStream
<1>5. s.payload = "list"
  <2> DEFINE q == AnitubePlaylist(s, listed)
             S == {q[1], q[2], q[3], q[4]}
  <2>1. q \in Seq(S) /\ Len(q) = 4 /\ q[4] = Unless(s.payload = "list", "parse_failed")
    BY DEF AnitubePlaylist
  <2> HIDE DEF q, S
  <2>2. 4 \in 1 .. Len(q)
    BY <2>1
  <2>3. \A i \in 1 .. Len(q) : q[i] = "ok"
    BY <1>2, <2>1, OkPasses DEF q
  <2>4. q[4] = "ok"
    BY <2>2, <2>3
  <2> QED BY <2>1, <2>4 DEF Unless
<1> HIDE DEF pick
<1>6. ASSUME Intact(s), ~StudiosDisagree(s) PROVE Refusal(codes(AllUp) \o rest(AllUp)) = "ok"
  <2>1. codes(AllUp) = <<"ok", "ok", "ok", "ok">>
    BY <1>5, <1>6, UpFacts DEF Intact, AnitubePlaylist
  <2>2. rest(AllUp) = <<"ok", "ok">>
    BY <1>1, <1>3, <1>6, UpFacts
  <2> HIDE DEF codes, rest
  <2> QED BY <2>1, <2>2, NoneRefused
<1> HIDE DEF codes, rest, media
<1>7. Right("anitubeinua", s, row, dub, media(ans))
  BY <1>3, <1>4, MediaFacts DEF Right, Meant, Misnumbered
<1>8. Alive("anitubeinua", s, row, dub, media(AllUp))
  BY <1>1, <1>3, <1>4, <1>6, MediaFacts DEF Alive, DeadRows
<1> QED BY <1>7, <1>8 DEF media

-----------------------------------------------------------------------------
(* Episodes by title in seasons by name: kinotron. Where every season is named *)
(* or none is, naming leaves its seasons and titles where they are.            *)

Named(f) == [f EXCEPT !.s = IF @ = 0 THEN 1 ELSE @]
Renamed(q) == [i \in DOMAIN q |-> Named(q[i])]

LEMMA NamedFacts ==
    ASSUME NEW f \in File
    PROVE  /\ Named(f) \in File /\ Named(f).e = f.e /\ Named(f).d = f.d
           /\ Named(f).s = (IF f.s = 0 THEN 1 ELSE f.s)
BY DEF Named, File

LEMMA RenamedFacts ==
    ASSUME NEW q \in Seq(File)
    PROVE  /\ Renamed(q) \in Seq(File) /\ DOMAIN Renamed(q) = DOMAIN q
           /\ \A i \in DOMAIN q : Renamed(q)[i] = Named(q[i]) /\ q[i] \in File
           /\ ToSet(Renamed(q)) = {Named(f) : f \in ToSet(q)}
<1>1. \A i \in DOMAIN q : q[i] \in File /\ Named(q[i]) \in File
  BY NamedFacts
<1> DEFINE r == Renamed(q)
<1>2. DOMAIN q = 1 .. Len(q) /\ Len(q) \in Nat
  OBVIOUS
<1>3. DOMAIN r = DOMAIN q /\ \A i \in DOMAIN q : r[i] = Named(q[i])
  BY DEF Renamed
<1>4. r \in Seq(File)
  <2>1. r = [i \in 1 .. Len(q) |-> Named(q[i])]
    BY <1>2 DEF Renamed
  <2>2. \A i \in 1 .. Len(q) : Named(q[i]) \in File
    BY <1>1, <1>2
  <2> HIDE DEF r
  <2> QED BY <1>2, <2>1, <2>2
<1> HIDE DEF r
<1>5. ToSet(r) = {Named(f) : f \in ToSet(q)}
  BY <1>3 DEF ToSet
<1> QED BY <1>1, <1>3, <1>4, <1>5 DEF r

\* Naming what was picked is picking what was named.
LEMMA RenamedPick ==
    ASSUME NEW q \in Seq(File), NEW pos \in SUBSET (DOMAIN q)
    PROVE  Picked(Renamed(q), pos) = Renamed(Picked(q, pos))
<1> DEFINE r == Renamed(q)
           a == Picked(q, pos)
           b == Picked(r, pos)
           n == Cardinality(pos)
<1>1. /\ r \in Seq(File) /\ DOMAIN r = DOMAIN q /\ DOMAIN q \subseteq Nat
      /\ \A i \in DOMAIN q : r[i] = Named(q[i])
  BY RenamedFacts
<1> HIDE DEF r
<1>2. pos \in SUBSET (DOMAIN r) /\ pos \subseteq Nat
  BY <1>1
<1>3. a \in Seq(File) /\ \E g : Runs(g, a, q, pos)
  BY PickedRuns
<1>4. b \in Seq(File) /\ \E h : Runs(h, b, r, pos)
  BY <1>1, <1>2, PickedRuns
<1>5. PICK g : Runs(g, a, q, pos)
  BY <1>3
<1>6. PICK h : Runs(h, b, r, pos)
  BY <1>4
<1> HIDE DEF a, b
<1>7. /\ Len(a) = n /\ n \in Nat /\ g \in [1 .. n -> pos]
      /\ \A i \in 1 .. n : a[i] = q[g[i]]
      /\ \A i, m \in 1 .. n : i < m => g[i] < g[m]
      /\ \A i \in pos : \E m \in 1 .. n : g[m] = i
  BY <1>5 DEF Runs
<1>8. /\ Len(b) = n /\ h \in [1 .. n -> pos]
      /\ \A i \in 1 .. n : b[i] = r[h[i]]
      /\ \A i, m \in 1 .. n : i < m => h[i] < h[m]
      /\ \A i \in pos : \E m \in 1 .. n : h[m] = i
  BY <1>6 DEF Runs
<1> HIDE DEF n
<1>9. Increases(g, n) /\ Increases(h, n)
  <2>1. g \in [1 .. n -> Nat] /\ h \in [1 .. n -> Nat]
    BY <1>2, <1>7, <1>8
  <2> QED BY <1>7, <1>8, <2>1 DEF Increases
<1>10. Covers(h, n, g, n) /\ Covers(g, n, h, n)
  BY <1>7, <1>8 DEF Covers
<1>11. \A i \in 1 .. n : g[i] = h[i]
  BY <1>7, <1>9, <1>10, OneWay
<1>12. \A i \in 1 .. n : b[i] = Named(a[i])
  <2> SUFFICES ASSUME NEW i \in 1 .. n PROVE b[i] = Named(a[i])
    OBVIOUS
  <2>1. b[i] = r[g[i]] /\ a[i] = q[g[i]] /\ g[i] \in DOMAIN q
    BY <1>7, <1>8, <1>11
  <2> QED BY <1>1, <2>1
<1>13. DOMAIN b = 1 .. n
  BY <1>4, <1>8
<1>14. b = Renamed(a)
  <2>1. DOMAIN a = 1 .. n
    BY <1>3, <1>7
  <2>2. b = [i \in 1 .. n |-> b[i]]
    BY <1>4, <1>13
  <2>3. Renamed(a) = [i \in 1 .. n |-> Named(a[i])]
    BY <2>1 DEF Renamed
  <2> QED BY <1>12, <2>2, <2>3
<1> QED BY <1>14 DEF a, b, r

\* Naming tells apart what the field told apart, and no more.
Apart(q, field) ==
    \A f, g \in ToSet(q) : Named(f)[field] = Named(g)[field] <=> f[field] = g[field]

\* The folders of the named files are the named folders.
LEMMA RenamedFolders ==
    ASSUME NEW q \in Seq(File), NEW field, Apart(q, field)
    PROVE  /\ DOMAIN Folders(Renamed(q), field) = DOMAIN Folders(q, field)
           /\ \A i \in DOMAIN Folders(q, field) :
                 Folders(Renamed(q), field)[i] = Renamed(Folders(q, field)[i])
<1> DEFINE r == Renamed(q)
           I == DOMAIN q
           first == Firsts(q, field)
           a == Picked(q, first)
           l == Labels(q, field)
           k == Labels(r, field)
<1>1. /\ r \in Seq(File) /\ DOMAIN r = I /\ I \subseteq Nat
      /\ \A i \in I : r[i] = Named(q[i]) /\ q[i] \in ToSet(q)
  BY RenamedFacts DEF ToSet
<1>2. \A f, g \in ToSet(q) : Named(f)[field] = Named(g)[field] <=> f[field] = g[field]
  BY DEF Apart
<1>3. \A i, j \in I : r[i][field] = r[j][field] <=> q[i][field] = q[j][field]
  BY <1>1, <1>2
<1>4. Firsts(r, field) = first
  <2> HIDE DEF r
  <2> QED BY <1>1, <1>3 DEF Firsts
<1>5. first \in SUBSET (DOMAIN q)
  BY DEF Firsts
<1>6. Picked(r, first) = Renamed(a)
  <2> HIDE DEF first
  <2> QED BY <1>5, RenamedPick
<1>7. a \in Seq(File) /\ ToSet(a) \subseteq ToSet(q)
  <2> HIDE DEF first
  <2> QED BY <1>5, ThoseFacts
<1>8. l = [n \in DOMAIN a |-> a[n][field]]
  BY DEF Labels
<1>9. k = [n \in DOMAIN Renamed(a) |-> Renamed(a)[n][field]]
  BY <1>4, <1>6 DEF Labels
<1> HIDE DEF l, k, a, first
<1>10. /\ DOMAIN l = DOMAIN a /\ DOMAIN k = DOMAIN a
       /\ \A n \in DOMAIN a : l[n] = a[n][field] /\ k[n] = Named(a[n])[field] /\ a[n] \in ToSet(q)
  <2>1. DOMAIN Renamed(a) = DOMAIN a /\ \A n \in DOMAIN a : Renamed(a)[n] = Named(a[n])
    BY <1>7, RenamedFacts
  <2>2. \A n \in DOMAIN a : a[n] \in ToSet(q)
    BY <1>7 DEF ToSet
  <2> QED BY <1>8, <1>9, <2>1, <2>2
<1>11. ASSUME NEW n \in DOMAIN a PROVE Folder(r, field, k[n]) = Renamed(Folder(q, field, l[n]))
  <2> DEFINE pos == {i \in I : q[i][field] = l[n]}
             to == {i \in I : r[i][field] = k[n]}
  <2>1. \A i \in I : r[i][field] = k[n] <=> q[i][field] = l[n]
    <3> SUFFICES ASSUME NEW i \in I PROVE r[i][field] = k[n] <=> q[i][field] = l[n]
      OBVIOUS
    <3> HIDE DEF r
    <3>1. q[i] \in ToSet(q) /\ a[n] \in ToSet(q) /\ r[i] = Named(q[i])
      BY <1>1, <1>10
    <3>2. Named(q[i])[field] = Named(a[n])[field] <=> q[i][field] = a[n][field]
      BY <1>2, <3>1
    <3> QED BY <1>10, <3>1, <3>2
  <2>2. to = pos
    BY <2>1
  <2>3. Folder(q, field, l[n]) = Picked(q, pos)
    BY DEF Folder, Those
  <2>4. Folder(r, field, k[n]) = Picked(r, to)
    BY <1>1 DEF Folder, Those
  <2>5. pos \in SUBSET (DOMAIN q)
    OBVIOUS
  <2> HIDE DEF pos, to
  <2> QED BY <2>2, <2>3, <2>4, <2>5, RenamedPick
<1>12. Folders(q, field) = [i \in DOMAIN l |-> Folder(q, field, l[i])]
  BY DEF Folders, l
<1>13. Folders(r, field) = [i \in DOMAIN k |-> Folder(r, field, k[i])]
  BY DEF Folders, k
<1> HIDE DEF r
<1>14. /\ DOMAIN Folders(r, field) = DOMAIN Folders(q, field)
       /\ \A i \in DOMAIN Folders(q, field) : Folders(r, field)[i] = Renamed(Folders(q, field)[i])
  BY <1>10, <1>11, <1>12, <1>13
<1> QED BY <1>14 DEF r

LEMMA KinotronFilesFacts ==
    ASSUME NEW s, Possible("kinotron", s)
    PROVE  /\ KinotronFiles(s) \in Seq(File)
           /\ \A f \in ToSet(KinotronFiles(s)) : f \in ToSet(s.files) \cup {NoFile, RawText} /\ f.d # Uk
           /\ s.payload = "list" => ToSet(KinotronFiles(s)) = ToSet(s.files)
           /\ ~PartlyNamed(s) => Apart(KinotronFiles(s), "s")
<1> DEFINE files == KinotronFiles(s)
           first == First(s.files)
<1>1. /\ s.files \in Seq(File) /\ \A f \in ToSet(s.files) : f \in File /\ f.d # Uk
      /\ first \in ToSet(s.files) \cup {NoFile}
  BY SiteFacts
<1>2. NoFile \in File /\ RawText \in File /\ NoFile.d # Uk /\ RawText.d # Uk
  BY DEF NoFile, RawText, File, Uk
<1>3. /\ DubMajor(s.files) \in Seq(File) /\ ToSet(DubMajor(s.files)) = ToSet(s.files)
  BY <1>1, DubMajorFacts
<1>4. first \in File
  BY <1>1, <1>2
<1> HIDE DEF first
<1>5. ToSet(<<first>>) = {first} /\ ToSet(<<RawText>>) = {RawText} /\ <<first>> \in Seq(File)
      /\ <<RawText>> \in Seq(File)
  BY <1>2, <1>4 DEF ToSet
<1>6. \/ files = <<>> /\ ToSet(files) = {} /\ files \in Seq(File)
      \/ files = <<first>>
      \/ files = <<RawText>>
      \/ files = DubMajor(s.files)
  BY DEF KinotronFiles, first, ToSet
<1>7. s.payload = "list" => files = DubMajor(s.files)
  BY DEF KinotronFiles
<1> HIDE DEF files
<1>8. files \in Seq(File)
  BY <1>3, <1>5, <1>6
<1>9. \A f \in ToSet(files) : f \in ToSet(s.files) \cup {NoFile, RawText} /\ f.d # Uk
  BY <1>1, <1>2, <1>3, <1>5, <1>6
<1>10. ASSUME ~PartlyNamed(s), NEW f \in ToSet(files), NEW g \in ToSet(files)
       PROVE  Named(f)["s"] = Named(g)["s"] <=> f["s"] = g["s"]
  <2>1. CASE f = g
    BY <2>1
  <2>2. CASE f \in ToSet(s.files) /\ g \in ToSet(s.files)
    <3>1. ~(f.s = 0 /\ g.s = 1) /\ ~(f.s = 1 /\ g.s = 0)
      BY <1>10, <2>2 DEF PartlyNamed
    <3>2. /\ Named(f).s = (IF f.s = 0 THEN 1 ELSE f.s)
          /\ Named(g).s = (IF g.s = 0 THEN 1 ELSE g.s)
      BY <1>1, <2>2, NamedFacts
    <3> QED BY <3>1, <3>2
  <2> QED BY <1>3, <1>5, <1>6, <2>1, <2>2
<1> QED BY <1>3, <1>7, <1>8, <1>9, <1>10 DEF Apart, files

\* Seasons and titles as kinotron lists them and as it plays them.
TitleGroups(files) == [i \in DOMAIN Folders(files, "s") |-> Folders(Folders(files, "s")[i], "e")]

LEMMA TitleGroupsFacts ==
    ASSUME NEW files \in Seq(File)
    PROVE  /\ DOMAIN TitleGroups(files) = DOMAIN Folders(files, "s")
           /\ \A i \in DOMAIN TitleGroups(files) : TitleGroups(files)[i] = Folders(Folders(files, "s")[i], "e")
           /\ \A i \in DOMAIN TitleGroups(files) : \A j \in DOMAIN TitleGroups(files)[i] :
                 /\ TitleGroups(files)[i][j] \in Seq(File) /\ TitleGroups(files)[i][j] # <<>>
                 /\ ToSet(TitleGroups(files)[i][j]) \subseteq ToSet(files)
                 /\ \A f, g \in ToSet(TitleGroups(files)[i][j]) : f.s = g.s /\ f.e = g.e
           /\ \A i, j : \/ Item(Item(TitleGroups(files), i), j) = <<>>
                        \/ /\ i \in DOMAIN TitleGroups(files) /\ j \in DOMAIN TitleGroups(files)[i]
                           /\ Item(Item(TitleGroups(files), i), j) = TitleGroups(files)[i][j]
<1> DEFINE t == TitleGroups(files)
<1>1. t = [i \in DOMAIN Folders(files, "s") |-> Folders(Folders(files, "s")[i], "e")]
  BY DEF TitleGroups
<1> HIDE DEF t
<1>2. LET seasons == Folders(files, "s")
          groups  == [i \in DOMAIN seasons |-> Folders(seasons[i], "e")]
      IN  /\ DOMAIN groups = DOMAIN seasons
          /\ \A i \in DOMAIN groups : \A j \in DOMAIN groups[i] :
                /\ groups[i][j] \in Seq(File) /\ groups[i][j] # <<>>
                /\ ToSet(groups[i][j]) \subseteq ToSet(files)
                /\ \A f, g \in ToSet(groups[i][j]) : f.s = g.s /\ f.e = g.e
          /\ \A i, j : \/ Item(Item(groups, i), j) = <<>>
                       \/ /\ i \in DOMAIN groups /\ j \in DOMAIN groups[i]
                          /\ Item(Item(groups, i), j) = groups[i][j]
  BY GroupFacts
<1>3. /\ DOMAIN t = DOMAIN Folders(files, "s")
      /\ \A i \in DOMAIN t : \A j \in DOMAIN t[i] :
            /\ t[i][j] \in Seq(File) /\ t[i][j] # <<>>
            /\ ToSet(t[i][j]) \subseteq ToSet(files)
            /\ \A f, g \in ToSet(t[i][j]) : f.s = g.s /\ f.e = g.e
      /\ \A i, j : \/ Item(Item(t, i), j) = <<>>
                   \/ /\ i \in DOMAIN t /\ j \in DOMAIN t[i]
                      /\ Item(Item(t, i), j) = t[i][j]
  BY <1>1, <1>2
<1>4. \A i \in DOMAIN t : t[i] = Folders(Folders(files, "s")[i], "e")
  BY <1>1
<1> QED BY <1>3, <1>4 DEF t

LEMMA TitleGroupsAlike ==
    ASSUME NEW files \in Seq(File), Apart(files, "s")
    PROVE  /\ DOMAIN TitleGroups(Renamed(files)) = DOMAIN TitleGroups(files)
           /\ \A i \in DOMAIN TitleGroups(files) :
                 /\ DOMAIN TitleGroups(Renamed(files))[i] = DOMAIN TitleGroups(files)[i]
                 /\ \A j \in DOMAIN TitleGroups(files)[i] :
                       TitleGroups(Renamed(files))[i][j] = Renamed(TitleGroups(files)[i][j])
<1> DEFINE t == TitleGroups(files)
           u == TitleGroups(Renamed(files))
           seasons == Folders(files, "s")
           named == Folders(Renamed(files), "s")
<1>1. /\ Renamed(files) \in Seq(File)
      /\ DOMAIN named = DOMAIN seasons /\ \A i \in DOMAIN seasons : named[i] = Renamed(seasons[i])
  BY RenamedFacts, RenamedFolders
<1>2. /\ DOMAIN t = DOMAIN seasons /\ \A i \in DOMAIN seasons : t[i] = Folders(seasons[i], "e")
      /\ DOMAIN u = DOMAIN named /\ \A i \in DOMAIN named : u[i] = Folders(named[i], "e")
  BY <1>1, TitleGroupsFacts
<1>3. \A i \in DOMAIN seasons : seasons[i] \in Seq(File)
  <2>1. /\ \A i \in DOMAIN seasons : seasons[i] # <<>> /\ seasons[i] \in Seq(File)
    BY FoldersFacts
  <2> QED BY <2>1
<1> HIDE DEF t, u, seasons, named
<1>4. ASSUME NEW i \in DOMAIN seasons
      PROVE  /\ DOMAIN u[i] = DOMAIN t[i]
             /\ \A j \in DOMAIN t[i] : u[i][j] = Renamed(t[i][j])
  <2> DEFINE season == seasons[i]
  <2>1. season \in Seq(File) /\ u[i] = Folders(Renamed(season), "e") /\ t[i] = Folders(season, "e")
    BY <1>1, <1>2, <1>3
  <2> HIDE DEF season
  <2>2. Apart(season, "e")
    <3>1. \A f \in ToSet(season) : Named(f)["e"] = f["e"]
      <4>1. \A f \in ToSet(season) : f \in File
        BY <2>1 DEF ToSet
      <4> QED BY <4>1, NamedFacts
    <3> QED BY <3>1 DEF Apart
  <2> QED BY <2>1, <2>2, RenamedFolders
<1> QED BY <1>1, <1>2, <1>4 DEF t, u

\* What kinotron selects is one of its files, ...
LEMMA KinotronSelected ==
    ASSUME NEW files \in Seq(File), NEW pos, NEW dub
    PROVE  KinotronSelect(files, pos, dub) = NoFile \/ KinotronSelect(files, pos, dub) \in ToSet(files)
<1> DEFINE seasons == Folders(files, "s")
           season == Item(seasons, pos[1])
           groups == Folders(season, "e")
           group == Item(groups, pos[2])
           dubbed == IF dub = 0 THEN <<>> ELSE Folder(group, "d", dub)
           pick == KinotronSelect(files, pos, dub)
<1>1. /\ \A i \in DOMAIN seasons : seasons[i] \in Seq(File)
      /\ \A i \in DOMAIN seasons : ToSet(seasons[i]) \subseteq ToSet(files)
  BY FoldersFacts
<1>2. pick = IF pos = <<>> THEN First(files) ELSE IF group = <<>> THEN NoFile
             ELSE IF dubbed # <<>> THEN Head(dubbed) ELSE Head(group)
  BY Zenon DEF KinotronSelect
<1> HIDE DEF seasons, pick
<1>0. <<>> \in Seq(File) /\ ToSet(<<>>) = {}
  BY DEF ToSet
<1>3. season \in Seq(File) /\ ToSet(season) \subseteq ToSet(files)
  <2>1. season = <<>> \/ \E i \in DOMAIN seasons : season = seasons[i]
    BY DEF Item
  <2> HIDE DEF season
  <2> QED BY <1>0, <1>1, <2>1
<1> HIDE DEF season
<1>4. /\ \A i \in DOMAIN groups : groups[i] \in Seq(File)
      /\ \A i \in DOMAIN groups : ToSet(groups[i]) \subseteq ToSet(season)
  BY <1>3, FoldersFacts
<1> HIDE DEF groups
<1>5. group \in Seq(File) /\ ToSet(group) \subseteq ToSet(files)
  <2>1. group = <<>> \/ \E i \in DOMAIN groups : group = groups[i]
    BY DEF Item
  <2> HIDE DEF group
  <2> QED BY <1>0, <1>3, <1>4, <2>1
<1> HIDE DEF group
<1>6. dubbed # <<>> => Head(dubbed) \in ToSet(group)
  BY <1>5, DubbedFacts
<1>7. group # <<>> => Head(group) \in ToSet(group)
  BY <1>5, HeadFacts
<1>8. First(files) = NoFile \/ First(files) \in ToSet(files)
  BY DEF First, ToSet
<1> HIDE DEF dubbed
<1> QED BY <1>2, <1>5, <1>6, <1>7, <1>8 DEF pick

\* ... and at the position of a title, one of that title in the dub asked for.
LEMMA KinotronTitle ==
    ASSUME NEW files \in Seq(File), NEW i \in DOMAIN TitleGroups(files), NEW j \in DOMAIN TitleGroups(files)[i],
           NEW pos, pos = <<i, j>>, NEW dub
    PROVE  /\ KinotronSelect(files, pos, dub) \in ToSet(TitleGroups(files)[i][j])
           /\ dub # 0 /\ (\E f \in ToSet(TitleGroups(files)[i][j]) : f.d = dub)
                 => KinotronSelect(files, pos, dub).d = dub
<1> DEFINE group == TitleGroups(files)[i][j]
           dubbed == IF dub = 0 THEN <<>> ELSE Folder(group, "d", dub)
           pick == KinotronSelect(files, pos, dub)
<1>1. /\ DOMAIN TitleGroups(files) = DOMAIN Folders(files, "s")
      /\ TitleGroups(files)[i] = Folders(Folders(files, "s")[i], "e")
      /\ group \in Seq(File) /\ group # <<>>
  BY TitleGroupsFacts
<1>2. pos # <<>> /\ pos[1] = i /\ pos[2] = j
  OBVIOUS
<1>3. Item(Folders(files, "s"), i) = Folders(files, "s")[i]
  BY <1>1 DEF Item
<1>4. Item(Folders(Item(Folders(files, "s"), pos[1]), "e"), pos[2]) = group
  BY <1>1, <1>2, <1>3 DEF Item
<1>5. pick = LET g == Item(Folders(Item(Folders(files, "s"), pos[1]), "e"), pos[2])
                 b == IF dub = 0 THEN <<>> ELSE Folder(g, "d", dub)
             IN  IF pos = <<>> THEN First(files) ELSE IF g = <<>> THEN NoFile
                 ELSE IF b # <<>> THEN Head(b) ELSE Head(g)
  BY Zenon DEF KinotronSelect
<1> HIDE DEF group, pick
<1>6. pick = IF dubbed # <<>> THEN Head(dubbed) ELSE Head(group)
  BY <1>1, <1>2, <1>4, <1>5
<1>7. dubbed # <<>> => Head(dubbed) \in ToSet(group) /\ Head(dubbed).d = dub
  BY <1>1, DubbedFacts
<1>8. dub # 0 /\ (\E f \in ToSet(group) : f.d = dub) => dubbed # <<>>
  BY <1>1, DubbedFacts
<1>9. Head(group) \in ToSet(group)
  BY <1>1, HeadFacts
<1> HIDE DEF dubbed
<1> QED BY <1>6, <1>7, <1>8, <1>9 DEF group, pick

LEMMA KinotronReal ==
    ASSUME NEW s, Possible("kinotron", s), NEW pos, NEW dub, NEW ans
    PROVE  Real("kinotron", s, KinotronStream(s, pos, dub, ans))
<1> DEFINE files == KinotronFiles(s)
           pick == KinotronSelect(files, pos, dub)
           media == KinotronStream(s, pos, dub, ans)
<1>1. media.code = "ok" => pick # NoFile /\ media.file = pick
  BY MediaFacts DEF KinotronStream
<1>2. files \in Seq(File) /\ \A f \in ToSet(files) : f \in ToSet(s.files) \cup {NoFile, RawText}
  BY KinotronFilesFacts
<1> HIDE DEF files, media
<1>3. pick = NoFile \/ pick \in ToSet(files)
  BY <1>2, KinotronSelected
<1> HIDE DEF pick
<1>4. Real("kinotron", s, media)
  BY <1>1, <1>2, <1>3 DEF Real, Trusting
<1> QED BY <1>4 DEF media

\* The row of a title is about a file of it.
LEMMA KinotronRow ==
    ASSUME NEW s, Possible("kinotron", s), ~PartlyNamed(s), NEW row \in KinotronSeasons(s)
    PROVE  \E i \in DOMAIN TitleGroups(KinotronFiles(s)) : \E j \in DOMAIN TitleGroups(KinotronFiles(s))[i] :
              LET group == TitleGroups(KinotronFiles(s))[i][j]
              IN  /\ row.at = <<i, j>>
                  /\ \E g \in ToSet(group) : row.says.s = g.s /\ row.says.e = g.e
                  /\ \A dub \in row.dubs : dub = Uk \/ \E g \in ToSet(group) : g.d = dub
<1> DEFINE files == KinotronFiles(s)
           named == Renamed(files)
           About(group) == {n \in DOMAIN files : Named(files[n]) = Head(group)}
           Dubs(group) == {IF f.d = 0 THEN Uk ELSE f.d : f \in ToSet(group)}
           u == TitleGroups(named)
           t == TitleGroups(files)
<1>1. row \in UNION {{[at |-> <<i, j>>, says |-> Head(Picked(files, About(u[i][j]))),
                       dubs |-> Dubs(u[i][j])] : j \in DOMAIN u[i]} : i \in DOMAIN u}
  BY Zenon DEF KinotronSeasons, TitleGroups, Renamed, Named, Row, Those
<1>2. files \in Seq(File) /\ Apart(files, "s")
  BY KinotronFilesFacts
<1> HIDE DEF files
<1>3. /\ DOMAIN u = DOMAIN t
      /\ \A i \in DOMAIN t : /\ DOMAIN u[i] = DOMAIN t[i]
                             /\ \A j \in DOMAIN t[i] : u[i][j] = Renamed(t[i][j])
  BY <1>2, TitleGroupsAlike
<1>4. \A i \in DOMAIN t : \A j \in DOMAIN t[i] :
         t[i][j] \in Seq(File) /\ t[i][j] # <<>> /\ ToSet(t[i][j]) \subseteq ToSet(files)
  BY <1>2, TitleGroupsFacts
<1> HIDE DEF u, t
<1>5. PICK i \in DOMAIN t : \E j \in DOMAIN t[i] :
         /\ row.at = <<i, j>> /\ row.says = Head(Picked(files, About(u[i][j])))
         /\ row.dubs = Dubs(u[i][j])
  <2> HIDE DEF About, Dubs
  <2> QED BY <1>1, <1>3
<1>6. PICK j \in DOMAIN t[i] :
         /\ row.at = <<i, j>> /\ row.says = Head(Picked(files, About(u[i][j])))
         /\ row.dubs = Dubs(u[i][j])
  BY <1>5
<1> DEFINE group == t[i][j]
           about == About(Renamed(group))
<1>7. /\ group \in Seq(File) /\ group # <<>> /\ ToSet(group) \subseteq ToSet(files)
      /\ u[i][j] = Renamed(group)
  BY <1>3, <1>4
<1> HIDE DEF group
<1>8. /\ Head(group) \in ToSet(group) /\ Head(Renamed(group)) = Named(Head(group))
      /\ ToSet(Renamed(group)) = {Named(f) : f \in ToSet(group)}
  <2>1. /\ Renamed(group) \in Seq(File) /\ DOMAIN Renamed(group) = DOMAIN group
        /\ \A n \in DOMAIN group : Renamed(group)[n] = Named(group[n])
        /\ ToSet(Renamed(group)) = {Named(f) : f \in ToSet(group)}
    BY <1>7, RenamedFacts
  <2>2. 1 \in DOMAIN group /\ Head(group) = group[1] /\ Head(group) \in ToSet(group)
    BY <1>7, HeadFacts
  <2>3. Head(Renamed(group)) = Renamed(group)[1]
    BY <2>1, <2>2
  <2> QED BY <2>1, <2>2, <2>3
<1>9. \A f \in ToSet(files) : f \in File
  BY <1>2 DEF ToSet
<1>10. row.says \in ToSet(files) /\ Named(row.says) = Named(Head(group))
  <2>1. about \in SUBSET (DOMAIN files) /\ \A n \in about : Named(files[n]) = Named(Head(group))
    BY <1>8
  <2>2. Head(group) \in ToSet(files)
    BY <1>7, <1>8
  <2>3. PICK n \in DOMAIN files : files[n] = Head(group)
    BY <2>2 DEF ToSet
  <2>4. n \in about
    BY <1>8, <2>3
  <2>5. row.says = Head(Picked(files, about))
    BY <1>6, <1>7
  <2> HIDE DEF about
  <2>6. /\ Picked(files, about) \in Seq(File) /\ ToSet(Picked(files, about)) \subseteq ToSet(files)
        /\ files[n] \in ToSet(Picked(files, about))
        /\ \A f \in ToSet(Picked(files, about)) : \E m \in about : f = files[m]
        /\ Picked(files, about) # <<>> => Head(Picked(files, about)) \in ToSet(Picked(files, about))
    BY <1>2, <2>1, <2>4, ThoseFacts
  <2>7. Picked(files, about) # <<>>
    BY <2>6 DEF ToSet
  <2>8. row.says \in ToSet(Picked(files, about))
    BY <2>5, <2>6, <2>7
  <2> QED BY <2>1, <2>6, <2>8
<1>11. row.says.s = Head(group).s /\ row.says.e = Head(group).e
  <2>1. Head(group) \in ToSet(files) /\ Head(group) \in File /\ row.says \in File
    BY <1>7, <1>8, <1>9, <1>10
  <2>2. Named(row.says)["s"] = Named(Head(group))["s"] <=> row.says["s"] = Head(group)["s"]
    BY <1>2, <1>10, <2>1 DEF Apart
  <2>3. Named(row.says).e = row.says.e /\ Named(Head(group)).e = Head(group).e
    BY <2>1, NamedFacts
  <2> QED BY <1>10, <2>2, <2>3
<1>12. ASSUME NEW dub \in row.dubs PROVE dub = Uk \/ \E g \in ToSet(group) : g.d = dub
  <2>1. dub \in Dubs(Renamed(group))
    BY <1>6, <1>7
  <2>2. PICK f \in ToSet(Renamed(group)) : dub = IF f.d = 0 THEN Uk ELSE f.d
    BY <2>1
  <2>3. PICK g \in ToSet(group) : f = Named(g)
    BY <1>8, <2>2
  <2>4. f.d = g.d
    BY <1>7, <1>9, <2>3, NamedFacts
  <2> QED BY <2>2, <2>3, <2>4
<1> QED BY <1>6, <1>8, <1>11, <1>12 DEF group, t, files

LEMMA KinotronPlays ==
    ASSUME NEW s, Possible("kinotron", s), NEW listed, NEW ans,
           NEW row \in KinotronContent(s, listed).rows, NEW dub \in row.dubs \cup {0}
    PROVE  /\ Right("kinotron", s, row, dub, KinotronStream(s, row.at, dub, ans))
           /\ Alive("kinotron", s, row, dub, KinotronStream(s, row.at, dub, AllUp))
<1> DEFINE files == KinotronFiles(s)
           pick == KinotronSelect(files, row.at, dub)
           codes(a) == <<Lenient(a.page), Unless(s.player \notin {"none", "youtube"}, "parse_failed"),
                         Lenient(a.player), Unless(files # <<>>, "parse_failed")>>
           media(a) == KinotronStream(s, row.at, dub, a)
<1>1. /\ s.files \in Seq(File)
      /\ \A f \in ToSet(s.files) : f # NoFile /\ f.d # Uk
  BY SiteFacts
<1>2. s.series /\ row \in KinotronSeasons(s)
  BY DetailFacts DEF KinotronContent, Detail
<1>3. /\ files \in Seq(File) /\ (s.payload = "list" => ToSet(files) = ToSet(s.files))
      /\ \A f \in ToSet(files) : f.d # Uk
  BY KinotronFilesFacts
<1>4. ASSUME ~PartlyNamed(s) PROVE Meant(s, row, dub, pick) /\ pick \in ToSet(files)
  <2>1. PICK i \in DOMAIN TitleGroups(files) : \E j \in DOMAIN TitleGroups(files)[i] :
           LET group == TitleGroups(files)[i][j]
           IN  /\ row.at = <<i, j>>
               /\ \E g \in ToSet(group) : row.says.s = g.s /\ row.says.e = g.e
               /\ \A d \in row.dubs : d = Uk \/ \E g \in ToSet(group) : g.d = d
    BY <1>2, <1>4, KinotronRow
  <2> HIDE DEF files, pick
  <2>2. PICK j \in DOMAIN TitleGroups(files)[i] :
           /\ row.at = <<i, j>>
           /\ \E g \in ToSet(TitleGroups(files)[i][j]) : row.says.s = g.s /\ row.says.e = g.e
           /\ \A d \in row.dubs : d = Uk \/ \E g \in ToSet(TitleGroups(files)[i][j]) : g.d = d
    BY <2>1
  <2> DEFINE group == TitleGroups(files)[i][j]
  <2>3. /\ ToSet(group) \subseteq ToSet(files)
        /\ \A f, g \in ToSet(group) : f.s = g.s /\ f.e = g.e
    BY <1>3, TitleGroupsFacts
  <2>4. /\ pick \in ToSet(group)
        /\ dub # 0 /\ (\E f \in ToSet(group) : f.d = dub) => pick.d = dub
    BY <1>3, <2>2, KinotronTitle DEF pick
  <2>5. dub = 0 \/ dub = Uk \/ pick.d = dub
    BY <2>2, <2>4
  <2> HIDE DEF group
  <2>6. pick.s = row.says.s /\ pick.e = row.says.e /\ pick \in ToSet(files)
    BY <2>2, <2>3, <2>4 DEF group
  <2> QED BY <1>1, <2>5, <2>6 DEF Meant
<1>5. \A a : /\ media(a).code = "ok" => media(a).file = pick
             /\ Refusal(codes(a)) = "ok" /\ pick # NoFile => media(a).code = "ok"
  <2> SUFFICES ASSUME NEW a
               PROVE  /\ media(a).code = "ok" => media(a).file = pick
                      /\ Refusal(codes(a)) = "ok" /\ pick # NoFile => media(a).code = "ok"
    OBVIOUS
  <2> DEFINE code == Refusal(codes(a))
  <2>1. media(a) = IF code # "ok" THEN Media(code, NoFile)
                   ELSE IF pick = NoFile THEN Media("not_found", NoFile) ELSE Media("ok", pick)
    BY Zenon DEF KinotronStream
  <2> HIDE DEF code, media, pick
  <2>2. /\ Media(code, NoFile).code # "ok" /\ Media("not_found", NoFile).code # "ok"
        /\ pick # NoFile => Media("ok", pick).code = "ok"
        /\ Media("ok", pick).code = "ok" => Media("ok", pick).file = pick
    BY MediaFacts
  <2> QED BY <2>1, <2>2 DEF code
<1> HIDE DEF pick
<1>6. ASSUME Intact(s), ~PartlyNamed(s) PROVE Refusal(codes(AllUp)) = "ok" /\ pick # NoFile
  <2>1. s.payload = "list" /\ s.player \notin {"none", "youtube"}
    BY <1>2, <1>6 DEF Intact
  <2>2. pick # NoFile /\ files # <<>>
    <3> HIDE DEF files
    <3>1. pick \in ToSet(files) /\ ToSet(files) = ToSet(s.files)
      BY <1>3, <1>4, <1>6, <2>1
    <3>2. files = <<>> => ToSet(files) = {}
      BY DEF ToSet
    <3> QED BY <1>1, <3>1, <3>2
  <2> HIDE DEF files
  <2>3. codes(AllUp) = <<"ok", "ok", "ok", "ok">>
    BY <2>1, <2>2, UpFacts
  <2> HIDE DEF codes
  <2> QED BY <2>2, <2>3, NoneRefused
<1> HIDE DEF codes, media
<1>7. Right("kinotron", s, row, dub, media(ans))
  BY <1>4, <1>5 DEF Right, Misnumbered
<1>8. Alive("kinotron", s, row, dub, media(AllUp))
  BY <1>5, <1>6 DEF Alive, DeadRows
<1> QED BY <1>7, <1>8 DEF media

-----------------------------------------------------------------------------
(* Every lane.                                                                 *)

\* Whatever is pressed, what plays is a file of the title.
LEMMA LaneReal ==
    ASSUME NEW l \in Lanes, NEW s, Possible(l, s), NEW pos, NEW dub, NEW ans
    PROVE  Real(l, s, Stream(l, s, pos, dub, ans))
<1>1. CASE l = "serialno"
  BY <1>1, SerialnoReal DEF Stream
<1>2. CASE l = "kinovezha"
  BY <1>2, KinovezhaReal DEF Stream
<1>3. CASE l = "uaserialspro"
  BY <1>3, UaserialsproReal DEF Stream
<1>4. CASE l = "kinotron"
  BY <1>4, KinotronReal DEF Stream
<1>5. CASE l = "klontv"
  BY <1>5, KlontvReal DEF Stream
<1>6. CASE l = "eneyida"
  BY <1>6, EneyidaReal DEF Stream
<1>7. CASE l = "uaflix"
  BY <1>7, UaflixReal DEF Stream
<1>8. CASE l = "animeon"
  BY <1>8, AnimeonReal DEF Stream
<1>9. CASE l = "anitubeinua"
  BY <1>9, AnitubeReal DEF Stream
<1>10. CASE l = "animeua"
  BY <1>10, AnimeuaReal DEF Stream
<1>11. CASE l = "unimay"
  BY <1>11, UnimayReal DEF Stream
<1>12. CASE l = "coaninet"
  BY <1>12, CoaninetReal DEF Stream
<1>13. CASE l = "hentaiukr"
  BY <1>13, HentaiukrReal DEF Stream
<1>14. CASE l = "cikavaideya"
  BY <1>14, CikavaReal DEF Stream
<1>15. CASE l = "ufdub"
  BY <1>15, UfdubReal DEF Stream
<1>16. CASE l = "doramyworld"
  BY <1>16, DoramyReal DEF Stream
<1>17. CASE l = "bambooua"
  BY <1>17, BambooReal DEF Stream
<1>18. CASE l = "simpsonsuatv"
  BY <1>18, SimpsonsReal DEF Stream
<1>19. CASE l = "uakino"
  BY <1>19, UakinoReal DEF Stream
<1> QED BY <1>1, <1>2, <1>3, <1>4, <1>5, <1>6, <1>7, <1>8, <1>9, <1>10,
           <1>11, <1>12, <1>13, <1>14, <1>15, <1>16, <1>17, <1>18, <1>19 DEF Lanes

\* A row that was listed plays its own episode, and plays while the upstream is up.
LEMMA LanePlays ==
    ASSUME NEW l \in Lanes, NEW s, Possible(l, s), NEW listed, NEW ans,
           NEW row \in Content(l, s, listed).rows, NEW dub \in row.dubs \cup {0}
    PROVE  /\ Right(l, s, row, dub, Stream(l, s, row.at, dub, ans))
           /\ Alive(l, s, row, dub, Stream(l, s, row.at, dub, AllUp))
<1>1. CASE l = "serialno"
  <2>1. row \in SerialnoContent(s, listed).rows /\ Possible("serialno", s)
    BY <1>1 DEF Content
  <2>2. /\ Right("serialno", s, row, dub, SerialnoStream(s, row.at, dub, ans))
        /\ Alive("serialno", s, row, dub, SerialnoStream(s, row.at, dub, AllUp))
    BY <2>1, SerialnoPlays
  <2> QED BY <1>1, <2>2 DEF Stream
<1>2. CASE l = "kinovezha"
  <2>1. row \in KinovezhaContent(s, listed).rows /\ Possible("kinovezha", s)
    BY <1>2 DEF Content
  <2>2. /\ Right("kinovezha", s, row, dub, KinovezhaStream(s, row.at, dub, ans))
        /\ Alive("kinovezha", s, row, dub, KinovezhaStream(s, row.at, dub, AllUp))
    BY <2>1, KinovezhaPlays
  <2> QED BY <1>2, <2>2 DEF Stream
<1>3. CASE l = "uaserialspro"
  <2>1. row \in UaserialsproContent(s, listed).rows /\ Possible("uaserialspro", s)
    BY <1>3 DEF Content
  <2>2. /\ Right("uaserialspro", s, row, dub, UaserialsproStream(s, row.at, dub, ans))
        /\ Alive("uaserialspro", s, row, dub, UaserialsproStream(s, row.at, dub, AllUp))
    BY <2>1, UaserialsproPlays
  <2> QED BY <1>3, <2>2 DEF Stream
<1>4. CASE l = "kinotron"
  <2>1. row \in KinotronContent(s, listed).rows /\ Possible("kinotron", s)
    BY <1>4 DEF Content
  <2>2. /\ Right("kinotron", s, row, dub, KinotronStream(s, row.at, dub, ans))
        /\ Alive("kinotron", s, row, dub, KinotronStream(s, row.at, dub, AllUp))
    BY <2>1, KinotronPlays
  <2> QED BY <1>4, <2>2 DEF Stream
<1>5. CASE l = "klontv"
  <2>1. row \in KlontvContent(s, listed).rows /\ Possible("klontv", s)
    BY <1>5 DEF Content
  <2>2. /\ Right("klontv", s, row, dub, KlontvStream(s, row.at, dub, ans))
        /\ Alive("klontv", s, row, dub, KlontvStream(s, row.at, dub, AllUp))
    BY <2>1, KlontvPlays
  <2> QED BY <1>5, <2>2 DEF Stream
<1>6. CASE l = "eneyida"
  <2>1. row \in EneyidaContent(s, listed).rows /\ Possible("eneyida", s)
    BY <1>6 DEF Content
  <2>2. /\ Right("eneyida", s, row, dub, EneyidaStream(s, row.at, dub, ans))
        /\ Alive("eneyida", s, row, dub, EneyidaStream(s, row.at, dub, AllUp))
    BY <2>1, EneyidaPlays
  <2> QED BY <1>6, <2>2 DEF Stream
<1>7. CASE l = "uaflix"
  <2>1. row \in UaflixContent(s, listed).rows /\ Possible("uaflix", s)
    BY <1>7 DEF Content
  <2>2. /\ Right("uaflix", s, row, dub, UaflixStream(s, row.at, dub, ans))
        /\ Alive("uaflix", s, row, dub, UaflixStream(s, row.at, dub, AllUp))
    BY <2>1, UaflixPlays
  <2> QED BY <1>7, <2>2 DEF Stream
<1>8. CASE l = "animeon"
  <2>1. row \in AnimeonContent(s, listed).rows /\ Possible("animeon", s)
    BY <1>8 DEF Content
  <2>2. /\ Right("animeon", s, row, dub, AnimeonStream(s, row.at, dub, ans))
        /\ Alive("animeon", s, row, dub, AnimeonStream(s, row.at, dub, AllUp))
    BY <2>1, AnimeonPlays
  <2> QED BY <1>8, <2>2 DEF Stream
<1>9. CASE l = "anitubeinua"
  <2>1. row \in AnitubeContent(s, listed).rows /\ Possible("anitubeinua", s)
    BY <1>9 DEF Content
  <2>2. /\ Right("anitubeinua", s, row, dub, AnitubeStream(s, row.at, dub, ans))
        /\ Alive("anitubeinua", s, row, dub, AnitubeStream(s, row.at, dub, AllUp))
    BY <2>1, AnitubePlays
  <2> QED BY <1>9, <2>2 DEF Stream
<1>10. CASE l = "animeua"
  <2>1. row \in AnimeuaContent(s, listed).rows /\ Possible("animeua", s)
    BY <1>10 DEF Content
  <2>2. /\ Right("animeua", s, row, dub, AnimeuaStream(s, row.at, dub, ans))
        /\ Alive("animeua", s, row, dub, AnimeuaStream(s, row.at, dub, AllUp))
    BY <2>1, AnimeuaPlays
  <2> QED BY <1>10, <2>2 DEF Stream
<1>11. CASE l = "unimay"
  <2>1. row \in UnimayContent(s, listed).rows /\ Possible("unimay", s)
    BY <1>11 DEF Content
  <2>2. /\ Right("unimay", s, row, dub, UnimayStream(s, row.at, dub, ans))
        /\ Alive("unimay", s, row, dub, UnimayStream(s, row.at, dub, AllUp))
    BY <2>1, UnimayPlays
  <2> QED BY <1>11, <2>2 DEF Stream
<1>12. CASE l = "coaninet"
  <2>1. row \in CoaninetContent(s, listed).rows /\ Possible("coaninet", s)
    BY <1>12 DEF Content
  <2>2. /\ Right("coaninet", s, row, dub, CoaninetStream(s, row.at, dub, ans))
        /\ Alive("coaninet", s, row, dub, CoaninetStream(s, row.at, dub, AllUp))
    BY <2>1, CoaninetPlays
  <2> QED BY <1>12, <2>2 DEF Stream
<1>13. CASE l = "hentaiukr"
  <2>1. row \in HentaiukrContent(s, listed).rows /\ Possible("hentaiukr", s)
    BY <1>13 DEF Content
  <2>2. /\ Right("hentaiukr", s, row, dub, HentaiukrStream(s, row.at, dub, ans))
        /\ Alive("hentaiukr", s, row, dub, HentaiukrStream(s, row.at, dub, AllUp))
    BY <2>1, HentaiukrPlays
  <2> QED BY <1>13, <2>2 DEF Stream
<1>14. CASE l = "cikavaideya"
  <2>1. row \in CikavaContent(s, listed).rows /\ Possible("cikavaideya", s)
    BY <1>14 DEF Content
  <2>2. /\ Right("cikavaideya", s, row, dub, CikavaStream(s, row.at, dub, ans))
        /\ Alive("cikavaideya", s, row, dub, CikavaStream(s, row.at, dub, AllUp))
    BY <2>1, CikavaPlays
  <2> QED BY <1>14, <2>2 DEF Stream
<1>15. CASE l = "ufdub"
  <2>1. row \in UfdubContent(s, listed).rows /\ Possible("ufdub", s)
    BY <1>15 DEF Content
  <2>2. /\ Right("ufdub", s, row, dub, UfdubStream(s, row.at, dub, ans))
        /\ Alive("ufdub", s, row, dub, UfdubStream(s, row.at, dub, AllUp))
    BY <2>1, UfdubPlays
  <2> QED BY <1>15, <2>2 DEF Stream
<1>16. CASE l = "doramyworld"
  <2>1. row \in DoramyContent(s, listed).rows /\ Possible("doramyworld", s)
    BY <1>16 DEF Content
  <2>2. /\ Right("doramyworld", s, row, dub, DoramyStream(s, row.at, dub, ans))
        /\ Alive("doramyworld", s, row, dub, DoramyStream(s, row.at, dub, AllUp))
    BY <2>1, DoramyPlays
  <2> QED BY <1>16, <2>2 DEF Stream
<1>17. CASE l = "bambooua"
  <2>1. row \in BambooContent(s, listed).rows /\ Possible("bambooua", s)
    BY <1>17 DEF Content
  <2>2. /\ Right("bambooua", s, row, dub, BambooStream(s, row.at, dub, ans))
        /\ Alive("bambooua", s, row, dub, BambooStream(s, row.at, dub, AllUp))
    BY <2>1, BambooPlays
  <2> QED BY <1>17, <2>2 DEF Stream
<1>18. CASE l = "simpsonsuatv"
  <2>1. row \in SimpsonsContent(s, listed).rows /\ Possible("simpsonsuatv", s)
    BY <1>18 DEF Content
  <2>2. /\ Right("simpsonsuatv", s, row, dub, SimpsonsStream(s, row.at, dub, ans))
        /\ Alive("simpsonsuatv", s, row, dub, SimpsonsStream(s, row.at, dub, AllUp))
    BY <2>1, SimpsonsPlays
  <2> QED BY <1>18, <2>2 DEF Stream
<1>19. CASE l = "uakino"
  <2>1. row \in UakinoContent(s, listed).rows /\ Possible("uakino", s)
    BY <1>19 DEF Content
  <2>2. /\ Right("uakino", s, row, dub, UakinoStream(s, row.at, dub, ans))
        /\ Alive("uakino", s, row, dub, UakinoStream(s, row.at, dub, AllUp))
    BY <2>1, UakinoPlays
  <2> QED BY <1>19, <2>2 DEF Stream
<1> QED BY <1>1, <1>2, <1>3, <1>4, <1>5, <1>6, <1>7, <1>8, <1>9, <1>10,
           <1>11, <1>12, <1>13, <1>14, <1>15, <1>16, <1>17, <1>18, <1>19 DEF Lanes

-----------------------------------------------------------------------------
(* What is held and what was pressed, step by step.                            *)

\* The title is possible, and so is what was listed of it. Until the upstream
\* changes it they are the same.
Followed ==
    /\ lane \in DOMAIN Sites /\ Possible(lane, site) /\ Possible(lane, held.of)
    /\ held.change = "none" => held.of = site

\* The rows that are held were listed, ...
HeldWasListed ==
    held.code = "ok" => \E listed \in Answers(lane) : held.rows = Content(lane, held.of, listed).rows

\* ... and the answer that was got is that of a press of one of them, or of the
\* bare title.
GotWasPressed ==
    got = NoPress \/
        /\ held.code = "ok"
        /\ got.row = Bare \/ (got.row \in held.rows /\ got.dub \in got.row.dubs \cup {0})
        /\ \E ans \in Answers(lane) :
              LET media == Stream(lane, Minted(got.row.at), got.row.at, got.dub, ans)
              IN  /\ got.code = media.code /\ got.file = media.file
                  /\ got.up => ans = AllUp

PressInv == Followed /\ HeldWasListed /\ GotWasPressed

\* The newest episode of a season has a number, and none of it has a later one.
LEMMA NewestFacts ==
    ASSUME NEW files \in Seq(File), NEW f \in ToSet(files)
    PROVE  LET season == {g \in ToSet(files) : g.s = f.s /\ g.d = f.d}
               newest == CHOOSE e \in {g.e : g \in season} : \A g \in season : g.e <= e
           IN  newest \in Nat /\ \A g \in season : g.e <= newest
<1> DEFINE season == {g \in ToSet(files) : g.s = f.s /\ g.d = f.d}
           I == {i \in DOMAIN files : files[i] \in season}
           Num(i) == files[i].e
           R == {p \in I \X I : Num(p[2]) < Num(p[1]) \/ (Num(p[1]) = Num(p[2]) /\ p[1] < p[2])}
<1>1. /\ I \subseteq Nat /\ IsFiniteSet(I)
      /\ \A i \in I : Num(i) \in Nat
  <2>1. DOMAIN files = 1 .. Len(files) /\ Len(files) \in Nat
    OBVIOUS
  <2>2. IsFiniteSet(1 .. Len(files)) /\ I \subseteq 1 .. Len(files)
    BY <2>1, FS_Interval
  <2>3. IsFiniteSet(I)
    BY <2>2, FS_Subset, Zenon
  <2>4. \A i \in I : files[i] \in File
    BY <2>1
  <2>5. \A i \in I : Num(i) \in Nat
    BY <2>4 DEF File
  <2> QED BY <2>2, <2>3, <2>5
<1>2. \A g : g \in season <=> \E i \in I : g = files[i]
  <2>1. ToSet(files) = {files[i] : i \in DOMAIN files}
    BY Zenon DEF ToSet
  <2> QED BY <2>1
<1>3. I # {}
  <2>1. f \in season
    OBVIOUS
  <2> QED BY <1>2, <2>1
<1>4. \A i, j \in I : <<i, j>> \in R <=> Num(j) < Num(i) \/ (Num(i) = Num(j) /\ i < j)
  OBVIOUS
<1>5. {g.e : g \in season} = {Num(i) : i \in I}
  BY <1>2
<1> HIDE DEF R, I, season
<1>6. Orders(R, I)
  <2>1. ASSUME NEW i \in I, NEW j \in I PROVE i = j \/ <<i, j>> \in R \/ <<j, i>> \in R
    <3>1. i \in Nat /\ j \in Nat /\ Num(i) \in Nat /\ Num(j) \in Nat
      BY <1>1
    <3> HIDE DEF Num
    <3>2. \/ Num(j) < Num(i) \/ Num(i) < Num(j)
          \/ Num(i) = Num(j) /\ (i < j \/ j < i \/ i = j)
      BY <3>1
    <3> QED BY <1>4, <3>2
  <2> HIDE DEF Num
  <2>2. \A i \in I : <<i, i>> \notin R
    BY <1>1, <1>4
  <2>3. \A i, j, k \in I : <<i, j>> \in R /\ <<j, k>> \in R => <<i, k>> \in R
    BY <1>1, <1>4
  <2> QED BY <2>1, <2>2, <2>3 DEF Orders
<1>7. PICK b \in I : \A j \in I : j = b \/ <<b, j>> \in R
  BY <1>1, <1>3, <1>6, Foremost
<1>8. ASSUME NEW g \in season PROVE g.e <= Num(b)
  <2>1. PICK j \in I : g = files[j]
    BY <1>2
  <2>2. j = b \/ Num(j) < Num(b) \/ Num(b) = Num(j)
    BY <1>4, <1>7
  <2>3. Num(j) \in Nat /\ Num(b) \in Nat /\ g.e = Num(j)
    BY <1>1, <2>1
  <2> HIDE DEF Num
  <2> QED BY <2>2, <2>3
<1>9. Num(b) \in {g.e : g \in season}
  BY <1>5
<1> DEFINE newest == CHOOSE e \in {g.e : g \in season} : \A g \in season : g.e <= e
<1>10. newest \in {g.e : g \in season} /\ \A g \in season : g.e <= newest
  <2> HIDE DEF Num
  <2> QED BY <1>8, <1>9, Zenon
<1>11. {g.e : g \in season} \subseteq Nat
  BY <1>1, <1>5
<1>12. newest \in Nat /\ \A g \in season : g.e <= newest
  <2> HIDE DEF newest
  <2> QED BY <1>10, <1>11
<1> QED BY <1>12, Zenon DEF season, newest

\* An episode added to a title leaves it one that a provider may meet, ...
LEMMA PossibleGrown ==
    ASSUME NEW l, NEW s, Possible(l, s), s.series, NEW f \in ToSet(s.files), NEW n \in Nat,
           NEW t, t = [s EXCEPT !.files = Append(@, [f EXCEPT !.e = n + 1])]
    PROVE  Possible(l, t)
<1> DEFINE new == [f EXCEPT !.e = n + 1]
<1>1. s \in Title /\ s.files \in Seq(File)
  BY DEF Possible, Title
<1>2. \A g \in ToSet(s.files) : g \in File
  BY <1>1 DEF ToSet
<1>3. new \in File /\ new.s = f.s /\ new.d = f.d /\ new.e # 0
  BY <1>2 DEF File
<1>4. t \in Title /\ t.files = Append(s.files, new) /\ t.series
  <2>1. Append(s.files, new) \in Seq(File)
    BY <1>1, <1>3
  <2> HIDE DEF new
  <2>2. t = [s EXCEPT !.files = Append(s.files, new)]
    BY DEF new
  <2> QED BY <1>1, <2>1, <2>2 DEF Title
<1> HIDE DEF new
<1>5. \A g \in ToSet(t.files) : g \in ToSet(s.files) \/ g = new
  BY <1>1, <1>3, <1>4 DEF ToSet
<1>6. \A g \in ToSet(t.files) : (g.s # 0 \/ g.e # 0) /\ g.d # Uk
  BY <1>3, <1>5 DEF Possible
<1>7. \A g, h \in ToSet(t.files) : /\ l \in Seasonless => g.s = h.s
                                   /\ l = "cikavaideya" => g.d = h.d
  <2>1. \A g, h \in ToSet(s.files) : /\ l \in Seasonless => g.s = h.s
                                     /\ l = "cikavaideya" => g.d = h.d
    BY DEF Possible
  <2> QED BY <1>3, <1>5, <2>1
<1>8. \A g, h \in ToSet(t.files) : /\ l \in Seasonless => g.s = h.s
                                   /\ l = "animeon" /\ ~t.series => g.e = h.e
                                   /\ l = "cikavaideya" => g.d = h.d
  BY <1>4, <1>7
<1> QED BY <1>4, <1>6, <1>8 DEF Possible

\* ... and so does a file taken down.
LEMMA PossibleShrunk ==
    ASSUME NEW l, NEW s, Possible(l, s), NEW i \in DOMAIN s.files,
           NEW t, t = [s EXCEPT !.files = RemoveAt(@, i)]
    PROVE  Possible(l, t)
<1> DEFINE fs == RemoveAt(s.files, i)
<1>1. s \in Title /\ s.files \in Seq(File) /\ i \in 1 .. Len(s.files)
  BY DEF Possible, Title
<1>2. fs = SubSeq(s.files, 1, i - 1) \o SubSeq(s.files, i + 1, Len(s.files))
  BY DEF RemoveAt
<1>3. fs \in Seq(File) /\ ToSet(fs) \subseteq ToSet(s.files)
  <2> DEFINE p == SubSeq(s.files, 1, i - 1)
             q == SubSeq(s.files, i + 1, Len(s.files))
  <2>1. /\ p \in Seq(File) /\ \A j \in 1 .. Len(p) : p[j] \in ToSet(s.files)
        /\ q \in Seq(File) /\ \A j \in 1 .. Len(q) : q[j] \in ToSet(s.files)
    BY <1>1 DEF ToSet
  <2> HIDE DEF p, q
  <2>2. fs = p \o q
    BY <1>2 DEF p, q
  <2> HIDE DEF fs
  <2>3. fs \in Seq(File) /\ \A j \in 1 .. Len(fs) : fs[j] \in ToSet(s.files)
    BY <2>1, <2>2
  <2> QED BY <2>3 DEF ToSet
<1> HIDE DEF fs
<1>4. t \in Title /\ t.files = fs /\ t.series = s.series
  <2>1. t = [s EXCEPT !.files = fs]
    BY DEF fs
  <2> QED BY <1>1, <1>3, <2>1 DEF Title
<1> QED BY <1>3, <1>4 DEF Possible

LEMMA PressStart == ScrapersInit => PressInv
<1> SUFFICES ASSUME ScrapersInit PROVE PressInv
  OBVIOUS
<1> USE DEF ScrapersInit
<1>1. lane \in DOMAIN Sites /\ Possible(lane, site)
  BY LanesAssumption
<1>2. held.of = site /\ held.code = "none" /\ got = NoPress
  BY DEF NothingHeld
<1> QED BY <1>1, <1>2 DEF PressInv, Followed, HeldWasListed, GotWasPressed

\* A change of the upstream forgets the press and keeps what is listed.
LEMMA ChangeKeepsPressInv ==
    ASSUME PressInv, HeldAsTold, Possible(lane, site'), got' = NoPress, lane' = lane,
           NEW change, change # "none", held' = [held EXCEPT !.change = change]
    PROVE  PressInv'
<1>1. held'.code = held.code /\ held'.rows = held.rows /\ held'.of = held.of /\ held'.change = change
  BY DEF HeldAsTold
<1>2. Followed'
  BY <1>1 DEF PressInv, Followed
<1>3. HeldWasListed'
  BY <1>1 DEF PressInv, HeldWasListed
<1> QED BY <1>2, <1>3 DEF PressInv, GotWasPressed

LEMMA PressStep == ToldInv /\ PressInv /\ [ScrapersNext]_scraperVars => PressInv'
<1> SUFFICES ASSUME ToldInv, PressInv, [ScrapersNext]_scraperVars PROVE PressInv'
  OBVIOUS
<1>0. /\ Followed /\ HeldWasListed /\ GotWasPressed /\ HeldAsTold
      /\ lane \in DOMAIN Sites /\ Possible(lane, site)
  BY DEF PressInv, Followed, ToldInv
<1>1. CASE Find
  BY <1>0, <1>1 DEF Find, PressInv, Followed, HeldWasListed, GotWasPressed, Minted
<1>2. CASE Open
  <2>1. PICK card \in shown.cards, ans \in Answers(lane) :
           LET detail == IF card \in {"own", "alias"} THEN Content(lane, site, ans)
                         ELSE Detail("not_found", {})
           IN  held' = [code |-> detail.code, rows |-> detail.rows, of |-> site,
                        outage |-> Outage(ans), refused |-> Refused(ans), change |-> "none"]
    BY <1>2 DEF Open
  <2>2. got' = NoPress /\ lane' = lane /\ site' = site
    BY <1>2 DEF Open
  <2>3. /\ held'.of = site
        /\ card \in {"own", "alias"} => held'.rows = Content(lane, site, ans).rows
        /\ card \notin {"own", "alias"} => held'.code = Detail("not_found", {}).code
    BY <2>1
  <2>4. Detail("not_found", {}).code = "not_found"
    BY DEF Detail
  <2>5. Followed'
    BY <1>0, <2>2, <2>3 DEF Followed
  <2>6. HeldWasListed'
    BY <2>2, <2>3, <2>4 DEF HeldWasListed
  <2> QED BY <2>2, <2>5, <2>6 DEF PressInv, GotWasPressed
<1>3. CASE Press
  <2>1. UNCHANGED <<lane, site, shown, held>> /\ held.code = "ok"
    BY <1>3 DEF Press
  <2>2. PICK row \in IF held.rows = {} THEN {Bare} ELSE held.rows : \E dub \in row.dubs \cup {0} :
           \E ans \in Answers(lane) :
              LET media == Stream(lane, Minted(row.at), row.at, dub, ans)
              IN  got' = [row |-> row, dub |-> dub, code |-> media.code, file |-> media.file,
                          up |-> ans = AllUp]
    BY <1>3 DEF Press
  <2>3. PICK dub \in row.dubs \cup {0} : \E ans \in Answers(lane) :
              LET media == Stream(lane, Minted(row.at), row.at, dub, ans)
              IN  got' = [row |-> row, dub |-> dub, code |-> media.code, file |-> media.file,
                          up |-> ans = AllUp]
    BY <2>2
  <2>4. PICK ans \in Answers(lane) :
              LET media == Stream(lane, Minted(row.at), row.at, dub, ans)
              IN  got' = [row |-> row, dub |-> dub, code |-> media.code, file |-> media.file,
                          up |-> ans = AllUp]
    BY <2>3
  <2> DEFINE media == Stream(lane, Minted(row.at), row.at, dub, ans)
  <2>5. /\ got'.row = row /\ got'.dub = dub /\ got'.code = media.code /\ got'.file = media.file
        /\ got'.up => ans = AllUp
    BY <2>4
  <2>6. Minted(row.at)' = Minted(row.at)
    BY <2>1 DEF Minted
  <2>7. row = Bare \/ row \in held.rows
    BY <2>2
  <2>8. GotWasPressed'
    BY <2>1, <2>5, <2>6, <2>7 DEF GotWasPressed
  <2>9. Followed' /\ HeldWasListed'
    BY <1>0, <2>1 DEF Followed, HeldWasListed
  <2> QED BY <2>8, <2>9 DEF PressInv
<1>4. CASE Publish
  <2>1. PICK f \in ToSet(site.files) :
           LET season == {g \in ToSet(site.files) : g.s = f.s /\ g.d = f.d}
               newest == CHOOSE e \in {g.e : g \in season} : \A g \in season : g.e <= e
           IN  site' = [site EXCEPT !.files = Append(@, [f EXCEPT !.e = newest + 1])]
    BY <1>4 DEF Publish
  <2>2. PICK n \in Nat : site' = [site EXCEPT !.files = Append(@, [f EXCEPT !.e = n + 1])]
    <3>1. site.files \in Seq(File)
      BY <1>0 DEF Possible, Title
    <3> QED BY <2>1, <3>1, NewestFacts
  <2>3. site.series /\ held' = [held EXCEPT !.change = "grown"] /\ got' = NoPress /\ lane' = lane
    BY <1>4 DEF Publish
  <2>4. Possible(lane, site')
    BY <1>0, <2>2, <2>3, PossibleGrown
  <2> QED BY <1>0, <2>3, <2>4, ChangeKeepsPressInv
<1>5. CASE Withdraw
  <2>1. PICK i \in DOMAIN site.files : site' = [site EXCEPT !.files = RemoveAt(@, i)]
    BY <1>5 DEF Withdraw
  <2>2. held' = [held EXCEPT !.change = "shrunk"] /\ got' = NoPress /\ lane' = lane
    BY <1>5 DEF Withdraw
  <2>3. Possible(lane, site')
    BY <1>0, <2>1, PossibleShrunk
  <2> QED BY <1>0, <2>2, <2>3, ChangeKeepsPressInv
<1>6. CASE UNCHANGED scraperVars
  BY <1>0, <1>6 DEF scraperVars, PressInv, Followed, HeldWasListed, GotWasPressed, Minted
<1> QED BY <1>1, <1>2, <1>3, <1>4, <1>5, <1>6 DEF ScrapersNext

\* What was pressed while the upstream stayed as it was listed is the lane's
\* own answer to a row the lane itself listed of the same title.
LEMMA PressedAsListed ==
    ASSUME PressInv, held.change = "none", got # NoPress
    PROVE  /\ lane \in Lanes /\ Possible(lane, site)
           /\ \E ans : /\ LET media == Stream(lane, site, got.row.at, got.dub, ans)
                          IN  got.code = media.code /\ got.file = media.file
                       /\ got.up => ans = AllUp
           /\ got.row # Bare =>
                 \E listed : /\ got.row \in Content(lane, site, listed).rows
                             /\ got.dub \in got.row.dubs \cup {0}
<1>1. lane \in Lanes /\ Possible(lane, site) /\ held.of = site
  BY LanesAssumption DEF PressInv, Followed
<1>2. \A pos : Minted(pos) = site
  BY <1>1 DEF Minted
<1> QED BY <1>1, <1>2 DEF PressInv, HeldWasListed, GotWasPressed

LEMMA PressedPlays == PressInv => PlaysWhatWasListed /\ NoListedDeadEnd
<1> SUFFICES ASSUME PressInv PROVE PlaysWhatWasListed /\ NoListedDeadEnd
  OBVIOUS
<1>1. CASE held.change # "none" \/ got = NoPress
  BY <1>1 DEF PlaysWhatWasListed, NoListedDeadEnd, NoPress
<1>2. CASE held.change = "none" /\ got # NoPress
  <2>1. PICK ans : /\ LET media == Stream(lane, site, got.row.at, got.dub, ans)
                      IN  got.code = media.code /\ got.file = media.file
                   /\ got.up => ans = AllUp
    BY <1>2, PressedAsListed
  <2>2. lane \in Lanes /\ Possible(lane, site)
    BY <1>2, PressedAsListed
  <2> DEFINE media == Stream(lane, site, got.row.at, got.dub, ans)
  <2>3. Real(lane, site, media)
    BY <2>2, LaneReal
  <2>4. ASSUME got.row # Bare
        PROVE  /\ Right(lane, site, got.row, got.dub, media)
               /\ Alive(lane, site, got.row, got.dub, Stream(lane, site, got.row.at, got.dub, AllUp))
    <3>1. PICK listed : got.row \in Content(lane, site, listed).rows /\ got.dub \in got.row.dubs \cup {0}
      BY <1>2, <2>4, PressedAsListed
    <3> QED BY <2>2, <3>1, LanePlays
  <2>5. got.code = media.code /\ got.file = media.file
    BY <2>1
  <2>6. got.up => media = Stream(lane, site, got.row.at, got.dub, AllUp)
    BY <2>1
  <2> HIDE DEF media
  <2>7. PlaysWhatWasListed
    BY <2>3, <2>4, <2>5 DEF PlaysWhatWasListed, Played, Real, Right
  <2>8. NoListedDeadEnd
    BY <2>4, <2>5, <2>6 DEF NoListedDeadEnd, Alive, Intact
  <2> QED BY <2>7, <2>8
<1> QED BY <1>1, <1>2

LEMMA ScrapersHold == ScrapersSpec => [](ToldInv /\ PressInv)
<1>1. ScrapersInit => ToldInv /\ PressInv
  BY ScrapersStart, PressStart
<1>2. ToldInv /\ PressInv /\ [ScrapersNext]_scraperVars => (ToldInv /\ PressInv)'
  BY ScrapersStep, PressStep
<1> QED BY <1>1, <1>2, PTL DEF ScrapersSpec

\* A row that is pressed while the upstream stays as it was listed plays its own
\* episode, in the dub it was asked in: content() and stream() of each of the
\* nineteen providers number one playlist alike.
THEOREM ListedIsPlayed == ScrapersSpec => []PlaysWhatWasListed
<1>1. ToldInv /\ PressInv => PlaysWhatWasListed
  BY PressedPlays
<1> QED BY <1>1, ScrapersHold, PTL

\* A row that a provider listed plays while the upstream is up.
THEOREM NoDeadEnds == ScrapersSpec => []NoListedDeadEnd
<1>1. ToldInv /\ PressInv => NoListedDeadEnd
  BY PressedPlays
<1> QED BY <1>1, ScrapersHold, PTL
===============================================================================
