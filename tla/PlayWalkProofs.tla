--------------------------- MODULE PlayWalkProofs ---------------------------
(* Proofs about what a press of play goes through: the walk over the members   *)
(* of a card, and inside one lane the walk over its torrents.                  *)
(* PlayWalk: a step is first brought into one of a few shapes (StepShapes),    *)
(* and the three parts of the inductive invariant - the types, how a walk      *)
(* stands to its log, and how the two records stand to the log - are shown to  *)
(* survive each shape.                                                         *)
(* TorrentLane, for any listings, files and bounds: its caches are what their  *)
(* histories leave, and a play that goes through its candidates knows what     *)
(* became of those it passed over.                                             *)
EXTENDS PlayWalk, TorrentLane, SequenceTheorems, FiniteSetTheorems, WellFoundedInduction, TLAPS

\* What a request's log says about where its walk stands.
Standing(r) ==
    /\ walk[r].phase \in {"idle", "resolving"} => log[r] = <<>>
    /\ walk[r].phase \in Asking => walk[r].todo # <<>>
    /\ walk[r].phase = "resolving" /\ press[r].family = "scoped" => walk[r].todo # <<>>
    /\ walk[r].phase = "ended" <=> walk[r].answer # "pending"

WalkInv == \A r \in Requests : Standing(r)

\* The watchdog and the client agree on whether a reset is under way.
ClientInv == client = "closing" <=> watchdog = "closing"

\* What a sample of a play has to show for itself in the log.
Backing(l, s, e) ==
    IF s.ok THEN e.verdict = "served" /\ e.member = l
    ELSE \/ e.verdict \in {"lane", "crash"} /\ e.member = l
         \/ e.verdict = "engine" /\ l = Engine

Backed(logs, l, s) ==
    s.by \in Requests => \E j \in DOMAIN logs[s.by] : Backing(l, s, logs[s.by][j])

SamplesBacked ==
    \A l \in Lanes : \A i \in DOMAIN samples[l] : Backed(log, l, samples[l][i])

PlayInv == TypeOK /\ WalkInv /\ AnswerIsTheWalks /\ EveryPlayAttested /\ SamplesBacked
           /\ ClientInv

-----------------------------------------------------------------------------
\* The shapes a step can have.
EarlyStep(r, l, c) ==
    /\ walk[r].phase \in {"idle", "resolving"}
    /\ l \in Lanes \cup {Unknown} /\ c \in Codes
    /\ RefusedEarly(r, l, c)

BeginStep(r, s) ==
    /\ walk[r].phase \in {"idle", "resolving"}
    /\ s \in Seq(Providers)
    /\ Begins(r, s)

ResolveStep(r, s) ==
    /\ walk[r].phase = "idle"
    /\ s \in Seq(Providers)
    /\ press[r].family = "scoped" => s # <<>>
    /\ walk' = [walk EXCEPT ![r].phase = "resolving", ![r].todo = s]
    /\ UNCHANGED <<press, log, tracker, attestation, client, dog, recorded>>

RefusalStep(r, v) ==
    /\ walk[r].phase \in Asking /\ v \in Verdicts \ {"served"}
    /\ log' = Logged(r, v)
    /\ faults' = Attested(r, v)
    /\ walk' = AfterRefusal(r, v)
    /\ \/ UNCHANGED samples
       \/ /\ v \in LaneFaults
          /\ samples' = Recorded(Attributed(Asked(r), v), FALSE, r)
    /\ UNCHANGED <<press, pinned, served, client, dog, recorded>>

\* Steps that leave the walks alone but for the client they hold.
Aside ==
    /\ \A r \in Requests : \E h \in {"live", "dead"} : walk'[r] = [walk[r] EXCEPT !.http = h]
    /\ walk' \in [Requests -> [phase: Phases, todo: Seq(Providers), http: {"live", "dead"},
                               answer: Answers]]
    /\ \/ UNCHANGED samples
       \/ \E l \in Lanes, ok \in BOOLEAN : samples' = Recorded(l, ok, Background)
    /\ pinned' \in SUBSET Providers
    /\ client' \in {"none", "open", "closing"} /\ watchdog' \in {"idle", "closing"}
    /\ client' = "closing" <=> watchdog' = "closing"
    /\ cooling' \in BOOLEAN /\ recorded' \in 0..MaxSamples
    /\ UNCHANGED <<press, log, attestation>>

\* member_attempts() answers with members of the group.
LEMMA LedType ==
    ASSUME NEW o \in Seq(Providers), NEW lead
    PROVE  Led(Capped(o), lead) \in Seq(Providers)
<1>1. Capped(o) \in Seq(Providers)
  <2>1. MaxAttempts \in Nat  BY PlayAssumption
  <2>2. CASE Len(o) < MaxAttempts
    <3>1. Capped(o) = SubSeq(o, 1, Len(o))  BY <2>2 DEF Capped
    <3> QED  BY <3>1
  <2>3. CASE ~(Len(o) < MaxAttempts)
    <3>1. Capped(o) = SubSeq(o, 1, MaxAttempts)  BY <2>3 DEF Capped
    <3>2. MaxAttempts <= Len(o)  BY <2>1, <2>3
    <3> QED  BY <3>1, <3>2, <2>1
  <2> QED  BY <2>2, <2>3
<1>2. ASSUME NEW s \in Seq(Providers), NEW k \in DOMAIN s
      PROVE  Fronted(s, k) \in Seq(Providers)
  <2>1. \A i \in DOMAIN s :
           (IF i = 1 THEN s[k] ELSE IF i <= k THEN s[i - 1] ELSE s[i]) \in Providers
    OBVIOUS
  <2>2. DOMAIN s = 1..Len(s) /\ Len(s) \in Nat  OBVIOUS
  <2>3. Fronted(s, k) \in [1..Len(s) -> Providers]  BY <2>1, <2>2 DEF Fronted
  <2> QED  BY <2>2, <2>3, SeqDef
<1> QED  BY <1>1, <1>2 DEF Led

\* A window grows by one sample of the lane recorded, and by no other.
LEMMA RecordedType ==
    ASSUME samples \in [Lanes -> Seq(Sample)], \A l \in Lanes : Len(samples[l]) <= Window,
           NEW l \in Lanes, NEW ok \in BOOLEAN, NEW by \in Requests \cup {Background}
    PROVE  /\ Recorded(l, ok, by) \in [Lanes -> Seq(Sample)]
           /\ \A k \in Lanes : Len(Recorded(l, ok, by)[k]) <= Window
           /\ \A k \in Lanes : \A i \in DOMAIN Recorded(l, ok, by)[k] :
                 \/ \E j \in DOMAIN samples[k] : Recorded(l, ok, by)[k][i] = samples[k][j]
                 \/ k = l /\ Recorded(l, ok, by)[k][i] = [ok |-> ok, by |-> by]
<1> DEFINE e == [ok |-> ok, by |-> by]
           s == Append(samples[l], e)
<1>1. e \in Sample  BY DEF Sample
<1>2. s \in Seq(Sample) /\ Len(s) = Len(samples[l]) + 1 /\ Len(s) \in Nat
  BY <1>1
<1>3. \A i \in 1..Len(s) :
         s[i] = IF i <= Len(samples[l]) THEN samples[l][i] ELSE e
  BY <1>1
<1>4. Window \in Nat \ {0}  BY PlayAssumption
<1>12. Recorded(l, ok, by) = [samples EXCEPT ![l] = Newest(s)]  BY DEF Recorded
<1> HIDE DEF s, e
<1>5. Newest(s) \in Seq(Sample) /\ Len(Newest(s)) <= Window
  <2>1. CASE Len(s) > Window
    <3>1. Newest(s) = Tail(s)  BY <2>1 DEF Newest
    <3>2. s # <<>>  BY <1>2
    <3>3. Tail(s) \in Seq(Sample) /\ Len(Tail(s)) = Len(s) - 1  BY <1>2, <3>2
    <3> QED  BY <3>1, <3>3, <1>2, <1>4
  <2>2. CASE ~(Len(s) > Window)
    BY <2>2, <1>2, <1>4 DEF Newest
  <2> QED  BY <2>1, <2>2
<1>6. \A i \in DOMAIN Newest(s) : \E j \in 1..Len(s) : Newest(s)[i] = s[j]
  <2>1. CASE Len(s) > Window
    <3>1. Newest(s) = Tail(s)  BY <2>1 DEF Newest
    <3>2. s # <<>>  BY <1>2
    <3>3. \A i \in 1..(Len(s) - 1) : Tail(s)[i] = s[i + 1]  BY <1>2, <3>2
    <3>4. DOMAIN Tail(s) = 1..(Len(s) - 1)  BY <1>2, <3>2
    <3>5. \A i \in 1..(Len(s) - 1) : i + 1 \in 1..Len(s)  BY <1>2
    <3> QED  BY <3>1, <3>3, <3>4, <3>5
  <2>2. CASE ~(Len(s) > Window)
    BY <2>2, <1>2 DEF Newest
  <2> QED  BY <2>1, <2>2
<1>8. \A k \in Lanes : Recorded(l, ok, by)[k] = IF k = l THEN Newest(s) ELSE samples[k]
  BY <1>12
<1>9. Recorded(l, ok, by) \in [Lanes -> Seq(Sample)]
  BY <1>12, <1>5
<1>10. \A k \in Lanes : Len(Recorded(l, ok, by)[k]) <= Window
  BY <1>8, <1>5
<1>11. ASSUME NEW k \in Lanes, NEW i \in DOMAIN Recorded(l, ok, by)[k]
       PROVE  \/ \E j \in DOMAIN samples[k] : Recorded(l, ok, by)[k][i] = samples[k][j]
              \/ k = l /\ Recorded(l, ok, by)[k][i] = e
  <2>1. CASE k # l  BY <2>1, <1>8
  <2>2. CASE k = l
    <3>1. PICK j \in 1..Len(s) : Newest(s)[i] = s[j]  BY <2>2, <1>8, <1>6
    <3>2. s[j] = IF j <= Len(samples[l]) THEN samples[l][j] ELSE e  BY <1>3
    <3>3. samples[l] \in Seq(Sample) /\ Len(samples[l]) \in Nat /\ j \in Nat /\ j >= 1  BY <1>2
    <3>4. j <= Len(samples[l]) => j \in DOMAIN samples[l]  BY <3>3
    <3> QED  BY <2>2, <1>8, <3>1, <3>2, <3>4
  <2> QED  BY <2>1, <2>2
<1> QED  BY <1>9, <1>10, <1>11 DEF e

\* The kinds a request can be of, and the codes a client can be told.
LEMMA KindType ==
    ASSUME TypeOK, NEW r \in Requests
    PROVE  press[r] \in Kinds /\ (press[r].route = "native" => press[r].family = "scoped")
BY PlayAssumption DEF TypeOK

LEMMA ToldType ==
    ASSUME TypeOK, NEW r \in Requests, NEW v \in Verdicts \ {"served"}
    PROVE  Told(r, v) \in Codes
BY DEF Told, Verdicts, LaneFaults, ItemVerdicts, Codes

LEMMA AttributedType ==
    ASSUME NEW p \in Providers, NEW v
    PROVE  Attributed(p, v) \in Lanes
BY DEF Attributed, Lanes

\* Every step of the module has one of the shapes.
LEMMA StepShapes ==
    ASSUME TypeOK, WalkInv, ClientInv, Next
    PROVE  \/ \E r \in Requests : \E l, c : EarlyStep(r, l, c)
           \/ \E r \in Requests : \E s : BeginStep(r, s)
           \/ \E r \in Requests : \E s : ResolveStep(r, s)
           \/ \E r \in Requests : GatePasses(r)
           \/ \E r \in Requests : \E v : RefusalStep(r, v)
           \/ \E r \in Requests : Serves(r)
           \/ \E r \in Requests : BudgetOut(r)
           \/ Aside
<1> USE DEF TypeOK
<1>0. \A p \in Providers : <<p>> \in Seq(Providers)  OBVIOUS
<1>1. ASSUME NEW r \in Requests, PressScoped(r)
      PROVE  \/ \E l, c : EarlyStep(r, l, c)
             \/ \E s : BeginStep(r, s)
             \/ \E s : ResolveStep(r, s)
  <2>1. CASE RefusedEarly(r, Unknown, "not_found")
    BY <2>1, <1>1 DEF PressScoped, EarlyStep, Codes, ItemVerdicts
  <2>2. ASSUME NEW p \in Providers, RefusedEarly(r, p, "upstream")
        PROVE  \E l, c : EarlyStep(r, l, c)
    BY <2>2, <1>1 DEF PressScoped, EarlyStep, Codes, Lanes
  <2>3. ASSUME NEW p \in Providers, Begins(r, <<p>>)
        PROVE  \E s : BeginStep(r, s)
    <3>1. BeginStep(r, <<p>>)  BY <2>3, <1>0, <1>1 DEF PressScoped, BeginStep
    <3> QED  BY <3>1
  <2>4. ASSUME NEW p \in Providers,
               walk' = [walk EXCEPT ![r].phase = "resolving", ![r].todo = <<p>>],
               UNCHANGED <<press, log, tracker, attestation, client, dog, recorded>>
        PROVE  \E s : ResolveStep(r, s)
    <3>1. <<p>> # <<>>  OBVIOUS
    <3>2. ResolveStep(r, <<p>>)  BY <2>4, <3>1, <1>0, <1>1 DEF PressScoped, ResolveStep
    <3> QED  BY <3>2
  <2> QED  BY <1>1, <2>1, <2>2, <2>3, <2>4 DEF PressScoped
<1>2. ASSUME NEW r \in Requests, Awaited(r)
      PROVE  \/ \E l, c : EarlyStep(r, l, c)
             \/ \E s : BeginStep(r, s)
  <2>1. walk[r].todo # <<>> /\ walk[r].todo \in Seq(Providers)
    BY <1>2 DEF WalkInv, Standing, Awaited
  <2>2. Head(walk[r].todo) \in Providers  BY <2>1
  <2> QED  BY <1>2, <2>1, <2>2 DEF Awaited, EarlyStep, BeginStep, Codes, Lanes
<1>3. ASSUME NEW r \in Requests, PressGroup(r)
      PROVE  \/ \E l, c : EarlyStep(r, l, c)
             \/ \E s : ResolveStep(r, s)
  <2>1. FirstSeen \subseteq Lanes \cup {Unknown}
    <3>1. \A o \in Orders : o # <<>> => o[1] \in Providers  BY PlayAssumption
    <3> QED  BY <3>1 DEF FirstSeen, Lanes
  <2>2. CASE \E l \in FirstSeen : RefusedEarly(r, l, "not_found")
    BY <2>1, <2>2, <1>3 DEF PressGroup, EarlyStep, Codes, ItemVerdicts
  <2>3. CASE /\ walk' = [walk EXCEPT ![r].phase = "resolving"]
             /\ UNCHANGED <<press, log, tracker, attestation, client, dog, recorded>>
    <3>1. [walk EXCEPT ![r].phase = "resolving"]
            = [walk EXCEPT ![r].phase = "resolving", ![r].todo = walk[r].todo]
      OBVIOUS
    <3>2. ResolveStep(r, walk[r].todo)  BY <2>3, <3>1, <1>3 DEF PressGroup, ResolveStep
    <3> QED  BY <3>2
  <2> QED  BY <1>3, <2>2, <2>3 DEF PressGroup
<1>4. ASSUME NEW r \in Requests, Resolved(r)
      PROVE  \/ \E l, c : EarlyStep(r, l, c)
             \/ \E s : BeginStep(r, s)
  <2>1. FirstSeen \subseteq Lanes \cup {Unknown}
    <3>1. \A o \in Orders : o # <<>> => o[1] \in Providers  BY PlayAssumption
    <3> QED  BY <3>1 DEF FirstSeen, Lanes
  <2>2. CASE \E l \in FirstSeen : RefusedEarly(r, l, "not_found")
    BY <2>1, <2>2, <1>4 DEF Resolved, EarlyStep, Codes, ItemVerdicts
  <2>3. ASSUME NEW o \in Orders, NEW lead, NoAttempts(r, Led(Capped(o), lead))
        PROVE  \E l, c : EarlyStep(r, l, c)
    BY <2>3, <1>4 DEF NoAttempts, Resolved, EarlyStep, Codes, ItemVerdicts
  <2>4. ASSUME NEW o \in Orders, NEW lead, Begins(r, Led(Capped(o), lead))
        PROVE  \E s : BeginStep(r, s)
    <3>1. Led(Capped(o), lead) \in Seq(Providers)  BY LedType, PlayAssumption
    <3> QED  BY <2>4, <3>1, <1>4 DEF Resolved, BeginStep
  <2> QED  BY <1>4, <2>2, <2>3, <2>4 DEF Resolved
<1>5. ASSUME NEW r \in Requests, GateRefuses(r)
      PROVE  \E v : RefusalStep(r, v)
  <2>1. RefusalStep(r, "bad_track")
    BY <1>5 DEF GateRefuses, RefusalStep, Asking, Verdicts, ItemVerdicts, tracker
  <2> QED  BY <2>1
<1>6. ASSUME NEW r \in Requests, NEW v \in Verdicts \ {"served"}, Refuses(r, v)
      PROVE  RefusalStep(r, v)
  BY <1>6 DEF Refuses, RefusalStep, Asking, LaneFault
<1>7. CASE \E r \in Requests : WalkStep(r)
  BY <1>7, <1>1, <1>2, <1>3, <1>4, <1>5, <1>6 DEF WalkStep
<1>8. ASSUME UNCHANGED walk
      PROVE  /\ \A r \in Requests : \E h \in {"live", "dead"} :
                   walk'[r] = [walk[r] EXCEPT !.http = h]
             /\ walk' \in [Requests -> [phase: Phases, todo: Seq(Providers),
                                        http: {"live", "dead"}, answer: Answers]]
  BY <1>8
<1>9. ASSUME NEW l \in Elsewhere, NEW ok \in BOOLEAN, RecordsElsewhere(l, ok)
      PROVE  Aside
  <2>1. l \in Lanes /\ MaxSamples \in Nat  BY PlayAssumption
  <2> QED  BY <1>9, <1>8, <2>1 DEF RecordsElsewhere, Aside, ClientInv, dog, attestation
<1>10. ASSUME NEW p \in Providers, MarkStartup(p)
       PROVE  Aside
  BY <1>10, <1>8 DEF MarkStartup, Aside, ClientInv, dog, attestation
<1>11. ASSUME OthersGetClient
       PROVE  Aside
  BY <1>11, <1>8 DEF OthersGetClient, Aside, ClientInv, dog, attestation, tracker, GotClient
<1>12. ASSUME WatchdogTick
       PROVE  Aside
  <2>1. CASE client = "none"
    BY <1>12, <1>8, <2>1 DEF WatchdogTick, Aside, ClientInv, dog, attestation, tracker
  <2>2. CASE client # "none"
    <3>1. \A r \in Requests : walk'[r] = IF walk[r].phase \in Asking
                                         THEN [walk[r] EXCEPT !.http = "dead"] ELSE walk[r]
      BY <1>12, <2>2 DEF WatchdogTick
    <3>2. \A r \in Requests : \E h \in {"live", "dead"} : walk'[r] = [walk[r] EXCEPT !.http = h]
      BY <3>1
    <3>3. walk' \in [Requests -> [phase: Phases, todo: Seq(Providers),
                                  http: {"live", "dead"}, answer: Answers]]
      <4> DEFINE W == [phase: Phases, todo: Seq(Providers), http: {"live", "dead"},
                       answer: Answers]
      <4>1. ASSUME NEW w \in W  PROVE [w EXCEPT !.http = "dead"] \in W  OBVIOUS
      <4> HIDE DEF W
      <4>2. \A r \in Requests : walk[r] \in W  BY DEF W
      <4>3. walk' = [r \in Requests |-> IF walk[r].phase \in Asking
                                        THEN [walk[r] EXCEPT !.http = "dead"] ELSE walk[r]]
        BY <1>12, <2>2 DEF WatchdogTick
      <4>4. walk' \in [Requests -> W]  BY <4>1, <4>2, <4>3
      <4> QED  BY <4>4 DEF W
    <3>4. /\ client' = "closing" /\ watchdog' = "closing" /\ cooling' = cooling
          /\ press' = press /\ log' = log /\ samples' = samples /\ pinned' = pinned
          /\ faults' = faults /\ served' = served /\ recorded' = recorded
      BY <1>12, <2>2 DEF WatchdogTick, tracker, attestation
    <3> QED  BY <3>2, <3>3, <3>4 DEF Aside, attestation
  <2> QED  BY <2>1, <2>2
<1>13. ASSUME ClientClosed
       PROVE  Aside
  BY <1>13, <1>8 DEF ClientClosed, Aside, attestation, tracker, DroppedClient
<1>14. ASSUME CooldownEnds
       PROVE  Aside
  BY <1>14, <1>8 DEF CooldownEnds, Aside, ClientInv, attestation, tracker
<1>15. ASSUME Quiet
       PROVE  Aside
  BY <1>15, <1>8 DEF Quiet, vars, Aside, ClientInv, attestation
<1> QED  BY <1>7, <1>9, <1>10, <1>11, <1>12, <1>13, <1>14, <1>15 DEF Next

-----------------------------------------------------------------------------
\* The types hold at the start.
LEMMA InitTypes == Init => TypeOK
<1> SUFFICES ASSUME Init  PROVE TypeOK  OBVIOUS
<1>1. walk \in [Requests -> [phase: Phases, todo: Seq(Providers), http: {"live", "dead"},
                             answer: Answers]]
  <2>1. "idle" \in Phases /\ "pending" \in Answers /\ <<>> \in Seq(Providers)
    BY DEF Phases, Answers
  <2> QED  BY <2>1 DEF Init
<1>2. samples \in [Lanes -> Seq(Sample)] /\ \A l \in Lanes : Len(samples[l]) <= Window
  BY PlayAssumption DEF Init
<1>3. log \in [Requests -> Seq(Attempt)]  BY DEF Init
<1>4. recorded \in 0..MaxSamples  BY PlayAssumption DEF Init
<1> QED  BY <1>1, <1>2, <1>3, <1>4 DEF Init, TypeOK

\* What is left of an attempted walk keeps its types.
LEMMA RefusalTypes ==
    ASSUME TypeOK, WalkInv, NEW r \in Requests, NEW v, walk[r].phase \in Asking
    PROVE  /\ Asked(r) \in Providers
           /\ Tail(walk[r].todo) \in Seq(Providers)
           /\ AfterRefusal(r, v) \in [Requests -> [phase: Phases, todo: Seq(Providers),
                                                   http: {"live", "dead"}, answer: Answers]]
<1>1. walk[r].todo \in Seq(Providers) /\ walk[r].todo # <<>>
  BY DEF TypeOK, WalkInv, Standing
<1>2. Asked(r) \in Providers /\ Tail(walk[r].todo) \in Seq(Providers)
  BY <1>1 DEF Asked
<1>3. FirstPhase(r) \in Phases  BY DEF FirstPhase, Phases
<1>4. "ended" \in Phases /\ "refused" \in Answers  BY DEF Phases, Answers
<1>5. CASE Walkable(v) /\ Tail(walk[r].todo) # <<>>
  <2>1. AfterRefusal(r, v)
          = [walk EXCEPT ![r].phase = FirstPhase(r), ![r].todo = Tail(@)]
    BY <1>5 DEF AfterRefusal
  <2> QED  BY <2>1, <1>2, <1>3 DEF TypeOK
<1>6. CASE ~(Walkable(v) /\ Tail(walk[r].todo) # <<>>)
  <2>1. AfterRefusal(r, v)
          = [walk EXCEPT ![r].phase = "ended", ![r].todo = Tail(@), ![r].answer = "refused"]
    BY <1>6 DEF AfterRefusal
  <2> QED  BY <2>1, <1>2, <1>4 DEF TypeOK
<1> QED  BY <1>2, <1>5, <1>6

\* A refusal is attested as a fault.
LEMMA FaultTypes ==
    ASSUME TypeOK, NEW r \in Requests, NEW n \in Nat, NEW l \in Lanes \cup {Unknown},
           NEW c \in Codes
    PROVE  Refuted(r, n, l, c) \in SUBSET Fault
BY DEF TypeOK, Refuted, Fault

\* Every step keeps the types.
LEMMA NextTypes ==
    ASSUME TypeOK, WalkInv, ClientInv, [Next]_vars
    PROVE  TypeOK'
<1>1. ASSUME NEW r \in Requests, NEW l, NEW c, EarlyStep(r, l, c)
      PROVE  TypeOK'
  <2>1. faults' \in SUBSET Fault  BY <1>1, FaultTypes DEF EarlyStep, RefusedEarly
  <2>2. "ended" \in Phases /\ "refused" \in Answers  BY DEF Phases, Answers
  <2> QED  BY <1>1, <2>1, <2>2 DEF TypeOK, EarlyStep, RefusedEarly, tracker, dog
<1>2. ASSUME NEW r \in Requests, NEW s, BeginStep(r, s)
      PROVE  TypeOK'
  <2>1. FirstPhase(r) \in Phases  BY DEF FirstPhase, Phases
  <2>2. GotClient \in {"none", "open", "closing"}  BY DEF TypeOK, GotClient
  <2>3. (IF client = "closing" THEN "dead" ELSE "live") \in {"live", "dead"}  OBVIOUS
  <2> QED  BY <1>2, <2>1, <2>2, <2>3 DEF TypeOK, BeginStep, Begins, tracker, attestation, dog
<1>3. ASSUME NEW r \in Requests, NEW s, ResolveStep(r, s)
      PROVE  TypeOK'
  <2>1. "resolving" \in Phases  BY DEF Phases
  <2> QED  BY <1>3, <2>1 DEF TypeOK, ResolveStep, tracker, attestation, dog
<1>4. ASSUME NEW r \in Requests, GatePasses(r)
      PROVE  TypeOK'
  <2>1. "stream" \in Phases  BY DEF Phases
  <2> QED  BY <1>4, <2>1 DEF TypeOK, GatePasses, tracker, attestation, dog
<1>5. ASSUME NEW r \in Requests, NEW v, RefusalStep(r, v)
      PROVE  TypeOK'
  <2>1. Asked(r) \in Providers  BY <1>5, RefusalTypes DEF RefusalStep
  <2>2. walk' \in [Requests -> [phase: Phases, todo: Seq(Providers),
                                http: {"live", "dead"}, answer: Answers]]
    BY <1>5, RefusalTypes DEF RefusalStep
  <2>3. log' \in [Requests -> Seq(Attempt)]
    <3>1. [member |-> Asked(r), verdict |-> v] \in Attempt
      BY <1>5, <2>1 DEF RefusalStep, Attempt
    <3> QED  BY <1>5, <3>1 DEF RefusalStep, Logged, TypeOK
  <2>4. faults' \in SUBSET Fault
    <3>1. Len(log[r]) + 1 \in Nat  BY DEF TypeOK
    <3>2. Attributed(Asked(r), v) \in Lanes \cup {Unknown}  BY <2>1, AttributedType
    <3>3. Told(r, v) \in Codes  BY <1>5, ToldType DEF RefusalStep
    <3> QED  BY <1>5, <3>1, <3>2, <3>3, FaultTypes DEF RefusalStep, Attested
  <2>5. samples' \in [Lanes -> Seq(Sample)] /\ \A l \in Lanes : Len(samples'[l]) <= Window
    <3>1. Attributed(Asked(r), v) \in Lanes  BY <2>1, AttributedType
    <3>2. CASE UNCHANGED samples  BY <3>2 DEF TypeOK
    <3>3. CASE samples' = Recorded(Attributed(Asked(r), v), FALSE, r)
      BY <3>1, <3>3, RecordedType DEF TypeOK
    <3> QED  BY <1>5, <3>2, <3>3 DEF RefusalStep
  <2> QED  BY <1>5, <2>2, <2>3, <2>4, <2>5 DEF TypeOK, RefusalStep, dog
<1>6. ASSUME NEW r \in Requests, Serves(r)
      PROVE  TypeOK'
  <2>1. Asked(r) \in Providers  BY <1>6, RefusalTypes DEF Serves, Asking
  <2>2. log' \in [Requests -> Seq(Attempt)]
    <3>1. [member |-> Asked(r), verdict |-> "served"] \in Attempt
      BY <2>1 DEF Attempt, Verdicts
    <3> QED  BY <1>6, <3>1 DEF Serves, Logged, TypeOK
  <2>3. samples' \in [Lanes -> Seq(Sample)] /\ \A l \in Lanes : Len(samples'[l]) <= Window
    BY <1>6, <2>1, RecordedType DEF Serves, TypeOK, Lanes
  <2>4. served' \in SUBSET (Requests \X Providers)  BY <1>6, <2>1 DEF Serves, TypeOK
  <2>5. "ended" \in Phases /\ Asked(r) \in Answers /\ <<>> \in Seq(Providers)
    BY <2>1 DEF Phases, Answers
  <2>6. walk' \in [Requests -> [phase: Phases, todo: Seq(Providers),
                                http: {"live", "dead"}, answer: Answers]]
    BY <1>6, <2>5 DEF Serves, TypeOK
  <2> QED  BY <1>6, <2>2, <2>3, <2>4, <2>6 DEF TypeOK, Serves, dog
<1>7. ASSUME NEW r \in Requests, BudgetOut(r)
      PROVE  TypeOK'
  <2>1. "ended" \in Phases /\ "optimistic" \in Answers /\ <<>> \in Seq(Providers)
    BY DEF Phases, Answers
  <2> QED  BY <1>7, <2>1 DEF TypeOK, BudgetOut, tracker, attestation, dog
<1>8. ASSUME Aside
      PROVE  TypeOK'
  <2>1. samples' \in [Lanes -> Seq(Sample)] /\ \A l \in Lanes : Len(samples'[l]) <= Window
    <3>1. CASE UNCHANGED samples  BY <3>1 DEF TypeOK
    <3>2. ASSUME NEW l \in Lanes, NEW ok \in BOOLEAN, samples' = Recorded(l, ok, Background)
          PROVE  /\ samples' \in [Lanes -> Seq(Sample)]
                 /\ \A k \in Lanes : Len(samples'[k]) <= Window
      BY <3>2, RecordedType DEF TypeOK
    <3> QED  BY <1>8, <3>1, <3>2 DEF Aside
  <2> QED  BY <1>8, <2>1 DEF TypeOK, Aside, attestation
<1>9. CASE UNCHANGED vars
  BY <1>9 DEF TypeOK, vars
<1> QED  BY StepShapes, <1>1, <1>2, <1>3, <1>4, <1>5, <1>6, <1>7, <1>8, <1>9

-----------------------------------------------------------------------------
\* What a step on one request leaves of the others, in every shape but Aside.
LEMMA OthersAlone ==
    ASSUME TypeOK, NEW r \in Requests, NEW q \in Requests, q # r,
           \/ \E l, c : EarlyStep(r, l, c)
           \/ \E s : BeginStep(r, s) \/ ResolveStep(r, s)
           \/ GatePasses(r) \/ Serves(r) \/ BudgetOut(r)
           \/ \E v : RefusalStep(r, v)
    PROVE  walk'[q] = walk[q] /\ log'[q] = log[q] /\ press'[q] = press[q]
<1>1. ASSUME NEW l, NEW c, EarlyStep(r, l, c)
      PROVE  walk'[q] = walk[q] /\ log'[q] = log[q] /\ press'[q] = press[q]
  BY <1>1 DEF EarlyStep, RefusedEarly, TypeOK
<1>2. ASSUME NEW s, BeginStep(r, s) \/ ResolveStep(r, s)
      PROVE  walk'[q] = walk[q] /\ log'[q] = log[q] /\ press'[q] = press[q]
  BY <1>2 DEF BeginStep, Begins, ResolveStep, TypeOK
<1>3. CASE GatePasses(r) \/ BudgetOut(r)
  BY <1>3 DEF GatePasses, BudgetOut, TypeOK
<1>4. CASE Serves(r)
  BY <1>4 DEF Serves, Logged, TypeOK
<1>5. ASSUME NEW v, RefusalStep(r, v)
      PROVE  walk'[q] = walk[q] /\ log'[q] = log[q] /\ press'[q] = press[q]
  BY <1>5 DEF RefusalStep, AfterRefusal, Logged, TypeOK
<1> QED  BY <1>1, <1>2, <1>3, <1>4, <1>5

\* What a request's log and answer are to each other, one conjunct of
\* AnswerIsTheWalks at a time.
Final(r) ==
    \A i \in DOMAIN log[r] :
        log[r][i].verdict \in {"gated", "served"} => i = Len(log[r]) /\ walk[r].phase = "ended"

ServedLast(r) ==
    walk[r].answer \in Providers =>
        /\ log[r] # <<>>
        /\ log[r][Len(log[r])] = [member |-> walk[r].answer, verdict |-> "served"]

Exhausted(r) ==
    walk[r].answer = "refused" /\ log[r] # <<>> =>
        walk[r].todo = <<>> \/ log[r][Len(log[r])].verdict = "gated"

LEMMA AnswerParts ==
    AnswerIsTheWalks <=> \A r \in Requests : Final(r) /\ ServedLast(r) /\ Exhausted(r)
BY DEF AnswerIsTheWalks, Final, ServedLast, Exhausted

\* A refused attempt ends the log with its verdict, and the walk goes on only
\* if that verdict is walkable and somebody is left.
LEMMA RefusalLeaves ==
    ASSUME TypeOK, WalkInv, NEW r \in Requests, NEW v, RefusalStep(r, v)
    PROVE  /\ log'[r] = Append(log[r], [member |-> Asked(r), verdict |-> v])
           /\ walk'[r].todo = Tail(walk[r].todo)
           /\ \/ /\ v # "gated" /\ walk'[r].phase \in Asking
                 /\ Tail(walk[r].todo) # <<>> /\ walk'[r].answer = "pending"
              \/ /\ walk'[r].phase = "ended" /\ walk'[r].answer = "refused"
                 /\ v = "gated" \/ Tail(walk[r].todo) = <<>>
<1>1. walk[r].answer = "pending"
  BY DEF WalkInv, Standing, RefusalStep, Asking
<1>2. log'[r] = Append(log[r], [member |-> Asked(r), verdict |-> v])
  BY DEF RefusalStep, Logged, TypeOK
<1>3. CASE Walkable(v) /\ Tail(walk[r].todo) # <<>>
  <2>1. walk' = [walk EXCEPT ![r].phase = FirstPhase(r), ![r].todo = Tail(@)]
    BY <1>3 DEF AfterRefusal, RefusalStep
  <2>2. FirstPhase(r) \in Asking  BY DEF FirstPhase, Asking
  <2> QED  BY <1>1, <1>2, <1>3, <2>1, <2>2 DEF TypeOK, Walkable
<1>4. CASE ~(Walkable(v) /\ Tail(walk[r].todo) # <<>>)
  <2>1. walk' = [walk EXCEPT ![r].phase = "ended", ![r].todo = Tail(@), ![r].answer = "refused"]
    BY <1>4 DEF AfterRefusal, RefusalStep
  <2> QED  BY <1>2, <1>4, <2>1 DEF TypeOK, Walkable
<1> QED  BY <1>3, <1>4

\* A step keeps the standing of every walk, and its log in step with its answer.
LEMMA NextWalks ==
    ASSUME TypeOK, WalkInv, ClientInv, AnswerIsTheWalks, [Next]_vars
    PROVE  WalkInv' /\ AnswerIsTheWalks'
<1> DEFINE Good(q) == Standing(q) /\ Final(q) /\ ServedLast(q) /\ Exhausted(q)
<1>0. \A q \in Requests : Good(q)  BY AnswerParts DEF WalkInv
<1>a. SUFFICES \A q \in Requests : Good(q)'
  BY DEF WalkInv, AnswerIsTheWalks, Final, ServedLast, Exhausted
<1>b. ASSUME NEW q \in Requests,
             walk'[q] = walk[q], log'[q] = log[q], press'[q] = press[q]
      PROVE  Good(q)'
  BY <1>0, <1>b DEF Standing, Final, ServedLast, Exhausted
<1>c. "pending" \notin Providers /\ "refused" \notin Providers /\ "optimistic" \notin Providers
  BY PlayAssumption
<1>1. ASSUME NEW r \in Requests, NEW l, NEW c, EarlyStep(r, l, c)
      PROVE  Good(r)'
  <2>1. log'[r] = <<>>  BY <1>1, <1>0 DEF EarlyStep, RefusedEarly, Standing
  <2>2. walk'[r].phase = "ended" /\ walk'[r].answer = "refused"
    BY <1>1 DEF EarlyStep, RefusedEarly, TypeOK
  <2> QED  BY <2>1, <2>2, <1>c DEF Standing, Final, ServedLast, Exhausted, Asking
<1>2. ASSUME NEW r \in Requests, NEW s, BeginStep(r, s)
      PROVE  Good(r)'
  <2>1. log'[r] = <<>> /\ walk[r].answer = "pending"
    BY <1>2, <1>0 DEF BeginStep, Begins, Standing
  <2>2. walk'[r].phase \in Asking /\ walk'[r].answer = walk[r].answer /\ walk'[r].todo # <<>>
    BY <1>2 DEF BeginStep, Begins, FirstPhase, Asking, TypeOK
  <2> QED  BY <2>1, <2>2, <1>c DEF Standing, Final, ServedLast, Exhausted, Asking
<1>3. ASSUME NEW r \in Requests, NEW s, ResolveStep(r, s)
      PROVE  Good(r)'
  <2>1. log'[r] = <<>> /\ walk[r].answer = "pending"
    BY <1>3, <1>0 DEF ResolveStep, Standing
  <2>2. /\ walk'[r].phase = "resolving" /\ walk'[r].answer = walk[r].answer
        /\ walk'[r].todo = s /\ press'[r] = press[r]
    BY <1>3 DEF ResolveStep, TypeOK
  <2>3. press[r].family = "scoped" => s # <<>>  BY <1>3 DEF ResolveStep
  <2> QED  BY <2>1, <2>2, <2>3, <1>c DEF Standing, Final, ServedLast, Exhausted, Asking
<1>4. ASSUME NEW r \in Requests, GatePasses(r)
      PROVE  Good(r)'
  <2>1. /\ walk[r].phase = "gate" /\ walk'[r].phase = "stream"
        /\ walk'[r].answer = walk[r].answer /\ walk'[r].todo = walk[r].todo
        /\ log'[r] = log[r] /\ press'[r] = press[r]
    BY <1>4 DEF GatePasses, TypeOK
  <2>2. walk[r].answer = "pending" /\ walk[r].todo # <<>>
    BY <2>1, <1>0 DEF Standing, Asking
  <2>3. Final(r)  BY <1>0
  <2> QED  BY <2>1, <2>2, <2>3, <1>c DEF Standing, Final, ServedLast, Exhausted, Asking
<1>5. ASSUME NEW r \in Requests, NEW v, RefusalStep(r, v)
      PROVE  Good(r)'
  <2>1. /\ log'[r] = Append(log[r], [member |-> Asked(r), verdict |-> v])
        /\ walk'[r].todo = Tail(walk[r].todo)
        /\ \/ /\ v # "gated" /\ walk'[r].phase \in Asking
              /\ Tail(walk[r].todo) # <<>> /\ walk'[r].answer = "pending"
           \/ /\ walk'[r].phase = "ended" /\ walk'[r].answer = "refused"
              /\ v = "gated" \/ Tail(walk[r].todo) = <<>>
    BY <1>5, RefusalLeaves
  <2>2. walk[r].phase \in Asking /\ v # "served"  BY <1>5 DEF RefusalStep
  <2>3. log[r] \in Seq(Attempt)  BY DEF TypeOK
  <2>4. /\ Len(log'[r]) = Len(log[r]) + 1 /\ log'[r] # <<>>
        /\ DOMAIN log'[r] = 1..(Len(log[r]) + 1)
        /\ log'[r][Len(log[r]) + 1] = [member |-> Asked(r), verdict |-> v]
        /\ \A i \in 1..Len(log[r]) : log'[r][i] = log[r][i]
    BY <2>1, <2>3
  <2>5. \A i \in 1..Len(log[r]) : log[r][i].verdict \notin {"gated", "served"}
    BY <2>2, <2>3, <1>0 DEF Final, Asking
  <2>6. Standing(r)'
    BY <2>1, <2>4 DEF Standing, Asking
  <2>7. Final(r)'
    <3>1. SUFFICES ASSUME NEW i \in 1..(Len(log[r]) + 1),
                          log'[r][i].verdict \in {"gated", "served"}
                   PROVE  i = Len(log[r]) + 1 /\ walk'[r].phase = "ended"
      BY <2>4 DEF Final
    <3>2. Len(log[r]) \in Nat  BY <2>3
    <3>3. i = Len(log[r]) + 1
      BY <3>1, <3>2, <2>4, <2>5
    <3> QED  BY <3>1, <3>3, <2>1, <2>2, <2>4
  <2>8. ServedLast(r)' /\ Exhausted(r)'
    BY <2>1, <2>4, <1>c DEF ServedLast, Exhausted
  <2> QED  BY <2>6, <2>7, <2>8
<1>6. ASSUME NEW r \in Requests, Serves(r)
      PROVE  Good(r)'
  <2>1. /\ walk[r].phase = "stream" /\ walk'[r].phase = "ended"
        /\ walk'[r].answer = Asked(r) /\ walk'[r].todo = <<>>
        /\ log'[r] = Append(log[r], [member |-> Asked(r), verdict |-> "served"])
    BY <1>6 DEF Serves, Logged, TypeOK
  <2>2. Asked(r) \in Providers  BY <2>1, RefusalTypes DEF Asking
  <2>3. log[r] \in Seq(Attempt)  BY DEF TypeOK
  <2>4. /\ Len(log'[r]) = Len(log[r]) + 1 /\ log'[r] # <<>>
        /\ DOMAIN log'[r] = 1..(Len(log[r]) + 1)
        /\ log'[r][Len(log[r]) + 1] = [member |-> Asked(r), verdict |-> "served"]
        /\ \A i \in 1..Len(log[r]) : log'[r][i] = log[r][i]
    BY <2>1, <2>3
  <2>5. \A i \in 1..Len(log[r]) : log[r][i].verdict \notin {"gated", "served"}
    BY <2>1, <2>3, <1>0 DEF Final
  <2>6. Final(r)'
    <3>1. SUFFICES ASSUME NEW i \in 1..(Len(log[r]) + 1),
                          log'[r][i].verdict \in {"gated", "served"}
                   PROVE  i = Len(log[r]) + 1
      BY <2>1, <2>4 DEF Final
    <3>2. Len(log[r]) \in Nat  BY <2>3
    <3> QED  BY <3>1, <3>2, <2>4, <2>5
  <2>7. Standing(r)' /\ ServedLast(r)' /\ Exhausted(r)'
    BY <2>1, <2>2, <2>4, <1>c DEF Standing, Asking, ServedLast, Exhausted
  <2> QED  BY <2>6, <2>7
<1>7. ASSUME NEW r \in Requests, BudgetOut(r)
      PROVE  Good(r)'
  <2>1. /\ walk[r].phase \in Asking \cup {"resolving"} /\ walk'[r].phase = "ended"
        /\ walk'[r].answer = "optimistic" /\ log'[r] = log[r]
    BY <1>7 DEF BudgetOut, TypeOK
  <2>2. Final(r)  BY <1>0
  <2> QED  BY <2>1, <2>2, <1>c DEF Standing, Final, ServedLast, Exhausted, Asking
<1>8. ASSUME Aside, NEW q \in Requests
      PROVE  Good(q)'
  <2>1. PICK h \in {"live", "dead"} : walk'[q] = [walk[q] EXCEPT !.http = h]
    BY <1>8 DEF Aside
  <2>2. /\ walk'[q].phase = walk[q].phase /\ walk'[q].todo = walk[q].todo
        /\ walk'[q].answer = walk[q].answer
    BY <2>1 DEF TypeOK
  <2>3. log' = log /\ press' = press  BY <1>8 DEF Aside
  <2> QED  BY <2>2, <2>3, <1>0 DEF Standing, Final, ServedLast, Exhausted
<1>9. CASE UNCHANGED vars
  BY <1>9, <1>b DEF vars
<1>10. CASE Next
  BY <1>10, StepShapes, OthersAlone, <1>b, <1>1, <1>2, <1>3, <1>4, <1>5, <1>6, <1>7, <1>8
<1> QED  BY <1>9, <1>10

-----------------------------------------------------------------------------
\* One request's part of EveryPlayAttested, a request that counts first.
Accounted(r) ==
    /\ walk[r].answer = "refused" => FaultsOf(r) # {}
    /\ \A p \in Providers : <<r, p>> \in served <=> walk[r].answer = p
    /\ \A i \in DOMAIN log[r] :
          IF log[r][i].verdict = "served" THEN <<r, log[r][i].member>> \in served
          ELSE \E f \in FaultsOf(r) : f.nth = i
    /\ \A f \in FaultsOf(r) :
          IF f.nth = 0 THEN log[r] = <<>> /\ walk[r].answer = "refused"
          ELSE f.nth \in DOMAIN log[r] /\ Charges(r, f, log[r][f.nth])
    /\ \A f, g \in FaultsOf(r) : f.nth = g.nth => f = g

OnRecord(r) ==
    IF press[r].route = "subtitle"
    THEN FaultsOf(r) = {} /\ \A p \in Providers : <<r, p>> \notin served
    ELSE Accounted(r)

LEMMA RecordParts == EveryPlayAttested <=> \A r \in Requests : OnRecord(r)
BY DEF EveryPlayAttested, OnRecord, Accounted

\* A refusal adds one fault of its request if that request counts.
LEMMA RefutedAdds ==
    ASSUME NEW r \in Requests, NEW n, NEW l, NEW c, faults' = Refuted(r, n, l, c)
    PROVE  /\ \A q \in Requests : q # r => FaultsOf(q)' = FaultsOf(q)
           /\ press[r].route = "subtitle" => FaultsOf(r)' = FaultsOf(r)
           /\ press[r].route # "subtitle" =>
                 FaultsOf(r)' = FaultsOf(r) \cup
                                {[item |-> r, nth |-> n, lane |-> l, code |-> c]}
<1> DEFINE f == [item |-> r, nth |-> n, lane |-> l, code |-> c]
<1>1. CASE press[r].route = "subtitle"
  <2>1. faults' = faults  BY <1>1 DEF Refuted, Counted
  <2> QED  BY <1>1, <2>1 DEF FaultsOf
<1>2. CASE press[r].route # "subtitle"
  <2>1. faults' = faults \cup {f}  BY <1>2 DEF Refuted, Counted
  <2>2. f.item = r  OBVIOUS
  <2> HIDE DEF f
  <2> QED  BY <1>2, <2>1, <2>2 DEF FaultsOf, f
<1> QED  BY <1>1, <1>2

\* The code of a refusal is what its verdict comes to on its route.
LEMMA ToldCharges ==
    ASSUME NEW r \in Requests, NEW p \in Providers, NEW v \in Verdicts \ {"served"},
           NEW f, f.lane = Attributed(p, v), f.code = Told(r, v)
    PROVE  Charges(r, f, [member |-> p, verdict |-> v])
<1> DEFINE e == [member |-> p, verdict |-> v]
<1>1. e.member = p /\ e.verdict = v  OBVIOUS
<1>2. f.lane = IF v = "engine" THEN Engine ELSE p  BY DEF Attributed
<1>3. v # "served" /\ v # "upstream"
  BY DEF Verdicts, LaneFaults, ItemVerdicts
<1>4. f.code = "upstream" <=> press[r].route = "native" /\ v \notin {"gated", "bad_track"}
  BY <1>3 DEF Told
<1>5. f.code # "upstream" => f.code = IF v = "engine" THEN "lane" ELSE v
  BY <1>3 DEF Told
<1> HIDE DEF e
<1> QED  BY <1>1, <1>2, <1>3, <1>4, <1>5 DEF Charges, e

\* Whatever a step does, the attestation keeps telling the truth of every
\* request.
LEMMA NextAttested ==
    ASSUME TypeOK, WalkInv, ClientInv, EveryPlayAttested, [Next]_vars
    PROVE  EveryPlayAttested'
<1>0. \A q \in Requests : OnRecord(q)  BY RecordParts
<1>a. SUFFICES \A q \in Requests : OnRecord(q)'
  BY DEF EveryPlayAttested, OnRecord, Accounted
<1>b. ASSUME NEW q \in Requests, walk'[q].answer = walk[q].answer, log'[q] = log[q],
             press'[q] = press[q], FaultsOf(q)' = FaultsOf(q),
             \A p \in Providers : <<q, p>> \in served' <=> <<q, p>> \in served
      PROVE  OnRecord(q)'
  <2>1. OnRecord(q)  BY <1>0
  <2>2. ASSUME press[q].route # "subtitle", Accounted(q)  PROVE Accounted(q)'
    <3>1. \A i \in DOMAIN log[q] : log[q][i].member \in Providers
      <4>1. log[q] \in Seq(Attempt)  BY DEF TypeOK
      <4>2. \A i \in DOMAIN log[q] : log[q][i] \in Attempt  BY <4>1
      <4> QED  BY <4>2 DEF Attempt
    <3>2. \A f, e : Charges(q, f, e)' <=> Charges(q, f, e)
      BY <1>b DEF Charges
    <3> QED  BY <1>b, <2>2, <3>1, <3>2 DEF Accounted
  <2> QED  BY <1>b, <2>1, <2>2 DEF OnRecord
<1>c. "pending" \notin Providers /\ "refused" \notin Providers /\ "optimistic" \notin Providers
  BY PlayAssumption
<1>1. ASSUME NEW r \in Requests, NEW l, NEW c, EarlyStep(r, l, c)
      PROVE  \A q \in Requests : OnRecord(q)'
  <2>1. /\ \A q \in Requests : q # r => FaultsOf(q)' = FaultsOf(q)
        /\ press[r].route = "subtitle" => FaultsOf(r)' = FaultsOf(r)
        /\ press[r].route # "subtitle" =>
              FaultsOf(r)' = FaultsOf(r) \cup
                             {[item |-> r, nth |-> 0, lane |-> l, code |-> c]}
    BY <1>1, RefutedAdds DEF EarlyStep, RefusedEarly
  <2>2. ASSUME NEW q \in Requests, q # r  PROVE OnRecord(q)'
    <3>1. served' = served  BY <1>1 DEF EarlyStep, RefusedEarly
    <3>2. walk'[q] = walk[q] /\ log'[q] = log[q] /\ press'[q] = press[q]
      BY <1>1, <2>2, OthersAlone
    <3> QED  BY <2>1, <2>2, <3>1, <3>2, <1>b
  <2>3. /\ walk'[r].answer = "refused" /\ log'[r] = <<>> /\ walk[r].answer = "pending"
        /\ log[r] = <<>> /\ press'[r] = press[r] /\ served' = served
    BY <1>1 DEF EarlyStep, RefusedEarly, TypeOK, WalkInv, Standing
  <2>4. ASSUME press[r].route # "subtitle"  PROVE Accounted(r)'
    <3> DEFINE f == [item |-> r, nth |-> 0, lane |-> l, code |-> c]
    <3>1. FaultsOf(r) = {}  BY <2>3, <2>4, <1>0 DEF OnRecord, Accounted
    <3>2. FaultsOf(r)' = {f} /\ f.nth = 0  BY <2>1, <2>4, <3>1
    <3> HIDE DEF f
    <3> QED  BY <2>3, <2>4, <3>2, <1>0, <1>c DEF OnRecord, Accounted
  <2>5. OnRecord(r)'
    BY <2>1, <2>3, <2>4, <1>0, <1>c DEF OnRecord
  <2> QED  BY <2>2, <2>5
<1>2. ASSUME NEW r \in Requests, NEW s, BeginStep(r, s) \/ ResolveStep(r, s)
      PROVE  \A q \in Requests : OnRecord(q)'
  <2>1. faults' = faults /\ served' = served
    BY <1>2 DEF BeginStep, Begins, ResolveStep, attestation
  <2>2. walk'[r].answer = walk[r].answer /\ log'[r] = log[r] /\ press'[r] = press[r]
    BY <1>2 DEF BeginStep, Begins, ResolveStep, TypeOK
  <2> QED  BY <1>2, <2>1, <2>2, <1>b, OthersAlone DEF FaultsOf
<1>3. ASSUME NEW r \in Requests, GatePasses(r)
      PROVE  \A q \in Requests : OnRecord(q)'
  <2>1. faults' = faults /\ served' = served  BY <1>3 DEF GatePasses, attestation
  <2>2. walk'[r].answer = walk[r].answer /\ log'[r] = log[r] /\ press'[r] = press[r]
    BY <1>3 DEF GatePasses, TypeOK
  <2> QED  BY <1>3, <2>1, <2>2, <1>b, OthersAlone DEF FaultsOf
<1>4. ASSUME NEW r \in Requests, NEW v, RefusalStep(r, v)
      PROVE  \A q \in Requests : OnRecord(q)'
  <2>1. /\ \A q \in Requests : q # r => FaultsOf(q)' = FaultsOf(q)
        /\ press[r].route = "subtitle" => FaultsOf(r)' = FaultsOf(r)
        /\ press[r].route # "subtitle" =>
              FaultsOf(r)' = FaultsOf(r) \cup
                             {[item |-> r, nth |-> Len(log[r]) + 1,
                               lane |-> Attributed(Asked(r), v), code |-> Told(r, v)]}
    BY <1>4, RefutedAdds DEF RefusalStep, Attested
  <2>2. served' = served /\ press' = press  BY <1>4 DEF RefusalStep
  <2>3. ASSUME NEW q \in Requests, q # r  PROVE OnRecord(q)'
    BY <1>4, <2>1, <2>2, <2>3, <1>b, OthersAlone
  <2>4. /\ log'[r] = Append(log[r], [member |-> Asked(r), verdict |-> v])
        /\ walk'[r].answer \in {"pending", "refused"}
    BY <1>4, RefusalLeaves
  <2>5. walk[r].answer = "pending"
    BY <1>4 DEF RefusalStep, WalkInv, Standing, Asking
  <2>6. /\ DOMAIN log'[r] = 1..(Len(log[r]) + 1)
        /\ DOMAIN log[r] = 1..Len(log[r]) /\ Len(log[r]) \in Nat
        /\ \A i \in 1..Len(log[r]) : log'[r][i] = log[r][i]
    <3>1. log[r] \in Seq(Attempt)  BY DEF TypeOK
    <3> QED  BY <3>1, <2>4
  <2>7. ASSUME press[r].route = "subtitle"  PROVE OnRecord(r)'
    BY <2>1, <2>2, <2>7, <1>0 DEF OnRecord
  <2>8. ASSUME press[r].route # "subtitle"  PROVE OnRecord(r)'
    <3> DEFINE f == [item |-> r, nth |-> Len(log[r]) + 1,
                     lane |-> Attributed(Asked(r), v), code |-> Told(r, v)]
               e == [member |-> Asked(r), verdict |-> v]
    <3>1. /\ FaultsOf(r)' = FaultsOf(r) \cup {f}
          /\ f.nth = Len(log[r]) + 1 /\ f.lane = Attributed(Asked(r), v) /\ f.code = Told(r, v)
      BY <2>1, <2>8
    <3>2. Asked(r) \in Providers /\ v \in Verdicts \ {"served"}
      BY <1>4, RefusalTypes DEF RefusalStep
    <3>3. log'[r][Len(log[r]) + 1] = e /\ e.verdict # "served"
      BY <2>4, <3>2 DEF TypeOK
    <3> HIDE DEF f
    <3>4. Charges(r, f, e)
      BY <3>1, <3>2, ToldCharges
    <3> HIDE DEF e
    <3>5. Accounted(r)  BY <1>0, <2>8 DEF OnRecord
    <3>6. \A g, d : Charges(r, g, d)' <=> Charges(r, g, d)
      BY <2>2 DEF Charges
    <3>7. \A g \in FaultsOf(r) : g.nth \in DOMAIN log[r] /\ Charges(r, g, log[r][g.nth])
      BY <2>5, <3>5 DEF Accounted
    <3>8. \A g \in FaultsOf(r)' :
             g.nth # 0 /\ g.nth \in DOMAIN log'[r] /\ Charges(r, g, log'[r][g.nth])
      BY <2>6, <3>1, <3>3, <3>4, <3>7
    <3>9. \A g, h \in FaultsOf(r)' : g.nth = h.nth => g = h
      BY <2>6, <3>1, <3>5, <3>7 DEF Accounted
    <3>10. ASSUME NEW i \in DOMAIN log'[r]
           PROVE  IF log'[r][i].verdict = "served" THEN <<r, log'[r][i].member>> \in served
                  ELSE \E g \in FaultsOf(r)' : g.nth = i
      <4>1. CASE i = Len(log[r]) + 1  BY <4>1, <3>1, <3>3
      <4>2. CASE i # Len(log[r]) + 1
        <5>1. i \in DOMAIN log[r] /\ log'[r][i] = log[r][i]  BY <4>2, <2>6
        <5> QED  BY <5>1, <3>1, <3>5 DEF Accounted
      <4> QED  BY <4>1, <4>2
    <3>11. \A p \in Providers : <<r, p>> \in served' <=> walk'[r].answer = p
      BY <2>2, <2>4, <2>5, <3>5, <1>c DEF Accounted
    <3>12. FaultsOf(r)' # {}  BY <3>1
    <3>13. Accounted(r)'
      BY <2>2, <3>6, <3>8, <3>9, <3>10, <3>11, <3>12 DEF Accounted
    <3> QED  BY <2>2, <2>8, <3>13 DEF OnRecord
  <2> QED  BY <2>3, <2>7, <2>8
<1>5. ASSUME NEW r \in Requests, Serves(r)
      PROVE  \A q \in Requests : OnRecord(q)'
  <2>1. faults' = faults  BY <1>5 DEF Serves
  <2>2. served' = IF Counted(r) THEN served \cup {<<r, Asked(r)>>} ELSE served
    BY <1>5 DEF Serves
  <2>3. ASSUME NEW q \in Requests, q # r  PROVE OnRecord(q)'
    BY <1>5, <2>1, <2>2, <2>3, <1>b, OthersAlone DEF FaultsOf
  <2>4. /\ walk'[r].answer = Asked(r) /\ press' = press
        /\ log'[r] = Append(log[r], [member |-> Asked(r), verdict |-> "served"])
    BY <1>5 DEF Serves, Logged, TypeOK
  <2>5. Asked(r) \in Providers /\ walk[r].answer = "pending"
    BY <1>5, RefusalTypes DEF Serves, Asking, WalkInv, Standing
  <2>6. /\ DOMAIN log'[r] = 1..(Len(log[r]) + 1) /\ Len(log[r]) \in Nat
        /\ DOMAIN log[r] = 1..Len(log[r])
        /\ log'[r][Len(log[r]) + 1] = [member |-> Asked(r), verdict |-> "served"]
        /\ \A i \in 1..Len(log[r]) : log'[r][i] = log[r][i]
    <3>1. log[r] \in Seq(Attempt)  BY DEF TypeOK
    <3> QED  BY <3>1, <2>4
  <2>7. FaultsOf(r)' = FaultsOf(r)  BY <2>1 DEF FaultsOf
  <2>8. ASSUME press[r].route = "subtitle"  PROVE OnRecord(r)'
    BY <2>2, <2>4, <2>7, <2>8, <1>0 DEF OnRecord, Counted
  <2>9. ASSUME press[r].route # "subtitle"  PROVE OnRecord(r)'
    <3>1. served' = served \cup {<<r, Asked(r)>>}  BY <2>2, <2>9 DEF Counted
    <3>2. \A p \in Providers : <<r, p>> \notin served
      BY <2>5, <2>9, <1>0, <1>c DEF OnRecord, Accounted
    <3>3. \A p \in Providers : <<r, p>> \in served' <=> walk'[r].answer = p
      BY <3>1, <3>2, <2>4
    <3>4. walk'[r].answer # "refused"  BY <2>4, <2>5, <1>c
    <3>5. Accounted(r)  BY <1>0, <2>9 DEF OnRecord
    <3>6. \A g, d : Charges(r, g, d)' <=> Charges(r, g, d)
      BY <2>4 DEF Charges
    <3>7. \A g \in FaultsOf(r) :
             /\ g.nth # 0 /\ g.nth \in DOMAIN log'[r] /\ Charges(r, g, log'[r][g.nth])
      BY <2>5, <2>6, <3>5 DEF Accounted
    <3>8. ASSUME NEW i \in DOMAIN log'[r]
          PROVE  IF log'[r][i].verdict = "served" THEN <<r, log'[r][i].member>> \in served'
                 ELSE \E g \in FaultsOf(r) : g.nth = i
      <4>1. CASE i = Len(log[r]) + 1  BY <4>1, <2>6, <3>1
      <4>2. CASE i # Len(log[r]) + 1
        <5>1. i \in DOMAIN log[r] /\ log'[r][i] = log[r][i]  BY <4>2, <2>6
        <5> QED  BY <5>1, <3>1, <3>5 DEF Accounted
      <4> QED  BY <4>1, <4>2
    <3>9. Accounted(r)'
      BY <2>7, <3>3, <3>4, <3>5, <3>6, <3>7, <3>8 DEF Accounted
    <3> QED  BY <2>4, <2>9, <3>9 DEF OnRecord
  <2> QED  BY <2>3, <2>8, <2>9
<1>6. ASSUME NEW r \in Requests, BudgetOut(r)
      PROVE  \A q \in Requests : OnRecord(q)'
  <2>1. faults' = faults /\ served' = served  BY <1>6 DEF BudgetOut, attestation
  <2>2. /\ walk'[r].answer = "optimistic" /\ log'[r] = log[r] /\ press'[r] = press[r]
        /\ walk[r].answer = "pending"
    BY <1>6 DEF BudgetOut, TypeOK, WalkInv, Standing, Asking
  <2>3. OnRecord(r)'
    <3>1. FaultsOf(r)' = FaultsOf(r)  BY <2>1 DEF FaultsOf
    <3>2. \A g, d : Charges(r, g, d)' <=> Charges(r, g, d)
      BY <2>2 DEF Charges
    <3>3. ASSUME Accounted(r)  PROVE Accounted(r)'
      BY <2>1, <2>2, <3>1, <3>2, <3>3, <1>c DEF Accounted
    <3> QED  BY <2>1, <2>2, <3>1, <3>3, <1>0 DEF OnRecord
  <2> QED  BY <1>6, <2>1, <2>3, <1>b, OthersAlone DEF FaultsOf
<1>7. ASSUME Aside
      PROVE  \A q \in Requests : OnRecord(q)'
  <2>1. faults' = faults /\ served' = served /\ log' = log /\ press' = press
    BY <1>7 DEF Aside, attestation
  <2>2. ASSUME NEW q \in Requests  PROVE walk'[q].answer = walk[q].answer
    <3>1. PICK h \in {"live", "dead"} : walk'[q] = [walk[q] EXCEPT !.http = h]
      BY <1>7 DEF Aside
    <3> QED  BY <3>1 DEF TypeOK
  <2> QED  BY <2>1, <2>2, <1>b DEF FaultsOf
<1>8. CASE UNCHANGED vars
  BY <1>8, <1>b DEF vars, FaultsOf
<1>9. CASE Next
  BY <1>9, StepShapes, <1>1, <1>2, <1>3, <1>4, <1>5, <1>6, <1>7
<1> QED  BY <1>8, <1>9

-----------------------------------------------------------------------------
\* No entry of a log is ever changed or lost, and what a refusal or a serving
\* logs is its last.
LEMMA LogsGrow ==
    ASSUME TypeOK, NEW r \in Requests, NEW v, log' = Logged(r, v)
    PROVE  /\ \A q \in Requests : \A j \in DOMAIN log[q] :
                 j \in DOMAIN log'[q] /\ log'[q][j] = log[q][j]
           /\ \E j \in DOMAIN log'[r] : log'[r][j] = [member |-> Asked(r), verdict |-> v]
<1> DEFINE e == [member |-> Asked(r), verdict |-> v]
<1>1. log'[r] = Append(log[r], e) /\ \A q \in Requests : q # r => log'[q] = log[q]
  BY DEF Logged, TypeOK
<1> HIDE DEF e
<1>2. log[r] \in Seq(Attempt)  BY DEF TypeOK
<1>3. /\ DOMAIN log'[r] = 1..(Len(log[r]) + 1) /\ Len(log[r]) \in Nat
      /\ DOMAIN log[r] = 1..Len(log[r])
      /\ log'[r][Len(log[r]) + 1] = e
      /\ \A i \in 1..Len(log[r]) : log'[r][i] = log[r][i]
  BY <1>1, <1>2
<1>4. Len(log[r]) + 1 \in DOMAIN log'[r]  BY <1>3
<1>5. \A j \in DOMAIN log[r] : j \in DOMAIN log'[r] /\ log'[r][j] = log[r][j]
  BY <1>3
<1> QED  BY <1>1, <1>3, <1>4, <1>5 DEF e

\* Whatever a step does to the windows, each sample of a play is backed by its
\* log.
LEMMA NextHealth ==
    ASSUME TypeOK, WalkInv, ClientInv, SamplesBacked, [Next]_vars
    PROVE  SamplesBacked'
<1>0. \A l \in Lanes : \A i \in DOMAIN samples[l] : Backed(log, l, samples[l][i])
  BY DEF SamplesBacked
<1>a. SUFFICES \A l \in Lanes : \A i \in DOMAIN samples'[l] : Backed(log', l, samples'[l][i])
  BY DEF SamplesBacked, Backed, Backing
<1>b. ASSUME NEW l, NEW s, Backed(log, l, s),
             \A q \in Requests : \A j \in DOMAIN log[q] :
                j \in DOMAIN log'[q] /\ log'[q][j] = log[q][j]
      PROVE  Backed(log', l, s)
  BY <1>b DEF Backed
<1>c. ASSUME samples' = samples,
             \A q \in Requests : \A j \in DOMAIN log[q] :
                j \in DOMAIN log'[q] /\ log'[q][j] = log[q][j]
      PROVE  \A l \in Lanes : \A i \in DOMAIN samples'[l] : Backed(log', l, samples'[l][i])
  BY <1>0, <1>b, <1>c
<1>d. ASSUME NEW k \in Lanes, NEW ok \in BOOLEAN, NEW by \in Requests \cup {Background},
             samples' = Recorded(k, ok, by),
             \A q \in Requests : \A j \in DOMAIN log[q] :
                j \in DOMAIN log'[q] /\ log'[q][j] = log[q][j],
             Backed(log', k, [ok |-> ok, by |-> by])
      PROVE  \A l \in Lanes : \A i \in DOMAIN samples'[l] : Backed(log', l, samples'[l][i])
  <2>1. SUFFICES ASSUME NEW l \in Lanes, NEW i \in DOMAIN samples'[l]
                 PROVE  Backed(log', l, samples'[l][i])
    OBVIOUS
  <2>2. \/ \E j \in DOMAIN samples[l] : samples'[l][i] = samples[l][j]
        \/ l = k /\ samples'[l][i] = [ok |-> ok, by |-> by]
    BY <1>d, RecordedType DEF TypeOK
  <2>3. ASSUME NEW j \in DOMAIN samples[l], samples'[l][i] = samples[l][j]
        PROVE  Backed(log', l, samples'[l][i])
    <3>1. Backed(log, l, samples[l][j])  BY <1>0
    <3>2. Backed(log, l, samples'[l][i])  BY <3>1, <2>3
    <3> QED  BY <3>2, <1>b, <1>d
  <2> QED  BY <2>2, <2>3, <1>d
<1>1. ASSUME UNCHANGED <<samples, log>>
      PROVE  \A l \in Lanes : \A i \in DOMAIN samples'[l] : Backed(log', l, samples'[l][i])
  BY <1>1, <1>c
<1>2. ASSUME NEW r \in Requests, NEW v, RefusalStep(r, v)
      PROVE  \A l \in Lanes : \A i \in DOMAIN samples'[l] : Backed(log', l, samples'[l][i])
  <2>1. /\ \A q \in Requests : \A j \in DOMAIN log[q] :
              j \in DOMAIN log'[q] /\ log'[q][j] = log[q][j]
        /\ \E j \in DOMAIN log'[r] : log'[r][j] = [member |-> Asked(r), verdict |-> v]
    BY <1>2, LogsGrow DEF RefusalStep
  <2>2. Asked(r) \in Providers  BY <1>2, RefusalTypes DEF RefusalStep
  <2>3. ASSUME v \in LaneFaults, samples' = Recorded(Attributed(Asked(r), v), FALSE, r)
        PROVE  \A l \in Lanes : \A i \in DOMAIN samples'[l] : Backed(log', l, samples'[l][i])
    <3> DEFINE k == Attributed(Asked(r), v)
    <3>1. k \in Lanes  BY <2>2, AttributedType
    <3>2. \A e : e = [member |-> Asked(r), verdict |-> v]
                  => Backing(k, [ok |-> FALSE, by |-> r], e)
      BY <2>3 DEF Backing, Attributed, LaneFaults
    <3> HIDE DEF k
    <3>3. Backed(log', k, [ok |-> FALSE, by |-> r])  BY <3>2, <2>1 DEF Backed
    <3>4. samples' = Recorded(k, FALSE, r)  BY <2>3 DEF k
    <3> QED  BY <3>1, <3>3, <3>4, <2>1, <1>d
  <2> QED  BY <1>2, <2>1, <2>3, <1>c DEF RefusalStep
<1>3. ASSUME NEW r \in Requests, Serves(r)
      PROVE  \A l \in Lanes : \A i \in DOMAIN samples'[l] : Backed(log', l, samples'[l][i])
  <2>1. /\ \A q \in Requests : \A j \in DOMAIN log[q] :
              j \in DOMAIN log'[q] /\ log'[q][j] = log[q][j]
        /\ \E j \in DOMAIN log'[r] :
              log'[r][j] = [member |-> Asked(r), verdict |-> "served"]
    BY <1>3, LogsGrow DEF Serves
  <2>2. Asked(r) \in Lanes  BY <1>3, RefusalTypes DEF Serves, Asking, Lanes
  <2>3. \A e : e = [member |-> Asked(r), verdict |-> "served"]
                => Backing(Asked(r), [ok |-> TRUE, by |-> r], e)
    BY DEF Backing
  <2>4. Backed(log', Asked(r), [ok |-> TRUE, by |-> r])
    BY <2>1, <2>3 DEF Backed
  <2> QED  BY <1>3, <2>1, <2>2, <2>4, <1>d DEF Serves
<1>4. ASSUME Aside
      PROVE  \A l \in Lanes : \A i \in DOMAIN samples'[l] : Backed(log', l, samples'[l][i])
  <2>1. \A q \in Requests : \A j \in DOMAIN log[q] :
           j \in DOMAIN log'[q] /\ log'[q][j] = log[q][j]
    BY <1>4 DEF Aside
  <2>2. ASSUME NEW l \in Lanes, NEW ok \in BOOLEAN
        PROVE  Backed(log', l, [ok |-> ok, by |-> Background])
    BY PlayAssumption DEF Backed
  <2> QED  BY <1>4, <2>1, <2>2, <1>c, <1>d DEF Aside
<1>5. ASSUME NEW r \in Requests, NEW l, NEW c, EarlyStep(r, l, c)
      PROVE  UNCHANGED <<samples, log>>
  BY <1>5 DEF EarlyStep, RefusedEarly, tracker
<1>6. ASSUME NEW r \in Requests, NEW s, BeginStep(r, s) \/ ResolveStep(r, s)
      PROVE  UNCHANGED <<samples, log>>
  BY <1>6 DEF BeginStep, Begins, ResolveStep, tracker
<1>7. ASSUME NEW r \in Requests, GatePasses(r) \/ BudgetOut(r)
      PROVE  UNCHANGED <<samples, log>>
  BY <1>7 DEF GatePasses, BudgetOut, tracker
<1>8. CASE UNCHANGED vars
  BY <1>8, <1>1 DEF vars
<1>9. CASE Next
  BY <1>9, StepShapes, <1>1, <1>2, <1>3, <1>4, <1>5, <1>6, <1>7
<1> QED  BY <1>8, <1>9

-----------------------------------------------------------------------------
\* The watchdog awaits close_client() exactly while the client is being closed.
LEMMA NextClient ==
    ASSUME TypeOK, WalkInv, ClientInv, [Next]_vars
    PROVE  ClientInv'
<1>1. ASSUME NEW r \in Requests, NEW l, NEW c, EarlyStep(r, l, c)
      PROVE  UNCHANGED <<client, watchdog>>
  BY <1>1 DEF EarlyStep, RefusedEarly, dog
<1>2. ASSUME NEW r \in Requests, NEW s, BeginStep(r, s)
      PROVE  ClientInv'
  BY <1>2 DEF BeginStep, Begins, dog, GotClient, ClientInv
<1>3. ASSUME NEW r \in Requests, NEW s, ResolveStep(r, s)
      PROVE  UNCHANGED <<client, watchdog>>
  BY <1>3 DEF ResolveStep, dog
<1>4. ASSUME NEW r \in Requests, GatePasses(r) \/ Serves(r) \/ BudgetOut(r)
      PROVE  UNCHANGED <<client, watchdog>>
  BY <1>4 DEF GatePasses, Serves, BudgetOut, dog
<1>5. ASSUME NEW r \in Requests, NEW v, RefusalStep(r, v)
      PROVE  UNCHANGED <<client, watchdog>>
  BY <1>5 DEF RefusalStep, dog
<1>6. ASSUME Aside
      PROVE  ClientInv'
  BY <1>6 DEF Aside, ClientInv
<1>7. ASSUME UNCHANGED <<client, watchdog>>
      PROVE  ClientInv'
  BY <1>7 DEF ClientInv
<1>8. CASE UNCHANGED vars
  BY <1>8, <1>7 DEF vars, dog
<1>9. CASE Next
  BY <1>9, StepShapes, <1>1, <1>2, <1>3, <1>4, <1>5, <1>6, <1>7
<1> QED  BY <1>8, <1>9

\* The invariant holds at the start, where nothing was asked or recorded.
LEMMA PlayInit == Init => PlayInv
<1> SUFFICES ASSUME Init  PROVE PlayInv  OBVIOUS
<1>1. TypeOK  BY InitTypes
<1>2. \A r \in Requests : /\ walk[r].phase = "idle" /\ walk[r].answer = "pending"
                          /\ log[r] = <<>>
  BY DEF Init
<1>3. \A r \in Requests : Standing(r)  BY <1>2 DEF Standing, Asking
<1>4. "pending" \notin Providers  BY PlayAssumption
<1>5. AnswerIsTheWalks  BY <1>2, <1>4 DEF AnswerIsTheWalks
<1>6. EveryPlayAttested
  <2>1. faults = {} /\ served = {}  BY DEF Init
  <2> QED  BY <2>1, <1>2, <1>4 DEF EveryPlayAttested, FaultsOf
<1>7. SamplesBacked
  <2>1. \A l \in Lanes : samples[l] = <<>>  BY DEF Init
  <2> QED  BY <2>1 DEF SamplesBacked
<1>8. ClientInv  BY DEF Init, ClientInv
<1> QED  BY <1>1, <1>3, <1>5, <1>6, <1>7, <1>8 DEF PlayInv, WalkInv

LEMMA PlayNext == PlayInv /\ [Next]_vars => PlayInv'
BY NextTypes, NextWalks, NextAttested, NextHealth, NextClient DEF PlayInv

\* Every behaviour keeps the invariant.
THEOREM PlayInvariant == Spec => []PlayInv
BY PlayInit, PlayNext, PTL DEF Spec

\* A request, its walk, the two records and the client always have their types,
\* and no window of the health tracker outgrows its bound.
THEOREM PlayTypeCorrect == Spec => []TypeOK
<1>1. PlayInv => TypeOK  BY DEF PlayInv
<1> QED  BY <1>1, PlayInvariant, PTL

\* Whatever the group and however the providers answer, a walk is answered by
\* its last member, and never goes on past one that gated or served.
THEOREM WalksAnswer == Spec => []AnswerIsTheWalks
<1>1. PlayInv => AnswerIsTheWalks  BY DEF PlayInv
<1> QED  BY <1>1, PlayInvariant, PTL

\* The attestation tells the truth of every request: each refused attempt of a
\* counted play is on it once, under the lane at fault and with the code its
\* client was told, each serving under the member that served, nothing else, and
\* a subtitle never.
THEOREM PlaysAttested == Spec => []EveryPlayAttested
<1>1. PlayInv => EveryPlayAttested  BY DEF PlayInv
<1> QED  BY <1>1, PlayInvariant, PTL

\* No lane is charged for another lane's fault or for a verdict about a title,
\* and what it is charged for the attestation charges to the same lane.
THEOREM HealthEarned == Spec => []HealthIsEarned
<1>1. ASSUME PlayInv  PROVE HealthIsEarned
  <2> SUFFICES ASSUME NEW l \in Lanes, NEW i \in DOMAIN samples[l],
                      samples[l][i].by \in Requests
               PROVE  LET s == samples[l][i]
                      IN  \E j \in DOMAIN log[s.by] :
                             LET e == log[s.by][j]
                             IN  IF s.ok
                                 THEN /\ e.verdict = "served" /\ e.member = l
                                      /\ Counted(s.by) => <<s.by, l>> \in served
                                 ELSE /\ \/ e.verdict \in {"lane", "crash"} /\ e.member = l
                                         \/ e.verdict = "engine" /\ l = Engine
                                      /\ Counted(s.by) =>
                                            \E f \in FaultsOf(s.by) : f.nth = j /\ f.lane = l
    BY DEF HealthIsEarned
  <2> DEFINE s == samples[l][i]
             r == s.by
  <2>1. PICK j \in DOMAIN log[r] : Backing(l, s, log[r][j])
    BY <1>1 DEF PlayInv, SamplesBacked, Backed
  <2>2. r \in Requests /\ OnRecord(r) /\ log[r] \in Seq(Attempt)
    BY <1>1, RecordParts DEF PlayInv, TypeOK
  <2> HIDE DEF s, r
  <2>3. Counted(r) => Accounted(r)
    BY <2>2 DEF Counted, OnRecord
  <2>4. CASE s.ok
    <3>1. log[r][j].verdict = "served" /\ log[r][j].member = l
      BY <2>1, <2>4 DEF Backing
    <3>2. Counted(r) => <<r, l>> \in served
      BY <2>3, <3>1 DEF Accounted
    <3> QED  BY <2>1, <2>4, <3>1, <3>2 DEF r, s
  <2>5. CASE ~s.ok
    <3>1. \/ log[r][j].verdict \in {"lane", "crash"} /\ log[r][j].member = l
          \/ log[r][j].verdict = "engine" /\ l = Engine
      BY <2>1, <2>5 DEF Backing
    <3>2. ASSUME Counted(r)
          PROVE  \E f \in FaultsOf(r) : f.nth = j /\ f.lane = l
      <4>1. PICK f \in FaultsOf(r) : f.nth = j
        BY <2>1, <2>3, <3>1, <3>2 DEF Accounted
      <4>2. j # 0  BY <2>1, <2>2
      <4>3. Charges(r, f, log[r][j])
        BY <2>3, <3>2, <4>1, <4>2 DEF Accounted
      <4>4. f.lane = l  BY <3>1, <4>3 DEF Charges
      <4> QED  BY <4>1, <4>4
    <3> QED  BY <2>1, <2>5, <3>1, <3>2 DEF r, s
  <2> QED  BY <2>4, <2>5
<1> QED  BY <1>1, PlayInvariant, PTL

\* Outside a reset no request begins with a client that is closed.
THEOREM DeadClientConfined == Spec => DeadClientOnlyInTheReset
<1> DEFINE Live == \A r \in Requests :
              walk[r].phase \notin Asking /\ walk'[r].phase \in Asking /\ watchdog = "idle"
              => walk'[r].http = "live"
<1>1. ASSUME PlayInv, [Next]_vars  PROVE [Live]_vars
  <2>0. TypeOK /\ WalkInv /\ ClientInv  BY <1>1 DEF PlayInv
  <2>1. SUFFICES ASSUME NEW q \in Requests, walk[q].phase \notin Asking,
                        walk'[q].phase \in Asking, watchdog = "idle"
                 PROVE  walk'[q].http = "live"
    OBVIOUS
  <2>2. ASSUME NEW r \in Requests, NEW s, BeginStep(r, s)
        PROVE  walk'[q].http = "live"
    <3>1. q # r => walk'[q] = walk[q]  BY <2>0, <2>2, OthersAlone
    <3>2. q = r  BY <3>1, <2>1
    <3>3. client # "closing"  BY <2>0, <2>1 DEF ClientInv
    <3>4. walk'[r].http = IF client = "closing" THEN "dead" ELSE "live"
      BY <2>0, <2>2 DEF BeginStep, Begins, TypeOK
    <3> QED  BY <3>2, <3>3, <3>4
  <2>3. ASSUME NEW r \in Requests,
               walk[r].phase \notin Asking => walk'[r].phase \notin Asking,
               q # r => walk'[q] = walk[q]
        PROVE  FALSE
    BY <2>1, <2>3
  <2>7. ASSUME NEW r \in Requests, NEW l, NEW c, EarlyStep(r, l, c)
        PROVE  FALSE
    <3>1. q # r => walk'[q] = walk[q]  BY <2>0, <2>7, OthersAlone
    <3>2. walk'[r].phase = "ended"
      BY <2>0, <2>7 DEF EarlyStep, RefusedEarly, TypeOK
    <3> QED  BY <3>1, <3>2, <2>3 DEF Asking
  <2>8. ASSUME NEW r \in Requests, NEW s, ResolveStep(r, s)
        PROVE  FALSE
    <3>1. q # r => walk'[q] = walk[q]  BY <2>0, <2>8, OthersAlone
    <3>2. walk'[r].phase = "resolving"  BY <2>0, <2>8 DEF ResolveStep, TypeOK
    <3> QED  BY <3>1, <3>2, <2>3 DEF Asking
  <2>9. ASSUME NEW r \in Requests, GatePasses(r) \/ Serves(r) \/ BudgetOut(r)
        PROVE  FALSE
    <3>1. q # r => walk'[q] = walk[q]  BY <2>0, <2>9, OthersAlone
    <3>2. walk[r].phase = "gate" \/ walk'[r].phase = "ended"
      <4>1. GatePasses(r) => walk[r].phase = "gate"  BY DEF GatePasses
      <4>2. Serves(r) => walk'[r].phase = "ended"  BY <2>0 DEF Serves, TypeOK
      <4>3. BudgetOut(r) => walk'[r].phase = "ended"  BY <2>0 DEF BudgetOut, TypeOK
      <4> QED  BY <2>9, <4>1, <4>2, <4>3
    <3> QED  BY <3>1, <3>2, <2>3 DEF Asking
  <2>10. ASSUME NEW r \in Requests, NEW v, RefusalStep(r, v)
        PROVE  FALSE
    <3>1. q # r => walk'[q] = walk[q]  BY <2>0, <2>10, OthersAlone
    <3>2. walk[r].phase \in Asking  BY <2>10 DEF RefusalStep
    <3> QED  BY <3>1, <3>2, <2>3
  <2>4. ASSUME Aside  PROVE FALSE
    <3>1. PICK h \in {"live", "dead"} : walk'[q] = [walk[q] EXCEPT !.http = h]
      BY <2>4 DEF Aside
    <3>2. walk'[q].phase = walk[q].phase  BY <3>1, <2>0 DEF TypeOK
    <3> QED  BY <3>2, <2>1
  <2>5. CASE UNCHANGED vars  BY <2>5, <2>1 DEF vars
  <2>6. CASE Next
    BY <2>0, <2>6, StepShapes, <2>2, <2>4, <2>7, <2>8, <2>9, <2>10
  <2> QED  BY <2>5, <2>6, <1>1
<1>2. PlayInv /\ [Next]_vars => [Live]_vars  BY <1>1
<1> QED  BY <1>2, PlayInvariant, PTL DEF Spec, DeadClientOnlyInTheReset

-----------------------------------------------------------------------------
(* The torrent lane, for any listings, files and bounds.                       *)

\* Nobody stands twice in a line.
Distinct(q) == \A i, j \in DOMAIN q : q[i] = q[j] => i = j

\* How many of a line are not among the n at its end.
Cut(q, n) == IF Len(q) > n THEN Len(q) - n ELSE 0

LEMMA LatestFacts ==
    ASSUME NEW S, NEW q \in Seq(S), NEW n \in Nat
    PROVE  /\ Latest(q, n) \in Seq(S) /\ Len(Latest(q, n)) = Len(q) - Cut(q, n)
           /\ \A i \in 1 .. Len(Latest(q, n)) : Latest(q, n)[i] = q[i + Cut(q, n)]
<1>1. Len(q) \in Nat /\ \A i \in 1 .. Len(q) : q[i] \in S
  OBVIOUS
<1>2. CASE Len(q) > n
  <2> DEFINE m == Len(q) - n + 1
  <2>1. m \in Int /\ \A i \in m .. Len(q) : q[i] \in S
    BY <1>1, <1>2
  <2>2. Latest(q, n) = SubSeq(q, m, Len(q))
    BY <1>2 DEF Latest
  <2>3. /\ SubSeq(q, m, Len(q)) \in Seq(S)
        /\ Len(SubSeq(q, m, Len(q))) = IF m <= Len(q) THEN Len(q) - m + 1 ELSE 0
        /\ \A i \in 1 .. Len(q) - m + 1 : SubSeq(q, m, Len(q))[i] = q[m + i - 1]
    BY <1>1, <2>1, SubSeqProperties
  <2>4. Len(q) - m + 1 = n /\ Cut(q, n) = Len(q) - n /\ Len(Latest(q, n)) = n
    <3>1. Len(q) - m + 1 = n /\ (m > Len(q) => n = 0)
      BY <1>1, <1>2
    <3>2. Cut(q, n) = Len(q) - n
      BY <1>2 DEF Cut
    <3> HIDE DEF m
    <3> QED BY <1>1, <2>1, <2>2, <2>3, <3>1, <3>2
  <2>5. \A i \in 1 .. n : m + i - 1 = i + Cut(q, n)
    BY <1>1, <2>4
  <2> HIDE DEF m
  <2> QED BY <1>1, <2>2, <2>3, <2>4, <2>5
<1>3. CASE ~(Len(q) > n)
  BY <1>1, <1>3 DEF Latest, Cut
<1> QED BY <1>2, <1>3

LEMMA LastUsedFacts ==
    ASSUME NEW S, NEW q \in Seq(S), Distinct(q), NEW x \in S
    PROVE  /\ x \notin ToSet(q) => LastUsed(q, x) = Append(q, x)
           /\ \A p \in 1 .. Len(q) : q[p] = x =>
                 /\ LastUsed(q, x) \in Seq(S) /\ Len(LastUsed(q, x)) = Len(q)
                 /\ \A i \in 1 .. Len(q) :
                       LastUsed(q, x)[i] = IF i = Len(q) THEN x ELSE IF i < p THEN q[i] ELSE q[i + 1]
<1> DEFINE here == {n \in DOMAIN q : q[n] = x}
<1>1. x \notin ToSet(q) => here = {}
  BY DEF ToSet
<1>2. here = {} => LastUsed(q, x) = Append(q, x)
  BY DEF LastUsed, Without
<1>3. ASSUME NEW p \in 1 .. Len(q), q[p] = x
      PROVE  /\ LastUsed(q, x) \in Seq(S) /\ Len(LastUsed(q, x)) = Len(q)
             /\ \A i \in 1 .. Len(q) :
                   LastUsed(q, x)[i] = IF i = Len(q) THEN x ELSE IF i < p THEN q[i] ELSE q[i + 1]
  <2>1. here = {p}
    BY <1>3 DEF Distinct
  <2>2. (CHOOSE n \in here : TRUE) = p
    BY <2>1
  <2> DEFINE front == SubSeq(q, 1, p - 1)
             back == SubSeq(q, p + 1, Len(q))
  <2>3. Without(q, x) = front \o back
    BY <2>1, <2>2 DEF Without, RemoveAt
  <2>4. Len(q) \in Nat /\ p \in Nat /\ p >= 1 /\ p <= Len(q) /\ \A i \in 1 .. Len(q) : q[i] \in S
    OBVIOUS
  <2>5. /\ front \in Seq(S) /\ Len(front) = p - 1
        /\ \A i \in 1 .. p - 1 : front[i] = q[i]
    <3>1. \A i \in 1 .. p - 1 : q[i] \in S
      BY <2>4
    <3>2. /\ front \in Seq(S) /\ Len(front) = IF 1 <= p - 1 THEN p - 1 - 1 + 1 ELSE 0
          /\ \A i \in 1 .. p - 1 - 1 + 1 : front[i] = q[1 + i - 1]
      BY <2>4, <3>1, SubSeqProperties
    <3> HIDE DEF front
    <3> QED BY <2>4, <3>2
  <2>6. /\ back \in Seq(S) /\ Len(back) = Len(q) - p
        /\ \A i \in 1 .. Len(q) - p : back[i] = q[p + i]
    <3>1. \A i \in p + 1 .. Len(q) : q[i] \in S
      BY <2>4
    <3>2. /\ back \in Seq(S) /\ Len(back) = IF p + 1 <= Len(q) THEN Len(q) - (p + 1) + 1 ELSE 0
          /\ \A i \in 1 .. Len(q) - (p + 1) + 1 : back[i] = q[(p + 1) + i - 1]
      BY <2>4, <3>1, SubSeqProperties
    <3> HIDE DEF back
    <3> QED BY <2>4, <3>2
  <2> DEFINE rest == front \o back
  <2>7. /\ rest \in Seq(S) /\ Len(rest) = Len(q) - 1
        /\ \A i \in 1 .. Len(q) - 1 : rest[i] = IF i < p THEN q[i] ELSE q[i + 1]
    <3> HIDE DEF front, back
    <3>0. /\ rest \in Seq(S) /\ Len(rest) = Len(front) + Len(back)
          /\ \A i \in 1 .. Len(front) + Len(back) :
                rest[i] = IF i <= Len(front) THEN front[i] ELSE back[i - Len(front)]
      BY <2>5, <2>6, ConcatProperties
    <3> HIDE DEF rest
    <3>1. /\ rest \in Seq(S) /\ Len(rest) = (p - 1) + (Len(q) - p)
          /\ \A i \in 1 .. (p - 1) + (Len(q) - p) :
                rest[i] = IF i <= p - 1 THEN front[i] ELSE back[i - (p - 1)]
      BY <2>5, <2>6, <3>0
    <3>2. ASSUME NEW i \in 1 .. Len(q) - 1
          PROVE  rest[i] = IF i < p THEN q[i] ELSE q[i + 1]
      <4>1. CASE i < p
        BY <2>4, <2>5, <3>1, <4>1
      <4>2. CASE ~(i < p)
        <5>1. rest[i] = back[i - (p - 1)] /\ i - (p - 1) \in 1 .. Len(q) - p
          BY <2>4, <3>1, <4>2
        <5>2. p + (i - (p - 1)) = i + 1
          BY <2>4
        <5>3. back[i - (p - 1)] = q[p + (i - (p - 1))]
          BY <2>6, <5>1
        <5> QED BY <4>2, <5>1, <5>2, <5>3
      <4> QED BY <4>1, <4>2
    <3> QED BY <2>4, <3>1, <3>2
  <2> HIDE DEF rest
  <2>8. LastUsed(q, x) = Append(rest, x)
    BY <2>3 DEF LastUsed, rest
  <2>9. /\ Append(rest, x) \in Seq(S) /\ Len(Append(rest, x)) = Len(q)
        /\ \A i \in 1 .. Len(q) : Append(rest, x)[i] = IF i = Len(q) THEN x ELSE rest[i]
    BY <2>4, <2>7
  <2> QED BY <2>4, <2>7, <2>8, <2>9
<1> QED BY <1>1, <1>2, <1>3

LEMMA LastUsedDistinct ==
    ASSUME NEW S, NEW q \in Seq(S), Distinct(q), NEW x \in S
    PROVE  LastUsed(q, x) \in Seq(S) /\ Distinct(LastUsed(q, x))
<1> DEFINE r == LastUsed(q, x)
<1>1. CASE x \notin ToSet(q)
  <2>1. r = Append(q, x)
    BY <1>1, LastUsedFacts
  <2>2. \A i \in DOMAIN q : q[i] # x
    BY <1>1 DEF ToSet
  <2>3. /\ Append(q, x) \in Seq(S) /\ Len(Append(q, x)) = Len(q) + 1 /\ Len(q) \in Nat
        /\ DOMAIN q = 1 .. Len(q) /\ DOMAIN Append(q, x) = 1 .. Len(q) + 1
        /\ \A i \in 1 .. Len(q) + 1 : Append(q, x)[i] = IF i = Len(q) + 1 THEN x ELSE q[i]
    OBVIOUS
  <2> DEFINE s == Append(q, x)
  <2> HIDE DEF s, r
  <2>4. \A i, j \in 1 .. Len(q) + 1 : s[i] = s[j] => i = j
    <3> DEFINE last == Len(q) + 1
               places == 1 .. last
    <3>1. \A i \in places : i = last \/ (i \in DOMAIN q /\ s[i] = q[i])
      BY <2>3 DEF s
    <3>2. last \in places /\ s[last] = x
      BY <2>3 DEF s
    <3>3. \A i, j \in DOMAIN q : q[i] = q[j] => i = j
      BY DEF Distinct
    <3> HIDE DEF last, places
    <3>4. \A i, j \in places : s[i] = s[j] => i = j
      <4> SUFFICES ASSUME NEW i \in places, NEW j \in places, s[i] = s[j]
                   PROVE  i = j
        OBVIOUS
      <4>1. CASE i = last
        BY <2>2, <3>1, <3>2, <4>1
      <4>2. CASE j = last
        BY <2>2, <3>1, <3>2, <4>2
      <4>3. CASE i # last /\ j # last
        <5>1. i \in DOMAIN q /\ s[i] = q[i]
          BY <3>1, <4>3
        <5>2. j \in DOMAIN q /\ s[j] = q[j]
          BY <3>1, <4>3
        <5>3. q[i] = q[j]
          BY <5>1, <5>2, Zenon
        <5> QED BY <3>3, <5>1, <5>2, <5>3
      <4> QED BY <4>1, <4>2, <4>3
    <3> QED BY <3>4 DEF last, places
  <2> QED BY <2>1, <2>3, <2>4 DEF Distinct, s, r
<1>2. CASE x \in ToSet(q)
  <2>1. PICK p \in 1 .. Len(q) : q[p] = x
    BY <1>2 DEF ToSet
  <2>2. /\ r \in Seq(S) /\ Len(r) = Len(q)
        /\ \A i \in 1 .. Len(q) : r[i] = IF i = Len(q) THEN x ELSE IF i < p THEN q[i] ELSE q[i + 1]
    BY <2>1, LastUsedFacts
  <2>3. Len(q) \in Nat /\ DOMAIN q = 1 .. Len(q) /\ \A i, j \in 1 .. Len(q) : q[i] = q[j] => i = j
    BY DEF Distinct
  <2> HIDE DEF r
  <2>4. DOMAIN r = 1 .. Len(q)
    BY <2>2
  <2>5. ASSUME NEW i \in 1 .. Len(q), i # Len(q)
        PROVE  r[i] # x
    <3>1. CASE i < p
      <4>1. r[i] = q[i] /\ i # p
        BY <2>2, <2>3, <2>5, <3>1
      <4> QED BY <2>1, <2>3, <4>1
    <3>2. CASE ~(i < p)
      <4>1. r[i] = q[i + 1] /\ i + 1 \in 1 .. Len(q) /\ i + 1 # p
        BY <2>2, <2>3, <2>5, <3>2
      <4> QED BY <2>1, <2>3, <4>1
    <3> QED BY <3>1, <3>2
  <2>6. ASSUME NEW i \in 1 .. Len(q), NEW j \in 1 .. Len(q), i # Len(q), j # Len(q), r[i] = r[j]
        PROVE  i = j
    <3> DEFINE a == IF i < p THEN i ELSE i + 1
               b == IF j < p THEN j ELSE j + 1
    <3>0. i \in Nat /\ j \in Nat /\ 1 <= i /\ 1 <= j /\ i < Len(q) /\ j < Len(q)
      <4> HIDE DEF a, b
      <4>1. Len(q) \in Nat
        BY <2>3
      <4> QED BY <2>6, <4>1
    <3>1. a \in 1 .. Len(q) /\ b \in 1 .. Len(q)
      <4>1. i \in 1 .. Len(q) /\ i + 1 \in 1 .. Len(q) /\ j \in 1 .. Len(q) /\ j + 1 \in 1 .. Len(q)
        BY <2>3, <3>0
      <4> QED BY <4>1
    <3>2. r[i] = q[a]
      <4>1. r[i] = IF i < p THEN q[i] ELSE q[i + 1]
        BY <2>2, <2>6
      <4> QED BY <4>1
    <3>3. r[j] = q[b]
      <4>1. r[j] = IF j < p THEN q[j] ELSE q[j + 1]
        BY <2>2, <2>6
      <4> QED BY <4>1
    <3>4. a = b
      <4>1. q[a] = q[b]
        BY <2>6, <3>2, <3>3
      <4> HIDE DEF a, b
      <4> QED BY <2>3, <3>1, <4>1
    <3>5. i \in Nat /\ j \in Nat /\ p \in Nat
      BY <2>3, <3>0
    <3> QED BY <3>4, <3>5
  <2>7. Len(q) \in 1 .. Len(q)
    BY <2>1, <2>3
  <2>8. r[Len(q)] = x
    BY <2>2, <2>7
  <2> QED BY <2>2, <2>4, <2>5, <2>6, <2>7, <2>8, Zenon DEF Distinct, r
<1> QED BY <1>1, <1>2

\* A cache that is cut and the history it was cut from go on alike.
LEMMA CacheFollows ==
    ASSUME NEW S, NEW q \in Seq(S), Distinct(q), NEW x \in S, NEW n \in Nat \ {0}
    PROVE  /\ Latest(LastUsed(Latest(q, n), x), n) = Latest(LastUsed(q, x), n)
           /\ x \in ToSet(Latest(q, n)) => LastUsed(Latest(q, n), x) = Latest(LastUsed(q, x), n)
<1> DEFINE c == Latest(q, n)
           d == Cut(q, n)
           L == Len(q)
           r == LastUsed(q, x)
           z == LastUsed(c, x)
<1>1. c \in Seq(S) /\ Len(c) = L - d /\ \A i \in 1 .. Len(c) : c[i] = q[i + d]
  BY LatestFacts
<1>2. L \in Nat /\ d \in Nat /\ d <= L /\ L - d <= n /\ (d # 0 => d = L - n) /\ (d = 0 => L <= n)
      /\ DOMAIN q = 1 .. L
      /\ \A i, j \in 1 .. L : q[i] = q[j] => i = j
  BY DEF Distinct, Cut
<1>0. d = IF L > n THEN L - n ELSE 0
  BY DEF Cut
<1>3. Distinct(c)
  <2> HIDE DEF c, d, L
  <2>1. DOMAIN c = 1 .. L - d /\ \A i \in 1 .. L - d : i + d \in 1 .. L
    BY <1>1, <1>2
  <2> QED BY <1>1, <1>2, <2>1 DEF Distinct
<1>4. r \in Seq(S) /\ z \in Seq(S)
  BY <1>1, <1>3, LastUsedDistinct
<1> DEFINE y == Latest(r, n)
           w == Latest(z, n)
<1>5. /\ y \in Seq(S) /\ Len(y) = Len(r) - Cut(r, n) /\ \A i \in 1 .. Len(y) : y[i] = r[i + Cut(r, n)]
      /\ w \in Seq(S) /\ Len(w) = Len(z) - Cut(z, n) /\ \A i \in 1 .. Len(w) : w[i] = z[i + Cut(z, n)]
  <2> HIDE DEF r, z
  <2> QED BY <1>4, LatestFacts
<1>6. x \notin ToSet(q) =>
        Len(r) = L + 1 /\ \A i \in 1 .. L + 1 : r[i] = IF i = L + 1 THEN x ELSE q[i]
  BY LastUsedFacts
<1>7. x \notin ToSet(c) =>
        Len(z) = Len(c) + 1 /\ \A i \in 1 .. Len(c) + 1 : z[i] = IF i = Len(c) + 1 THEN x ELSE c[i]
  <2> HIDE DEF c
  <2>1. x \notin ToSet(c) => z = Append(c, x)
    BY <1>1, <1>3, LastUsedFacts
  <2>2. /\ Len(Append(c, x)) = Len(c) + 1
        /\ \A i \in 1 .. Len(c) + 1 : Append(c, x)[i] = IF i = Len(c) + 1 THEN x ELSE c[i]
    <3>1. c \in Seq(S)
      BY <1>1
    <3> QED BY <3>1
  <2> HIDE DEF z
  <2> QED BY <2>1, <2>2
<1>8. \A p \in 1 .. L : q[p] = x =>
        /\ Len(r) = L
        /\ \A i \in 1 .. L : r[i] = IF i = L THEN x ELSE IF i < p THEN q[i] ELSE q[i + 1]
  BY LastUsedFacts
<1>9. \A p \in 1 .. Len(c) : c[p] = x =>
        /\ Len(z) = Len(c)
        /\ \A i \in 1 .. Len(c) : z[i] = IF i = Len(c) THEN x ELSE IF i < p THEN c[i] ELSE c[i + 1]
  <2> HIDE DEF c
  <2> QED BY <1>1, <1>3, LastUsedFacts
<1>10. /\ x \in ToSet(c) <=> \E p \in 1 .. Len(c) : c[p] = x
       /\ x \in ToSet(q) <=> \E p \in 1 .. L : q[p] = x
  <2> HIDE DEF c
  <2> QED BY <1>1 DEF ToSet
<1> HIDE DEF c, d, L, r, z, y, w
<1>11. CASE x \in ToSet(c)
  <2>1. PICK k \in 1 .. L - d : c[k] = x
    BY <1>1, <1>10, <1>11
  <2>2. k + d \in 1 .. L /\ q[k + d] = x
    BY <1>1, <1>2, <2>1
  <2>3. Len(r) = L /\ \A i \in 1 .. L : r[i] = IF i = L THEN x ELSE IF i < k + d THEN q[i] ELSE q[i + 1]
    BY <1>8, <2>2
  <2>4. Len(z) = L - d /\ \A i \in 1 .. L - d : z[i] = IF i = L - d THEN x ELSE IF i < k THEN c[i] ELSE c[i + 1]
    BY <1>1, <1>9, <2>1
  <2>5. Cut(r, n) = d /\ Cut(z, n) = 0
    BY <1>0, <1>2, <2>3, <2>4 DEF Cut
  <2>6. Len(y) = L - d /\ Len(w) = L - d
    BY <1>2, <1>5, <2>3, <2>4, <2>5
  <2>7. ASSUME NEW i \in 1 .. L - d
        PROVE  y[i] = z[i] /\ w[i] = z[i]
    <3>0. i + Cut(z, n) = i /\ i + Cut(r, n) = i + d /\ i + d \in 1 .. L
      BY <1>2, <2>5
    <3>1. w[i] = z[i] /\ y[i] = r[i + d] /\ i + d \in 1 .. L
      BY <1>5, <2>6, <3>0
    <3>2. CASE i = L - d
      BY <1>2, <2>3, <2>4, <3>1, <3>2
    <3>3. CASE i # L - d /\ i < k
      BY <1>1, <1>2, <2>3, <2>4, <3>1, <3>3
    <3>4. CASE i # L - d /\ ~(i < k)
      <4>1. i + 1 \in 1 .. L - d /\ (i + 1) + d = (i + d) + 1
        BY <1>2, <3>4
      <4>2. c[i + 1] = q[(i + d) + 1]
        BY <1>1, <4>1
      <4>3. r[i + d] = q[(i + d) + 1]
        BY <1>2, <2>3, <3>1, <3>4
      <4> QED BY <2>4, <3>1, <3>4, <4>2, <4>3
    <3> QED BY <3>1, <3>2, <3>3, <3>4
  <2>8. y = z
    BY <1>4, <1>5, <2>4, <2>6, <2>7, SeqEqual
  <2>9. w = z
    BY <1>4, <1>5, <2>4, <2>6, <2>7, SeqEqual
  <2> QED BY <2>8, <2>9 DEF y, w, z, c, r
<1>12. CASE x \notin ToSet(c) /\ x \in ToSet(q)
  <2>1. PICK p \in 1 .. L : q[p] = x
    BY <1>10, <1>12
  <2>2. p <= d
    <3>1. CASE p > d
      <4>1. p - d \in 1 .. Len(c) /\ (p - d) + d = p
        BY <1>1, <1>2, <3>1
      <4>2. c[p - d] = q[(p - d) + d]
        BY <1>1, <4>1
      <4> QED BY <1>10, <1>12, <2>1, <4>1, <4>2
    <3> QED BY <1>2, <3>1
  <2>3. Len(r) = L /\ \A i \in 1 .. L : r[i] = IF i = L THEN x ELSE IF i < p THEN q[i] ELSE q[i + 1]
    BY <1>8, <2>1
  <2>4. d = L - n /\ L - d = n
    BY <1>2, <2>2
  <2>5. Len(z) = n + 1 /\ \A i \in 1 .. n + 1 : z[i] = IF i = n + 1 THEN x ELSE c[i]
    BY <1>1, <1>7, <1>12, <2>4
  <2>6. Cut(r, n) = d /\ Cut(z, n) = 1
    BY <1>0, <1>2, <2>3, <2>4, <2>5 DEF Cut
  <2>7. Len(y) = n /\ Len(w) = n
    BY <1>2, <1>5, <2>3, <2>4, <2>5, <2>6
  <2>8. ASSUME NEW i \in 1 .. n
        PROVE  w[i] = y[i]
    <3>0. i + Cut(z, n) = i + 1 /\ i + Cut(r, n) = i + d /\ i + d \in 1 .. L /\ i + 1 \in 1 .. n + 1
      BY <1>2, <2>4, <2>6
    <3>1. w[i] = z[i + 1] /\ y[i] = r[i + d] /\ i + d \in 1 .. L /\ i + 1 \in 1 .. n + 1
      BY <1>5, <2>7, <3>0
    <3>2. CASE i = n
      BY <2>3, <2>4, <2>5, <3>1, <3>2
    <3>3. CASE i # n
      <4>1. i + 1 \in 1 .. Len(c) /\ (i + 1) + d = (i + d) + 1
        BY <1>1, <1>2, <2>4, <3>3
      <4>2. c[i + 1] = q[(i + d) + 1]
        BY <1>1, <4>1
      <4>3. i + d # L /\ ~(i + d < p)
        BY <1>2, <2>2, <2>4, <3>3
      <4> QED BY <2>3, <2>5, <3>1, <3>3, <4>2, <4>3
    <3> QED BY <3>2, <3>3
  <2>9. w = y
    BY <1>5, <2>7, <2>8, SeqEqual
  <2> QED BY <1>12, <2>9 DEF y, w, z, c, r
<1>13. CASE x \notin ToSet(c) /\ x \notin ToSet(q)
  <2>1. Len(r) = L + 1 /\ \A i \in 1 .. L + 1 : r[i] = IF i = L + 1 THEN x ELSE q[i]
    BY <1>6, <1>13
  <2>2. Len(z) = (L - d) + 1 /\ \A i \in 1 .. (L - d) + 1 : z[i] = IF i = (L - d) + 1 THEN x ELSE c[i]
    BY <1>1, <1>2, <1>7, <1>13
  <2> DEFINE e == Cut(z, n)
  <2>3. e \in {0, 1} /\ Cut(r, n) = d + e /\ (e = 1 <=> L - d = n)
    BY <1>0, <1>2, <2>1, <2>2 DEF Cut
  <2> DEFINE m == (L - d) + 1 - e
  <2>4. Len(y) = m /\ Len(w) = m /\ m \in Nat
    BY <1>2, <1>5, <2>1, <2>2, <2>3
  <2> HIDE DEF e
  <2>5. ASSUME NEW i \in 1 .. m
        PROVE  w[i] = y[i]
    <3>1. w[i] = z[i + e] /\ y[i] = r[i + (d + e)] /\ i + e \in 1 .. (L - d) + 1 /\ i + (d + e) \in 1 .. L + 1
      <4>1. i + Cut(z, n) = i + e /\ i + Cut(r, n) = i + (d + e)
        BY <2>3 DEF e
      <4>2. i + e \in 1 .. (L - d) + 1 /\ i + (d + e) \in 1 .. L + 1
        BY <1>2, <2>3
      <4> QED BY <1>5, <2>4, <4>1, <4>2
    <3>2. CASE i + e = (L - d) + 1
      <4>1. i + (d + e) = L + 1
        BY <1>2, <2>3, <3>2
      <4>2. r[i + (d + e)] = x
        BY <2>1, <3>1, <4>1
      <4>3. z[i + e] = x
        BY <2>2, <3>1, <3>2
      <4> QED BY <3>1, <4>2, <4>3
    <3>3. CASE i + e # (L - d) + 1
      <4>1. i + e \in 1 .. Len(c) /\ (i + e) + d = i + (d + e) /\ i + (d + e) # L + 1
        BY <1>1, <1>2, <2>3, <3>1, <3>3
      <4>2. c[i + e] = q[i + (d + e)]
        BY <1>1, <4>1
      <4> QED BY <2>1, <2>2, <3>1, <3>3, <4>1, <4>2
    <3> QED BY <3>2, <3>3
  <2>6. w = y
    BY <1>5, <2>4, <2>5, SeqEqual
  <2> QED BY <1>13, <2>6 DEF y, w, z, c, r
<1> QED BY <1>11, <1>12, <1>13

Pooled(pool) == Listed(pool.from) /\ pool.at \subseteq DOMAIN pool.from

LEMMA PoolsListed ==
    /\ \A m \in Movies : PoolOf(m) = FilmPool(m)
    /\ \A e \in Episodes : PoolOf(e) = EpisodePool(e)
    /\ \A id \in Movies \cup Episodes : Pooled(PoolOf(id))
<1>1. \A m \in Movies : PoolOf(m) = FilmPool(m) /\ Pooled(FilmPool(m))
  BY ListingsAssumption DEF PoolOf, FilmPool, Pooled
<1>2. ASSUME NEW e \in Episodes
      PROVE  PoolOf(e) = EpisodePool(e) /\ Pooled(EpisodePool(e))
  <2>1. e[1] \in Shows /\ e \notin Movies
    BY ListingsAssumption
  <2>2. Listed(Guide[e[1]])
    BY <2>1, ListingsAssumption
  <2> QED BY <2>1, <2>2 DEF PoolOf, EpisodePool, Pooled, TorrentsOf, SeasonTorrents
<1> QED BY <1>1, <1>2

\* The policy is a strict order of the positions of a listing.
LEMMA BeforeOrders ==
    ASSUME NEW c, Listed(c), NEW i \in DOMAIN c, NEW j \in DOMAIN c
    PROVE  /\ ~(Before(c, i, j) /\ Before(c, j, i))
           /\ i = j \/ Before(c, i, j) \/ Before(c, j, i)
           /\ ~Before(c, i, i)
           /\ Better(c[i], c[j]) => Before(c, i, j)
           /\ \A k \in DOMAIN c : Before(c, i, j) /\ Before(c, j, k) => Before(c, i, k)
<1>1. /\ i \in Nat /\ j \in Nat
      /\ c[i].tier \in Nat /\ c[i].seeds \in Int /\ c[j].tier \in Nat /\ c[j].seeds \in Int
  BY DEF Listed
<1>2. \A k \in DOMAIN c : k \in Nat /\ c[k].tier \in Nat /\ c[k].seeds \in Int
  BY DEF Listed
<1> QED BY <1>1, <1>2 DEF Before, Better

\* Every candidate of a pool has a place of its own, and every place is taken.
LEMMA Places ==
    ASSUME NEW pool, Pooled(pool)
    PROVE  /\ IsFiniteSet(pool.at) /\ Cardinality(pool.at) \in Nat
           /\ \A i \in pool.at : Place(pool, i) \in 1 .. Cardinality(pool.at)
           /\ \A i, j \in pool.at : Before(pool.from, i, j) => Place(pool, i) < Place(pool, j)
           /\ \A i, j \in pool.at : Place(pool, i) = Place(pool, j) => i = j
           /\ \A n \in 1 .. Cardinality(pool.at) : \E i \in pool.at : Place(pool, i) = n
<1> DEFINE c == pool.from
           I == pool.at
           N == Cardinality(I)
           S(i) == {j \in I : ~Before(c, i, j)}
<1>1. Listed(c) /\ I \subseteq DOMAIN c
  BY DEF Pooled
<1>2. IsFiniteSet(I) /\ N \in Nat
  <2>1. DOMAIN c = 1 .. Len(c) /\ Len(c) \in Nat
    BY <1>1 DEF Listed
  <2>2. IsFiniteSet(DOMAIN c)
    BY <2>1, FS_Interval
  <2> QED BY <1>1, <2>2, FS_Subset, FS_CardinalityType
<1>3. ASSUME NEW i \in I
      PROVE  Place(pool, i) = Cardinality(S(i)) /\ IsFiniteSet(S(i)) /\ Place(pool, i) \in 1 .. N
  <2>1. i \in S(i)
    BY <1>1, BeforeOrders
  <2>2. IsFiniteSet(S(i)) /\ Cardinality(S(i)) <= N
    BY <1>2, FS_Subset
  <2>3. Cardinality(S(i)) \in Nat /\ Cardinality(S(i)) # 0
    BY <2>1, <2>2, FS_CardinalityType, FS_EmptySet
  <2>4. Place(pool, i) = Cardinality(S(i))
    BY DEF Place
  <2> HIDE DEF S
  <2> QED BY <1>2, <2>2, <2>3, <2>4
<1>4. ASSUME NEW i \in I, NEW j \in I, Before(c, i, j)
      PROVE  Place(pool, i) < Place(pool, j)
  <2>1. S(i) \subseteq S(j)
    <3> SUFFICES ASSUME NEW k \in I, ~Before(c, i, k) PROVE ~Before(c, j, k)
      OBVIOUS
    <3>1. k = i \/ Before(c, k, i)
      BY <1>1, BeforeOrders
    <3>2. Before(c, k, j)
      BY <1>1, <1>4, <3>1, BeforeOrders
    <3> QED BY <1>1, <3>2, BeforeOrders
  <2>2. j \in S(j) /\ j \notin S(i)
    BY <1>1, <1>4, BeforeOrders
  <2>3. S(i) # S(j)
    BY <2>2
  <2>4. /\ IsFiniteSet(S(j)) /\ Place(pool, i) = Cardinality(S(i)) /\ Place(pool, j) = Cardinality(S(j))
        /\ Place(pool, i) \in Nat /\ Place(pool, j) \in Nat
    BY <1>2, <1>3
  <2> HIDE DEF S
  <2>5. Cardinality(S(i)) <= Cardinality(S(j)) /\ Cardinality(S(i)) # Cardinality(S(j))
    BY <2>1, <2>3, <2>4, FS_Subset
  <2> QED BY <2>4, <2>5
<1>5. \A i, j \in I : Place(pool, i) = Place(pool, j) => i = j
  <2> SUFFICES ASSUME NEW i \in I, NEW j \in I, Place(pool, i) = Place(pool, j), i # j PROVE FALSE
    OBVIOUS
  <2>1. Before(c, i, j) \/ Before(c, j, i)
    BY <1>1, BeforeOrders
  <2>2. Place(pool, i) \in 1 .. N
    BY <1>3
  <2>3. ~(Place(pool, i) < Place(pool, j))  /\ ~(Place(pool, j) < Place(pool, i))
    BY <1>2, <2>2
  <2> QED BY <1>4, <2>1, <2>3
<1>6. \A n \in 1 .. N : \E i \in I : Place(pool, i) = n
  <2> DEFINE f == [i \in I |-> Place(pool, i)]
  <2>1. f \in Injection(I, 1 .. N)
    BY <1>3, <1>5 DEF Injection, IsInjective
  <2>2. IsFiniteSet(1 .. N) /\ Cardinality(1 .. N) = N
    <3>1. IsFiniteSet(1 .. N) /\ Cardinality(1 .. N) = IF 1 > N THEN 0 ELSE N - 1 + 1
      BY <1>2, FS_Interval
    <3> QED BY <1>2, <3>1
  <2> HIDE DEF f
  <2>3. f \in Surjection(I, 1 .. N)
    BY <2>1, <2>2, FS_Injection
  <2>4. \A n \in 1 .. N : \E i \in I : f[i] = n
    BY <2>3 DEF Surjection
  <2> QED BY <2>4 DEF f
<1> QED BY <1>2, <1>3, <1>4, <1>5, <1>6

Tried(pool) == FirstOf(Ordered(pool), MaxCandidates)

\* What a play tries: the first candidates of the pool, each at its place.
LEMMA TriedFacts ==
    ASSUME NEW pool, Pooled(pool)
    PROVE  /\ Len(Tried(pool)) \in Nat /\ DOMAIN Tried(pool) = 1 .. Len(Tried(pool))
           /\ Tried(pool) = <<>> <=> Len(Tried(pool)) = 0
           /\ Tried(pool) = <<>> <=> pool.at = {}
           /\ \A n \in DOMAIN Tried(pool) :
                 \E i \in pool.at : Place(pool, i) = n /\ Tried(pool)[n] = pool.from[i]
           /\ \A i \in pool.at : Place(pool, i) <= MaxCandidates =>
                 Place(pool, i) \in DOMAIN Tried(pool) /\ Tried(pool)[Place(pool, i)] = pool.from[i]
<1> DEFINE N == Cardinality(pool.at)
           Nth(n) == CHOOSE i \in pool.at : Place(pool, i) = n
           C == {pool.from[i] : i \in pool.at}
           all == Ordered(pool)
           m == IF Len(all) < MaxCandidates THEN Len(all) ELSE MaxCandidates
           tried == Tried(pool)
<1>1. N \in Nat /\ MaxCandidates \in Nat /\ MaxCandidates >= 1
  BY Places, BoundsAssumption
<1>2. \A n \in 1 .. N : Nth(n) \in pool.at /\ Place(pool, Nth(n)) = n
  BY Places
<1>3. all = [n \in 1 .. N |-> pool.from[Nth(n)]]
  BY DEF Ordered
<1> HIDE DEF Nth
<1>4. all \in Seq(C) /\ Len(all) = N /\ \A n \in 1 .. N : all[n] = pool.from[Nth(n)]
  <2>1. \A n \in 1 .. N : pool.from[Nth(n)] \in C
    BY <1>2
  <2> HIDE DEF all, N, C
  <2> QED BY <1>1, <1>3, <2>1
<1>5. m \in Nat /\ m <= N /\ m <= MaxCandidates /\ (m = N \/ m = MaxCandidates) /\ (m = 0 <=> N = 0)
  BY <1>1, <1>4
<1>6. tried = SubSeq(all, 1, m)
  BY DEF Tried, FirstOf
<1> HIDE DEF all, m, N, tried
<1>7. tried \in Seq(C) /\ Len(tried) = m /\ \A n \in 1 .. m : tried[n] = all[n]
  <2>1. \A n \in 1 .. m : all[n] \in C
    BY <1>1, <1>4, <1>5
  <2>2. /\ SubSeq(all, 1, m) \in Seq(C)
        /\ Len(SubSeq(all, 1, m)) = IF 1 <= m THEN m - 1 + 1 ELSE 0
        /\ \A n \in 1 .. m - 1 + 1 : SubSeq(all, 1, m)[n] = all[1 + n - 1]
    BY <1>5, <2>1, SubSeqProperties
  <2> QED BY <1>5, <1>6, <2>2
<1>8. DOMAIN tried = 1 .. m /\ (tried = <<>> <=> m = 0)
  BY <1>5, <1>7
<1>9. tried = <<>> <=> pool.at = {}
  BY <1>5, <1>8, Places, FS_EmptySet DEF N
<1>10. \A n \in 1 .. m : \E i \in pool.at : Place(pool, i) = n /\ tried[n] = pool.from[i]
  BY <1>1, <1>2, <1>4, <1>5, <1>7
<1>11. ASSUME NEW i \in pool.at, Place(pool, i) <= MaxCandidates
       PROVE  Place(pool, i) \in 1 .. m /\ tried[Place(pool, i)] = pool.from[i]
  <2>1. Place(pool, i) \in 1 .. N
    BY Places DEF N
  <2>2. Place(pool, i) \in 1 .. m
    BY <1>1, <1>5, <1>11, <2>1
  <2>3. Nth(Place(pool, i)) = i
    BY <1>2, <2>1, Places
  <2> QED BY <1>4, <1>7, <2>1, <2>2, <2>3
<1> QED BY <1>5, <1>7, <1>8, <1>9, <1>10, <1>11 DEF tried

\* The caches are what their histories leave within their limits.
CachesInv ==
    /\ touched \in Seq(Movies) /\ Distinct(touched) /\ entries = Latest(touched, EntriesLimit)
    /\ fetched \in Seq(Shows) /\ Distinct(fetched) /\ shows = Latest(fetched, ShowMax)
    /\ SeriesHost \in BOOLEAN /\ (~SeriesHost => fetched = <<>>)

Stages == {"idle", "details", "show", "add", "list", "probe", "done"}
Trying == {"add", "list", "probe"}

\* A play that waits for a host has no candidates yet, and no cache had them.
Opening ==
    /\ play.pc \in Stages /\ (Playing => play.of \in Movies \cup Episodes)
    /\ play.pc = "details" => play.of \in Movies
    /\ play.pc = "show" => play.of \in Episodes /\ SeriesHost
    /\ play.pc \in {"details", "show"} =>
          ~play.warm /\ play.own = (play.of \in Episodes /\ TorrentsOf(play.of) # {})
    /\ play.pc \in {"idle", "details", "show"} =>
          play.cands = <<>> /\ play.k = 1 /\ play.code = "none" /\ play.blamed = "nobody"
    /\ play.cands = <<>> => seen = NoHistory /\ play.pc \notin Trying

\* A play that has candidates tries those of its pool, in order; none of those
\* it is done with has spoken all along while the engine did.
Turned ==
    LET pool == PoolOf(play.of)
    IN  /\ play.of \in Movies \cup Episodes
        /\ play.cands = Tried(pool) /\ play.hint = pool.hint
        /\ play.own = (play.of \in Episodes /\ TorrentsOf(play.of) # {})
        /\ play.k \in DOMAIN play.cands
        /\ seen.always => \A j \in DOMAIN play.cands :
                             j < play.k => play.cands[j].torrent \notin seen.steady

\* What the history holds while a play tries.
Witnessed ==
    /\ seen.always => engine = "up"
    /\ engine \in Reached => seen.ever
    /\ engine = "garbled" => seen.garbled
    /\ play.pc \in {"list", "probe"} => seen.ever
    /\ seen.steady \subseteq DOMAIN swarm /\ \A t \in seen.steady : swarm[t] = "speaks"

\* What the code of a play that tried says.
Judged ==
    /\ play.code \in {"ok", "not_found"} \/ ~seen.always
    /\ play.code = "ok" => play.stream = EngineStream(Candidate, play.hint)
    /\ play.code = "not_found" =>
          /\ seen.ever /\ play.blamed = "nobody"
          /\ seen.always => \A j \in DOMAIN play.cands : play.cands[j].torrent \notin seen.steady
    /\ play.blamed = "engine" => ~seen.always
    /\ play.blamed = "yts" => seen.garbled

TorrentInv ==
    /\ DOMAIN play = DOMAIN NoPlay /\ DOMAIN seen = DOMAIN NoHistory
    /\ Opening
    /\ play.cands # <<>> => Turned
    /\ play.pc \in Trying => Witnessed /\ play.code = "none" /\ play.blamed = "nobody"
    /\ play.pc = "done" /\ play.cands # <<>> => Judged
    /\ play.pc = "done" /\ play.cands = <<>> =>
          play.code # "ok" /\ (play.warm => PoolOf(play.of).at = {})

\* A host is still being asked, so there are no candidates to speak of.
LEMMA StillAsked ==
    ASSUME Opening', DOMAIN play' = DOMAIN NoPlay, DOMAIN seen' = DOMAIN NoHistory,
           play'.cands = <<>>, play'.pc \notin Trying, play'.pc # "done"
    PROVE  TorrentInv'
BY DEF TorrentInv

LEMMA TorrentStart == TorrentInit => CachesInv /\ TorrentInv
<1> SUFFICES ASSUME TorrentInit PROVE CachesInv /\ TorrentInv
  OBVIOUS
<1>1. CachesInv
  <2>1. /\ touched = <<>> /\ entries = <<>> /\ fetched = <<>> /\ shows = <<>> /\ SeriesHost \in BOOLEAN
    BY DEF TorrentInit
  <2>2. \A n \in Nat : Latest(<<>>, n) = <<>>
    BY DEF Latest
  <2> QED BY <2>1, <2>2, BoundsAssumption DEF CachesInv, Distinct
<1>2. TorrentInv
  BY DEF TorrentInit, TorrentInv, NoPlay, Opening, Playing, Stages, Trying
<1> QED BY <1>1, <1>2

LEMMA ToMovies ==
    ASSUME CachesInv, NEW m \in Movies
    PROVE  /\ RecordTorrents(m) \/ (Reuse(m) /\ m \in ToSet(entries)) =>
                 /\ touched' \in Seq(Movies) /\ Distinct(touched')
                 /\ entries' = Latest(touched', EntriesLimit)
<1>1. /\ touched \in Seq(Movies) /\ Distinct(touched) /\ entries = Latest(touched, EntriesLimit)
      /\ EntriesLimit \in Nat \ {0}
  BY BoundsAssumption DEF CachesInv
<1>2. LastUsed(touched, m) \in Seq(Movies) /\ Distinct(LastUsed(touched, m))
  BY <1>1, LastUsedDistinct
<1>3. /\ Latest(LastUsed(entries, m), EntriesLimit) = Latest(LastUsed(touched, m), EntriesLimit)
      /\ m \in ToSet(entries) => LastUsed(entries, m) = Latest(LastUsed(touched, m), EntriesLimit)
  BY <1>1, CacheFollows
<1> QED BY <1>1, <1>2, <1>3 DEF RecordTorrents, Reuse

LEMMA ToShows ==
    ASSUME CachesInv, SeriesHost, NEW s \in Shows, NEW since
    PROVE  /\ KeepShow(s, since) \/ (ReuseShow(s) /\ Fresh(s)) =>
                 /\ fetched' \in Seq(Shows) /\ Distinct(fetched')
                 /\ shows' = Latest(fetched', ShowMax)
<1>1. /\ fetched \in Seq(Shows) /\ Distinct(fetched) /\ shows = Latest(fetched, ShowMax)
      /\ ShowMax \in Nat \ {0}
  BY BoundsAssumption DEF CachesInv
<1>2. LastUsed(fetched, s) \in Seq(Shows) /\ Distinct(LastUsed(fetched, s))
  BY <1>1, LastUsedDistinct
<1>3. /\ Latest(LastUsed(shows, s), ShowMax) = Latest(LastUsed(fetched, s), ShowMax)
      /\ s \in ToSet(shows) => LastUsed(shows, s) = Latest(LastUsed(fetched, s), ShowMax)
  BY <1>1, CacheFollows
<1> QED BY <1>1, <1>2, <1>3 DEF KeepShow, ReuseShow, Fresh

LEMMA CachesStep == CachesInv /\ TorrentInv /\ [TorrentNext]_torrentVars => CachesInv'
<1> SUFFICES ASSUME CachesInv, TorrentInv, [TorrentNext]_torrentVars PROVE CachesInv'
  OBVIOUS
<1> DEFINE Kept == UNCHANGED <<entries, touched>>
           KeptShows == UNCHANGED <<shows, fetched>>
           OfMovies == Kept \/ \E m \in Movies : RecordTorrents(m) \/ (Reuse(m) /\ m \in ToSet(entries))
           OfShows == \/ KeptShows
                      \/ SeriesHost /\ \E s \in Shows, since \in {0, play.age} :
                            KeepShow(s, since) \/ (ReuseShow(s) /\ Fresh(s))
<1>1. OfMovies /\ OfShows /\ UNCHANGED SeriesHost
  <2>1. CASE AskNonsense \/ AddTorrent \/ ListFiles \/ StreamSpeaks \/ Turn \/ Elapse
             \/ EngineChanges \/ SwarmChanges \/ UNCHANGED torrentVars
    BY <2>1 DEF AskNonsense, AddTorrent, ListFiles, StreamSpeaks, Turn, Elapse, EngineChanges,
                SwarmChanges, torrentVars, cacheVars, showVars
  <2>2. ASSUME NEW m \in Movies, AskMovie(m) \/ ListMovie(m)
        PROVE  OfMovies /\ OfShows /\ UNCHANGED SeriesHost
    BY <2>2 DEF AskMovie, ListMovie, showVars, engineVars
  <2>3. ASSUME NEW e \in Episodes, AskEpisode(e)
        PROVE  OfMovies /\ OfShows /\ UNCHANGED SeriesHost
    <3>1. e[1] \in Shows
      BY ListingsAssumption
    <3> QED BY <2>3, <3>1 DEF AskEpisode, showVars, engineVars
  <2>4. CASE Details
    <3>1. play.of \in Movies
      BY <2>4 DEF Details, TorrentInv, Opening
    <3>2. Kept \/ RecordTorrents(play.of) \/ (Reuse(play.of) /\ play.of \in ToSet(entries))
      BY <2>4 DEF Details, MovieContent, engineVars
    <3>3. KeptShows /\ UNCHANGED SeriesHost
      BY <2>4 DEF Details, showVars
    <3> QED BY <3>1, <3>2, <3>3
  <2>5. CASE FetchShow
    <3>1. play.of \in Episodes /\ SeriesHost
      BY <2>5 DEF FetchShow, TorrentInv, Opening
    <3>2. play.of[1] \in Shows
      BY <3>1, ListingsAssumption
    <3> QED BY <2>5, <3>1, <3>2 DEF FetchShow, showVars, engineVars
  <2>6. ASSUME NEW s \in Shows, OpenShow(s)
        PROVE  OfMovies /\ OfShows /\ UNCHANGED SeriesHost
    BY <2>6 DEF OpenShow, engineVars
  <2> QED BY <2>1, <2>2, <2>3, <2>4, <2>5, <2>6 DEF TorrentNext
<1> DEFINE GoodMovies == /\ touched' \in Seq(Movies) /\ Distinct(touched)'
                        /\ entries' = Latest(touched', EntriesLimit)
           GoodShows == /\ fetched' \in Seq(Shows) /\ Distinct(fetched)'
                        /\ shows' = Latest(fetched', ShowMax)
                        /\ ~SeriesHost => fetched' = <<>>
<1>2. GoodMovies
  <2>1. CASE Kept
    BY <2>1 DEF CachesInv, Distinct
  <2>2. ASSUME NEW m \in Movies, RecordTorrents(m) \/ (Reuse(m) /\ m \in ToSet(entries))
        PROVE  GoodMovies
    BY <2>2, ToMovies DEF Distinct
  <2> QED BY <1>1, <2>1, <2>2
<1>3. GoodShows
  <2>1. CASE KeptShows
    BY <2>1 DEF CachesInv, Distinct
  <2>2. ASSUME NEW s \in Shows, NEW since, SeriesHost, KeepShow(s, since) \/ (ReuseShow(s) /\ Fresh(s))
        PROVE  GoodShows
    BY <2>2, ToShows DEF Distinct
  <2> QED BY <1>1, <2>1, <2>2
<1> QED BY <1>1, <1>2, <1>3 DEF CachesInv

\* A play that learns its candidates turns to the engine with a clean record.
LEMMA Turning ==
    ASSUME NEW id \in Movies \cup Episodes, NEW started,
           DOMAIN started = DOMAIN NoPlay, seen = NoHistory,
           started.of = id, started.cands = <<>>, started.k = 1,
           started.code = "none", started.blamed = "nobody",
           started.own = (id \in Episodes /\ TorrentsOf(id) # {}),
           TurnToEngine(PoolOf(id), started)
    PROVE  TorrentInv'
<1> DEFINE pool == PoolOf(id)
           tried == Tried(pool)
<1>1. Pooled(pool)
  BY PoolsListed
<1>2. /\ Len(tried) \in Nat /\ DOMAIN tried = 1 .. Len(tried)
      /\ tried = <<>> <=> Len(tried) = 0
      /\ tried = <<>> <=> pool.at = {}
  BY <1>1, TriedFacts
<1>3. id # "none"
  BY ListingsAssumption
<1> HIDE DEF pool, tried
<1>4. CASE tried = <<>>
  <2>1. /\ play' = [started EXCEPT !.pc = "done", !.code = "not_found"]
        /\ UNCHANGED <<engine, swarm, seen>>
    BY <1>4 DEF TurnToEngine, tried, pool, Tried, engineVars
  <2>2. /\ DOMAIN play' = DOMAIN NoPlay /\ play'.pc = "done" /\ play'.code = "not_found"
        /\ play'.of = id /\ play'.cands = <<>>
    BY <2>1 DEF NoPlay
  <2>3. DOMAIN seen' = DOMAIN NoHistory /\ seen' = NoHistory
    BY <2>1
  <2>4. PoolOf(play'.of).at = {}
    BY <1>2, <1>4, <2>2 DEF pool
  <2>5. Opening'
    BY <2>2, <2>3 DEF Opening, Playing, Stages, Trying
  <2> QED BY <2>2, <2>3, <2>4, <2>5 DEF TorrentInv, Trying
<1>5. CASE tried # <<>>
  <2>1. /\ play' = [started EXCEPT !.pc = "add", !.age = 0, !.cands = tried, !.hint = pool.hint]
        /\ engine' = engine
    BY <1>5 DEF TurnToEngine, tried, pool, Tried, engineVars
  <2>2. PICK sw \in [{tried[i].torrent : i \in DOMAIN tried} -> SwarmStates] :
          /\ swarm' = sw
          /\ seen' = [steady |-> {t \in DOMAIN sw : sw[t] = "speaks"},
                      always |-> engine = "up", ever |-> engine \in Reached, garbled |-> engine = "garbled"]
    BY <1>5 DEF TurnToEngine, tried, pool, Tried, engineVars
  <2>3. /\ DOMAIN play' = DOMAIN NoPlay /\ play'.pc = "add" /\ play'.of = id
        /\ play'.cands = tried /\ play'.hint = pool.hint /\ play'.k = 1
        /\ play'.code = "none" /\ play'.blamed = "nobody" /\ play'.own = started.own
    BY <2>1 DEF NoPlay
  <2>4. /\ DOMAIN seen' = DOMAIN NoHistory
        /\ seen'.steady = {t \in DOMAIN sw : sw[t] = "speaks"}
        /\ seen'.always = (engine = "up") /\ seen'.ever = (engine \in Reached)
        /\ seen'.garbled = (engine = "garbled")
    BY <2>2 DEF NoHistory
  <2>5. Witnessed'
    BY <2>1, <2>2, <2>3, <2>4 DEF Witnessed
  <2>6. Turned'
    <3>1. 1 \in DOMAIN tried /\ \A j \in DOMAIN tried : ~(j < 1)
      BY <1>2, <1>5
    <3> QED BY <2>3, <3>1 DEF Turned, tried, pool
  <2>7. Opening'
    BY <1>5, <2>3 DEF Opening, Playing, Stages
  <2> QED BY <1>5, <2>3, <2>4, <2>5, <2>6, <2>7 DEF TorrentInv, Trying
<1> QED BY <1>4, <1>5

\* A play passes over a candidate that did not speak all along.
LEMMA PassingOver ==
    ASSUME TorrentInv, play.pc \in Trying, NEW retryable \in BOOLEAN, Rejected(retryable),
           UNCHANGED <<engine, swarm, seen>>,
           seen.ever, seen.always => Candidate \notin seen.steady
    PROVE  TorrentInv'
<1>1. /\ DOMAIN play = DOMAIN NoPlay /\ DOMAIN seen = DOMAIN NoHistory
      /\ Opening /\ Turned /\ Witnessed /\ play.cands # <<>>
      /\ play.code = "none" /\ play.blamed = "nobody"
  BY DEF TorrentInv, Opening
<1>2. /\ Len(play.cands) \in Nat /\ DOMAIN play.cands = 1 .. Len(play.cands)
      /\ play.k \in 1 .. Len(play.cands)
  <2>1. Pooled(PoolOf(play.of)) /\ play.cands = Tried(PoolOf(play.of)) /\ play.k \in DOMAIN play.cands
    BY <1>1, PoolsListed DEF Turned
  <2> QED BY <2>1, TriedFacts
<1>3. ASSUME seen.always
      PROVE  \A j \in DOMAIN play.cands : j < play.k + 1 => play.cands[j].torrent \notin seen.steady
  <2>1. \A j \in DOMAIN play.cands : j < play.k + 1 => j < play.k \/ j = play.k
    BY <1>2
  <2> QED BY <1>1, <1>3, <2>1 DEF Turned, Candidate
<1> DEFINE Same == /\ DOMAIN play' = DOMAIN NoPlay /\ play'.of = play.of /\ play'.cands = play.cands
                   /\ play'.hint = play.hint /\ play'.own = play.own
<1>4. CASE retryable /\ play.try < MaxTries
  <2>1. play' = [play EXCEPT !.pc = "add", !.try = @ + 1]
    BY <1>4 DEF Rejected
  <2>2. /\ Same /\ play'.pc = "add" /\ play'.k = play.k
        /\ play'.code = "none" /\ play'.blamed = "nobody"
    BY <1>1, <2>1 DEF NoPlay
  <2> HIDE DEF Same
  <2>3. Turned' /\ Witnessed'
    BY <1>1, <2>2 DEF Turned, Witnessed, Same
  <2>4. Opening'
    BY <1>1, <2>2 DEF Opening, Playing, Stages, Same
  <2> QED BY <1>1, <2>2, <2>3, <2>4 DEF TorrentInv, Trying, Same
<1>5. CASE ~(retryable /\ play.try < MaxTries) /\ play.k < Len(play.cands)
  <2>1. play' = [play EXCEPT !.pc = "add", !.k = @ + 1, !.try = 1]
    BY <1>5 DEF Rejected
  <2>2. /\ Same /\ play'.pc = "add" /\ play'.k = play.k + 1
        /\ play'.code = "none" /\ play'.blamed = "nobody"
    BY <1>1, <2>1 DEF NoPlay
  <2> HIDE DEF Same
  <2>3. play.k + 1 \in DOMAIN play.cands
    BY <1>2, <1>5
  <2>4. Turned'
    BY <1>1, <1>3, <2>2, <2>3 DEF Turned, Same
  <2>5. Witnessed'
    BY <1>1, <2>2 DEF Witnessed, Same
  <2>6. Opening'
    BY <1>1, <2>2 DEF Opening, Playing, Stages, Same
  <2> QED BY <1>1, <2>2, <2>4, <2>5, <2>6 DEF TorrentInv, Trying, Same
<1>6. CASE ~(retryable /\ play.try < MaxTries) /\ ~(play.k < Len(play.cands))
  <2>1. play' = [play EXCEPT !.pc = "done", !.code = "not_found", !.blamed = "nobody"]
    BY <1>6 DEF Rejected, Finish
  <2>2. /\ Same /\ play'.pc = "done" /\ play'.k = play.k
        /\ play'.code = "not_found" /\ play'.blamed = "nobody"
    BY <1>1, <2>1 DEF NoPlay
  <2> HIDE DEF Same
  <2>3. \A j \in DOMAIN play.cands : j < play.k + 1
    BY <1>2, <1>6
  <2>4. Judged'
    BY <1>1, <1>3, <2>2, <2>3 DEF Judged, Same
  <2>5. Turned'
    BY <1>1, <2>2 DEF Turned, Same
  <2>6. Opening'
    BY <1>1, <2>2 DEF Opening, Playing, Stages, Same
  <2> QED BY <1>1, <2>2, <2>4, <2>5, <2>6 DEF TorrentInv, Trying, Same
<1> QED BY <1>4, <1>5, <1>6

\* An engine that fails a play was not there all along.
LEMMA Faulting ==
    ASSUME TorrentInv, play.pc \in Trying, UNCHANGED <<engine, swarm, seen>>,
           EngineFault \/ (engine = "hung" /\ Finish("unreachable", "engine"))
    PROVE  TorrentInv'
<1>1. /\ DOMAIN play = DOMAIN NoPlay /\ DOMAIN seen = DOMAIN NoHistory
      /\ Opening /\ Turned /\ Witnessed /\ play.cands # <<>>
  BY DEF TorrentInv, Opening
<1>2. /\ ~seen.always
      /\ \/ play' = [play EXCEPT !.pc = "done", !.code = "unreachable", !.blamed = "engine"]
         \/ /\ play' = [play EXCEPT !.pc = "done", !.code = "crash", !.blamed = "yts"]
            /\ seen.garbled
  BY <1>1 DEF EngineFault, Finish, Witnessed
<1>3. /\ DOMAIN play' = DOMAIN NoPlay /\ play'.of = play.of /\ play'.cands = play.cands
      /\ play'.hint = play.hint /\ play'.own = play.own /\ play'.k = play.k
      /\ play'.pc = "done" /\ play'.code \in {"unreachable", "crash"}
      /\ play'.blamed = "engine" \/ (play'.blamed = "yts" /\ seen.garbled)
  BY <1>1, <1>2 DEF NoPlay
<1>4. Judged'
  BY <1>2, <1>3 DEF Judged
<1>5. Turned'
  BY <1>1, <1>3 DEF Turned
<1>6. Opening'
  BY <1>1, <1>3 DEF Opening, Playing, Stages
<1> QED BY <1>1, <1>3, <1>4, <1>5, <1>6 DEF TorrentInv, Trying

\* A play that is asked for: from the caches, or from the host that has it.
LEMMA Beginning ==
    ASSUME CachesInv, TorrentInv,
           AskNonsense \/ (\E m \in Movies : AskMovie(m)) \/ (\E e \in Episodes : AskEpisode(e))
    PROVE  TorrentInv'
<1>0. play.pc = "idle"
  BY Zenon DEF AskNonsense, AskMovie, AskEpisode
<1>1. play.pc = "idle" /\ seen = NoHistory /\ DOMAIN seen = DOMAIN NoHistory
  BY <1>0 DEF TorrentInv, Opening
<1>2. CASE AskNonsense
  <2>1. play' = [NoPlay EXCEPT !.pc = "done", !.code = "not_found"] /\ seen' = seen
    BY <1>2 DEF AskNonsense, engineVars
  <2>2. /\ DOMAIN play' = DOMAIN NoPlay /\ play'.pc = "done" /\ play'.of = "none" /\ ~play'.warm
        /\ play'.cands = <<>> /\ play'.code = "not_found"
    BY <2>1 DEF NoPlay
  <2> QED BY <1>1, <2>1, <2>2 DEF TorrentInv, Opening, Playing, Stages, Trying
<1>3. ASSUME NEW m \in Movies, AskMovie(m)
      PROVE  TorrentInv'
  <2> DEFINE started == [NoPlay EXCEPT !.of = m, !.warm = Warm(m)]
  <2>1. /\ DOMAIN started = DOMAIN NoPlay /\ started.of = m /\ started.warm = Warm(m)
        /\ started.cands = <<>> /\ started.k = 1 /\ started.code = "none" /\ started.blamed = "nobody"
        /\ started.own = FALSE
    BY DEF NoPlay
  <2>2. m \notin Episodes /\ PoolOf(m) = FilmPool(m)
    BY ListingsAssumption, PoolsListed
  <2>3. CASE m \in ToSet(entries)
    <3>1. TurnToEngine(FilmPool(m), started)
      BY <1>3, <2>3 DEF AskMovie
    <3> HIDE DEF started
    <3>2. started.own = (m \in Episodes /\ TorrentsOf(m) # {})
      BY <2>1, <2>2
    <3> QED BY <1>1, <2>1, <2>2, <3>1, <3>2, Turning
  <2>4. CASE m \notin ToSet(entries)
    <3>1. play' = [started EXCEPT !.pc = "details"] /\ seen' = seen
      BY <1>3, <2>4 DEF AskMovie, engineVars
    <3>2. Warm(m) = FALSE
      BY <2>4 DEF CachesInv, Warm
    <3>3. /\ DOMAIN play' = DOMAIN NoPlay /\ play'.pc = "details" /\ play'.of = m /\ play'.warm = FALSE
          /\ play'.cands = <<>> /\ play'.k = 1 /\ play'.code = "none" /\ play'.blamed = "nobody"
          /\ play'.own = FALSE
      BY <3>1, <3>2 DEF NoPlay
    <3> HIDE DEF started
    <3>4. play'.own = (m \in Episodes /\ TorrentsOf(m) # {})
      BY <2>2, <3>3
    <3> QED BY <1>1, <3>1, <3>3, <3>4 DEF TorrentInv, Opening, Playing, Stages, Trying
  <2> QED BY <2>3, <2>4
<1>4. ASSUME NEW e \in Episodes, AskEpisode(e)
      PROVE  TorrentInv'
  <2> DEFINE started == [NoPlay EXCEPT !.of = e, !.warm = Warm(e), !.own = TorrentsOf(e) # {}]
  <2>1. /\ DOMAIN started = DOMAIN NoPlay /\ started.of = e /\ started.warm = Warm(e)
        /\ started.cands = <<>> /\ started.k = 1 /\ started.code = "none" /\ started.blamed = "nobody"
        /\ started.own = (TorrentsOf(e) # {})
    BY DEF NoPlay
  <2>2. e \notin Movies /\ PoolOf(e) = EpisodePool(e)
    BY ListingsAssumption, PoolsListed
  <2>3. SeriesHost /\ Warm(e) => Fresh(e[1])
    BY <2>2 DEF CachesInv, Warm, Fresh
  <2>4. ~SeriesHost => ~Warm(e)
    <3>1. ToSet(Latest(<<>>, ShowMax)) = {}
      BY BoundsAssumption DEF Latest, ToSet
    <3> QED BY <2>2, <3>1 DEF CachesInv, Warm
  <2>5. CASE ~SeriesHost
    <3>1. play' = [started EXCEPT !.pc = "done", !.code = "unreachable", !.blamed = "yts"] /\ seen' = seen
      BY <1>4, <2>5 DEF AskEpisode, engineVars
    <3>2. /\ DOMAIN play' = DOMAIN NoPlay /\ play'.pc = "done" /\ play'.of = e /\ play'.warm = Warm(e)
          /\ play'.cands = <<>> /\ play'.code = "unreachable"
      BY <3>1 DEF NoPlay
    <3> HIDE DEF started
    <3> QED BY <1>1, <2>4, <2>5, <3>1, <3>2 DEF TorrentInv, Opening, Playing, Stages, Trying
  <2>6. CASE SeriesHost /\ Fresh(e[1])
    <3>1. TurnToEngine(EpisodePool(e), started)
      BY <1>4, <2>6 DEF AskEpisode
    <3> HIDE DEF started
    <3> QED BY <1>1, <2>1, <2>2, <3>1, Turning
  <2>7. CASE SeriesHost /\ ~Fresh(e[1])
    <3>1. play' = [started EXCEPT !.pc = "show"] /\ seen' = seen /\ SeriesHost'
      BY <1>4, <2>7 DEF AskEpisode, engineVars
    <3>0. e \in Episodes /\ ~Warm(e)
      BY <2>3, <2>7
    <3>2. /\ DOMAIN play' = DOMAIN NoPlay /\ play'.pc = "show" /\ play'.of = e /\ play'.warm = Warm(e)
          /\ play'.cands = <<>> /\ play'.k = 1 /\ play'.code = "none" /\ play'.blamed = "nobody"
          /\ play'.own = (TorrentsOf(e) # {})
      BY <3>1 DEF NoPlay
    <3> HIDE DEF started
    <3>3. Opening'
      <4>1. play'.pc = "show" /\ play'.of = e /\ ~play'.warm /\ play'.cands = <<>> /\ play'.k = 1
            /\ play'.code = "none" /\ play'.blamed = "nobody" /\ play'.own = (TorrentsOf(e) # {})
        BY <3>0, <3>2
      <4>2. seen' = NoHistory /\ SeriesHost'
        BY <1>1, <3>1
      <4>4. play'.own = (play'.of \in Episodes /\ TorrentsOf(play'.of) # {})
        BY <3>0, <4>1
      <4>5. play'.pc \in Stages /\ play'.pc \notin Trying /\ play'.pc # "details"
        BY <4>1 DEF Stages, Trying
      <4>6. play'.of \in Movies \cup Episodes /\ play'.of \in Episodes
        BY <3>0, <4>1
      <4> QED BY <4>1, <4>2, <4>4, <4>5, <4>6 DEF Opening
    <3>4. play'.pc = "show" /\ play'.cands = <<>> /\ DOMAIN play' = DOMAIN NoPlay
      BY <3>2
    <3>5. seen' = NoHistory /\ DOMAIN seen' = DOMAIN NoHistory
      BY <1>1, <3>1
    <3>6. play'.pc \notin Trying /\ play'.pc # "done"
      BY <3>4 DEF Trying
    <3> QED BY <3>3, <3>4, <3>5, <3>6, StillAsked, Zenon
  <2> QED BY <2>5, <2>6, <2>7
<1> QED BY <1>2, <1>3, <1>4

\* A host that has been asked answers, or does not.
LEMMA Answering == ASSUME TorrentInv, Details \/ FetchShow PROVE TorrentInv'
<1>1. /\ play.pc \in {"details", "show"} /\ DOMAIN play = DOMAIN NoPlay
      /\ seen = NoHistory /\ DOMAIN seen = DOMAIN NoHistory /\ Opening
      /\ play.cands = <<>> /\ play.k = 1 /\ play.code = "none" /\ play.blamed = "nobody" /\ ~play.warm
      /\ play.of \in Movies \cup Episodes
      /\ play.own = (play.of \in Episodes /\ TorrentsOf(play.of) # {})
  BY ListingsAssumption DEF Details, FetchShow, TorrentInv, Opening
<1> DEFINE Ends == \E code \in {"unreachable", "not_found"}, blamed \in {"yts", "nobody"} :
                      Finish(code, blamed) /\ seen' = seen
           Turns == TurnToEngine(PoolOf(play.of), play)
<1>2. CASE Ends
  <2>1. PICK code \in {"unreachable", "not_found"}, blamed \in {"yts", "nobody"} :
           play' = [play EXCEPT !.pc = "done", !.code = code, !.blamed = blamed] /\ seen' = seen
    BY <1>2 DEF Finish
  <2>2. /\ DOMAIN play' = DOMAIN NoPlay /\ play'.pc = "done" /\ play'.of = play.of
        /\ play'.warm = play.warm /\ play'.cands = <<>> /\ play'.code = code
    BY <1>1, <2>1 DEF NoPlay
  <2> QED BY <1>1, <2>1, <2>2 DEF TorrentInv, Opening, Playing, Stages, Trying
<1>3. CASE Turns
  BY <1>1, <1>3, Turning
<1>4. ASSUME Details
      PROVE  Ends \/ Turns
  <2>1. play.of \in Movies
    BY <1>4 DEF Details, TorrentInv, Opening
  <2> QED BY <1>4, <2>1, PoolsListed DEF Details, MovieContent, engineVars
<1>5. ASSUME FetchShow
      PROVE  Ends \/ Turns
  <2>1. play.of \in Episodes
    BY <1>5 DEF FetchShow, TorrentInv, Opening
  <2> QED BY <1>5, <2>1, PoolsListed DEF FetchShow, engineVars
<1> QED BY <1>2, <1>3, <1>4, <1>5

\* A play goes through its conversation with the engine.
LEMMA Conversing == ASSUME TorrentInv, AddTorrent \/ ListFiles \/ StreamSpeaks PROVE TorrentInv'
<1>1. /\ play.pc \in Trying /\ DOMAIN play = DOMAIN NoPlay /\ DOMAIN seen = DOMAIN NoHistory
      /\ Opening /\ Turned /\ Witnessed /\ play.cands # <<>>
      /\ play.code = "none" /\ play.blamed = "nobody"
  BY DEF AddTorrent, ListFiles, StreamSpeaks, Trying, TorrentInv, Opening
<1>2. UNCHANGED <<engine, swarm, seen>>
  BY DEF AddTorrent, ListFiles, StreamSpeaks
<1> DEFINE PassesOver == \E retryable \in BOOLEAN :
                           /\ Rejected(retryable)
                           /\ seen.ever /\ (seen.always => Candidate \notin seen.steady)
           Hangs == engine = "hung" /\ Finish("unreachable", "engine")
           GoesOn == \E pc \in {"list", "probe"} : engine = "up" /\ play' = [play EXCEPT !.pc = pc]
           Plays == play' = [play EXCEPT !.pc = "done", !.code = "ok",
                                         !.stream = EngineStream(Candidate, play.hint)]
<1>3. CASE EngineFault \/ Hangs
  BY <1>1, <1>2, <1>3, Faulting
<1>4. CASE PassesOver
  BY <1>1, <1>2, <1>4, PassingOver
<1>5. CASE GoesOn
  <2>1. PICK pc \in {"list", "probe"} : engine = "up" /\ play' = [play EXCEPT !.pc = pc]
    BY <1>5
  <2>2. /\ DOMAIN play' = DOMAIN NoPlay /\ play'.pc = pc /\ play'.of = play.of /\ play'.cands = play.cands
        /\ play'.k = play.k /\ play'.hint = play.hint /\ play'.own = play.own
        /\ play'.code = "none" /\ play'.blamed = "nobody"
    BY <1>1, <2>1 DEF NoPlay
  <2>3. Turned'
    BY <1>1, <1>2, <2>2 DEF Turned
  <2>4. Witnessed'
    BY <1>1, <1>2, <2>1, <2>2 DEF Witnessed, Reached
  <2>5. Opening'
    BY <1>1, <1>2, <2>2 DEF Opening, Playing, Stages
  <2> QED BY <1>1, <1>2, <2>2, <2>3, <2>4, <2>5 DEF TorrentInv, Trying
<1>6. CASE Plays
  <2>1. /\ DOMAIN play' = DOMAIN NoPlay /\ play'.pc = "done" /\ play'.of = play.of
        /\ play'.cands = play.cands /\ play'.k = play.k /\ play'.hint = play.hint
        /\ play'.own = play.own /\ play'.code = "ok" /\ play'.blamed = "nobody"
        /\ play'.stream = EngineStream(Candidate, play.hint)
    BY <1>1, <1>6 DEF NoPlay
  <2>2. Judged'
    BY <2>1 DEF Judged, Candidate
  <2>3. Turned'
    BY <1>1, <1>2, <2>1 DEF Turned
  <2>4. Opening'
    BY <1>1, <1>2, <2>1 DEF Opening, Playing, Stages
  <2> QED BY <1>1, <1>2, <2>1, <2>2, <2>3, <2>4 DEF TorrentInv, Trying
<1>7. /\ engine \in {"up", "hung"} => seen.ever
      /\ seen.always => engine # "hung"
  BY <1>1 DEF Witnessed, Reached
<1>8. \A t \in seen.steady : swarm[t] = "speaks"
  BY <1>1 DEF Witnessed
<1>9. ASSUME AddTorrent
      PROVE  EngineFault \/ PassesOver \/ GoesOn
  <2>1. (swarm[Candidate] = "mute") \in BOOLEAN /\ TRUE \in BOOLEAN
    OBVIOUS
  <2> QED BY <1>7, <1>8, <1>9, <2>1 DEF AddTorrent
<1>10. ASSUME ListFiles
       PROVE  EngineFault \/ Hangs \/ PassesOver \/ GoesOn
  BY <1>7, <1>8, <1>10 DEF ListFiles
<1>11. ASSUME StreamSpeaks
       PROVE  PassesOver \/ Plays
  <2>1. seen.ever /\ (seen.always => engine = "up")
    BY <1>1, <1>11 DEF StreamSpeaks, Witnessed
  <2> QED BY <1>8, <1>11, <2>1 DEF StreamSpeaks
<1> QED BY <1>3, <1>4, <1>5, <1>6, <1>9, <1>10, <1>11

LEMMA PlayStep == CachesInv /\ TorrentInv /\ [TorrentNext]_torrentVars => TorrentInv'
<1> SUFFICES ASSUME CachesInv, TorrentInv, [TorrentNext]_torrentVars PROVE TorrentInv'
  OBVIOUS
<1>1. CASE AskNonsense \/ (\E m \in Movies : AskMovie(m)) \/ (\E e \in Episodes : AskEpisode(e))
  BY <1>1, Beginning
<1>2. CASE Details \/ FetchShow
  BY <1>2, Answering
<1>3. CASE AddTorrent \/ ListFiles \/ StreamSpeaks
  BY <1>3, Conversing
<1>4. CASE Turn
  BY <1>4 DEF Turn, TorrentInv, NoPlay, NoHistory, Opening, Playing, Stages, Trying
<1>5. CASE (\E m \in Movies : ListMovie(m)) \/ (\E s \in Shows : OpenShow(s)) \/ UNCHANGED torrentVars
  <2>1. UNCHANGED <<SeriesHost, engine, swarm, play, seen>>
    BY <1>5 DEF ListMovie, OpenShow, torrentVars, engineVars
  <2> QED BY <2>1 DEF TorrentInv, Opening, Playing, Turned, Witnessed, Judged, Candidate
<1>6. CASE Elapse
  <2>1. DOMAIN play = DOMAIN NoPlay /\ play.pc \notin Trying \cup {"done"} /\ play.cands = <<>>
    BY <1>6 DEF Elapse, BeforeEngine, TorrentInv, Opening, Trying
  <2>2. /\ UNCHANGED <<SeriesHost, engine, swarm, seen>>
        /\ play' = play \/ play' = [play EXCEPT !.age = Later(play.age)]
    BY <1>6 DEF Elapse, engineVars
  <2>3. /\ DOMAIN play' = DOMAIN NoPlay /\ play'.pc = play.pc /\ play'.of = play.of
        /\ play'.cands = play.cands /\ play'.k = play.k /\ play'.code = play.code
        /\ play'.blamed = play.blamed /\ play'.warm = play.warm /\ play'.own = play.own
    BY <2>1, <2>2 DEF NoPlay
  <2> QED BY <2>1, <2>2, <2>3 DEF TorrentInv, Opening, Playing, Trying
<1>7. CASE EngineChanges
  <2>1. PICK e \in EngineStates \ {engine} :
          /\ engine' = e
          /\ seen' = IF BeforeEngine \/ play.pc = "done" THEN seen
                     ELSE [seen EXCEPT !.always = FALSE, !.ever = @ \/ e \in Reached,
                                       !.garbled = @ \/ e = "garbled"]
          /\ UNCHANGED <<SeriesHost, swarm, play>>
    BY <1>7 DEF EngineChanges
  <2>2. CASE BeforeEngine \/ play.pc = "done"
    <3>1. play.pc \notin Trying /\ UNCHANGED <<SeriesHost, play, seen>>
      BY <2>1, <2>2 DEF BeforeEngine, Trying
    <3> QED BY <3>1 DEF TorrentInv, Opening, Playing, Turned, Judged, Candidate
  <2>3. CASE ~(BeforeEngine \/ play.pc = "done")
    <3>1. play.pc \in Trying /\ DOMAIN seen = DOMAIN NoHistory
      BY <2>3 DEF BeforeEngine, TorrentInv, Opening, Stages, Trying
    <3>2. /\ DOMAIN seen' = DOMAIN NoHistory /\ seen'.steady = seen.steady /\ ~seen'.always
          /\ seen'.ever = (seen.ever \/ e \in Reached) /\ seen'.garbled = (seen.garbled \/ e = "garbled")
      BY <2>1, <2>3, <3>1 DEF NoHistory
    <3>3. Turned'
      BY <2>1, <3>1, <3>2 DEF TorrentInv, Opening, Turned
    <3>4. Witnessed'
      BY <2>1, <3>1, <3>2 DEF TorrentInv, Witnessed
    <3>5. Opening' /\ play.cands # <<>>
      BY <2>1, <3>1 DEF TorrentInv, Opening, Playing
    <3> QED BY <2>1, <3>1, <3>2, <3>3, <3>4, <3>5 DEF TorrentInv, Trying
  <2> QED BY <2>2, <2>3
<1>8. CASE SwarmChanges
  <2>1. PICK t, w : /\ swarm' = [swarm EXCEPT ![t] = w]
                    /\ seen' = [seen EXCEPT !.steady = @ \ {t}]
    BY <1>8 DEF SwarmChanges
  <2>2. play.pc \in Trying /\ DOMAIN seen = DOMAIN NoHistory /\ UNCHANGED <<SeriesHost, engine, play>>
    BY <1>8 DEF SwarmChanges, Trying, TorrentInv
  <2>3. /\ DOMAIN seen' = DOMAIN NoHistory /\ seen'.steady = seen.steady \ {t}
        /\ seen'.always = seen.always /\ seen'.ever = seen.ever /\ seen'.garbled = seen.garbled
    BY <2>1, <2>2 DEF NoHistory
  <2>4. Turned'
    BY <2>2, <2>3 DEF TorrentInv, Opening, Turned
  <2>5. Witnessed'
    BY <2>1, <2>2, <2>3 DEF TorrentInv, Witnessed
  <2>6. Opening' /\ play.cands # <<>>
    BY <2>2 DEF TorrentInv, Opening, Playing
  <2> QED BY <2>2, <2>3, <2>4, <2>5, <2>6 DEF TorrentInv, Trying
<1> QED BY <1>1, <1>2, <1>3, <1>4, <1>5, <1>6, <1>7, <1>8 DEF TorrentNext

LEMMA TorrentHeld == TorrentSpec => [](CachesInv /\ TorrentInv)
<1> QED BY TorrentStart, CachesStep, PlayStep, PTL DEF TorrentSpec

\* A set of numbers has a least one.
LEMMA LeastIsOne ==
    ASSUME NEW S \in SUBSET Nat, S # {}
    PROVE  Min(S) \in S /\ \A y \in S : Min(S) <= y
<1>1. PICK x \in S : \A y \in S : ~(<<y, x>> \in OpToRel(<, Nat))
  BY NatLessThanWellFounded, WFMin, Zenon
<1>2. \A y \in S : ~(y < x)
  BY <1>1 DEF OpToRel
<1>3. \A y \in S : x <= y
  BY <1>2
<1> QED BY <1>3 DEF Min

\* No verdict of a play falls on who did not earn it: an item is given up only
\* where the engine was reached, the engine is blamed only where it failed, the
\* lane only where the engine spoke nonsense. For any number of candidates,
\* attempts and tries.
THEOREM BlameHeld == TorrentSpec => []BlameIsFair
<1>1. TorrentInv => BlameIsFair
  BY DEF TorrentInv, Judged, BlameIsFair, Done
<1> QED BY <1>1, TorrentHeld, PTL

\* What a cache holds is played without the catalogue hosts: the torrents of
\* the movies used last, the shows fetched last and lately. For caches and
\* histories of any length.
THEOREM OutageSurvived == TorrentSpec => []WarmSurvivesOutage
<1>1. TorrentInv => WarmSurvivesOutage
  BY DEF TorrentInv, WarmSurvivesOutage, Done
<1> QED BY <1>1, TorrentHeld, PTL

\* A torrent in reach of the policy stands where the play tries it.
LEMMA ReachIsTried ==
    ASSUME NEW pool, Pooled(pool), NEW i \in InReach(pool)
    PROVE  /\ i \in pool.at /\ Place(pool, i) \in DOMAIN Tried(pool)
           /\ Tried(pool)[Place(pool, i)] = pool.from[i]
<1> DEFINE S == {j \in pool.at : ~Before(pool.from, i, j)}
           T == {j \in pool.at : ~Better(pool.from[i], pool.from[j])}
<1>1. i \in pool.at /\ Cardinality(T) <= MaxCandidates
  BY DEF InReach
<1>2. S \subseteq T /\ T \subseteq pool.at /\ IsFiniteSet(pool.at)
  BY <1>1, BeforeOrders, Places DEF Pooled
<1>3. Place(pool, i) = Cardinality(S)
  BY DEF Place
<1> HIDE DEF S, T
<1>4. /\ IsFiniteSet(S) /\ IsFiniteSet(T) /\ Cardinality(S) <= Cardinality(T)
      /\ Cardinality(S) \in Nat /\ Cardinality(T) \in Nat
  BY <1>2, FS_Subset, FS_CardinalityType
<1>5. Place(pool, i) <= MaxCandidates
  BY <1>1, <1>3, <1>4, BoundsAssumption
<1> QED BY <1>1, <1>5, TriedFacts

\* The policy is kept: while the engine answers, no torrent in reach that spoke
\* all along is lost to a "not found" or to a worse one, whatever the others of
\* the pool do and however often they are tried.
THEOREM BestPlays == TorrentSpec => []BestSpeakingPlays
<1>1. ASSUME TorrentInv
      PROVE  BestSpeakingPlays
  <2> DEFINE pool == PoolOf(play.of)
  <2> SUFFICES ASSUME Done, Playing, seen.always,
                      NEW i \in InReach(pool), pool.from[i].torrent \in seen.steady
               PROVE  /\ play.code = "ok"
                      /\ \E j \in pool.at : /\ pool.from[j].torrent = play.stream.torrent
                                            /\ ~Better(pool.from[i], pool.from[j])
    BY DEF BestSpeakingPlays
  <2>1. play.cands # <<>>
    BY <1>1 DEF TorrentInv, Opening, NoHistory
  <2>2. Turned /\ Judged
    BY <1>1, <2>1 DEF TorrentInv, Done
  <2>3. /\ Pooled(pool) /\ play.cands = Tried(pool) /\ play.k \in DOMAIN play.cands
        /\ DOMAIN play.cands = 1 .. Len(play.cands) /\ Len(play.cands) \in Nat
    BY <2>2, PoolsListed, TriedFacts DEF Turned
  <2>4. /\ i \in pool.at /\ Place(pool, i) \in DOMAIN play.cands
        /\ play.cands[Place(pool, i)] = pool.from[i]
    BY <2>3, ReachIsTried
  <2>5. play.code = "ok" /\ play.stream = EngineStream(Candidate, play.hint)
    BY <2>2, <2>4 DEF Judged
  <2>6. ~(Place(pool, i) < play.k)
    BY <2>2, <2>4 DEF Turned
  <2>7. PICK j \in pool.at : Place(pool, j) = play.k /\ play.cands[play.k] = pool.from[j]
    BY <2>3, TriedFacts
  <2>8. pool.from[j].torrent = play.stream.torrent
    BY <2>5, <2>7 DEF EngineStream, Candidate
  <2>9. ~Before(pool.from, i, j)
    BY <2>3, <2>4, <2>6, <2>7, Places
  <2>10. ~Better(pool.from[i], pool.from[j])
    BY <2>3, <2>4, <2>7, <2>9, BeforeOrders DEF Pooled
  <2> QED BY <2>5, <2>8, <2>10
<1> QED BY <1>1, TorrentHeld, PTL

\* A file that an episode's exact token hits is named for that episode.
LEMMA ExactHit ==
    ASSUME NEW a \in Nat, NEW b \in Nat, NEW file, file.token \in {<<>>} \cup (Nat \X Nat)
    PROVE  Hit(file, <<a, b>>) <=> file.token = <<a, b>>
<1>1. CASE file.token = <<>>
  BY <1>1 DEF Hit, NoHint, IsPrefix
<1>2. ASSUME NEW c \in Nat, NEW d \in Nat, file.token = <<c, d>>
      PROVE  Hit(file, <<a, b>>) <=> file.token = <<a, b>>
  <2>1. IsPrefix(<<a, b>>, <<c, d>>) <=> SubSeq(<<a, b>>, 1, 2) = SubSeq(<<c, d>>, 1, 2)
    BY DEF IsPrefix
  <2>2. ASSUME NEW q \in Seq(Nat), Len(q) = 2
        PROVE  SubSeq(q, 1, 2) = q
    <3>1. \A n \in 1 .. 2 : q[n] \in Nat
      <4>1. \A n \in 1 .. Len(q) : q[n] \in Nat
        OBVIOUS
      <4> QED BY <2>2, <4>1
    <3> DEFINE r == SubSeq(q, 1, 2)
    <3>2. /\ r \in Seq(Nat) /\ Len(r) = 2
          /\ \A n \in 1 .. 2 : r[n] = q[1 + n - 1]
      BY <3>1, SubSeqProperties
    <3> HIDE DEF r
    <3>3. \A n \in 1 .. 2 : 1 + n - 1 = n
      OBVIOUS
    <3>4. \A n \in 1 .. 2 : r[n] = q[n]
      BY <3>2, <3>3
    <3>5. r = q
      BY <2>2, <3>2, <3>4, SeqEqual
    <3> QED BY <3>5 DEF r
  <2> QED BY <1>2, <2>1, <2>2 DEF Hit, NoHint
<1> QED BY <1>1, <1>2

\* So it is a file named for the episode that is selected, where there is one.
LEMMA ExactFile ==
    ASSUME NEW a \in Nat, NEW b \in Nat, NEW files, Filed(files),
           {n \in DOMAIN files : files[n].token = <<a, b>>} # {}
    PROVE  SelectFile(files, <<a, b>>)
             \in {files[n] : n \in {m \in DOMAIN files : files[m].token = <<a, b>>}}
<1> DEFINE named == {n \in DOMAIN files : files[n].token = <<a, b>>}
           hits == {n \in DOMAIN files : Hit(files[n], <<a, b>>)}
<1>1. \A n \in DOMAIN files : files[n].token \in {<<>>} \cup (Nat \X Nat)
  BY DEF Filed
<1>2. \A n \in DOMAIN files : Hit(files[n], <<a, b>>) <=> files[n].token = <<a, b>>
  BY <1>1, ExactHit
<1>3. hits = named
  BY <1>2
<1>4. hits \in SUBSET Nat /\ hits # {}
  <2>1. DOMAIN files \subseteq Nat
    BY DEF Filed
  <2> QED BY <1>3, <2>1
<1> HIDE DEF hits
<1>5. Min(hits) \in hits
  BY <1>4, LeastIsOne
<1>6. SelectFile(files, <<a, b>>) = files[Min(hits)]
  BY <1>4 DEF SelectFile, hits
<1> QED BY <1>3, <1>5, <1>6

\* An episode with torrents of its own is played from one of them, out of the
\* file that is named for it where there is one: never another episode's.
THEOREM RequestedPlays == TorrentSpec => []PlaysTheRequested
<1>1. ASSUME TorrentInv
      PROVE  PlaysTheRequested
  <2> DEFINE e == play.of
             t == play.stream.torrent
             named == {i \in DOMAIN Files[t] : Files[t][i].token = <<e[2], e[3]>>}
  <2> SUFFICES ASSUME Done, play.code = "ok", play.own
               PROVE  /\ \E i \in TorrentsOf(e) : t = Guide[e[1]][i].torrent
                      /\ named # {} => play.stream.file \in {Files[t][i] : i \in named}
    BY DEF PlaysTheRequested
  <2>1. play.cands # <<>> /\ Turned /\ Judged
    BY <1>1 DEF TorrentInv, Done
  <2>2. e \in Episodes /\ TorrentsOf(e) # {} /\ play.stream = EngineStream(Candidate, play.hint)
    BY <2>1 DEF Turned, Judged
  <2> DEFINE pool == EpisodePool(e)
  <2>3. /\ Pooled(pool) /\ play.cands = Tried(pool) /\ play.k \in DOMAIN play.cands
        /\ play.hint = pool.hint
    BY <2>1, <2>2, PoolsListed DEF Turned
  <2>4. pool = [from |-> Guide[e[1]], at |-> TorrentsOf(e), hint |-> <<e[2], e[3]>>]
    BY <2>2 DEF EpisodePool
  <2>5. PICK i \in TorrentsOf(e) : Candidate = Guide[e[1]][i].torrent
    <3> HIDE DEF pool
    <3>1. PICK i \in pool.at : play.cands[play.k] = pool.from[i]
      BY <2>3, TriedFacts
    <3> QED BY <2>4, <3>1 DEF Candidate
  <2>6. t = Candidate /\ play.stream.file = SelectFile(Files[t], <<e[2], e[3]>>)
    BY <2>2, <2>3, <2>4 DEF EngineStream
  <2>7. e[1] \in Shows /\ e[2] \in Nat /\ e[3] \in Nat
    BY <2>2, ListingsAssumption
  <2>8. Filed(Files[t])
    <3>1. i \in DOMAIN Guide[e[1]] /\ Listed(Guide[e[1]])
      BY <2>7, ListingsAssumption DEF TorrentsOf
    <3> QED BY <2>5, <2>6, <3>1, ListingsAssumption DEF Listed
  <2>9. named # {} => SelectFile(Files[t], <<e[2], e[3]>>) \in {Files[t][n] : n \in named}
    <3> DEFINE a == e[2]
               b == e[3]
               files == Files[t]
    <3>1. a \in Nat /\ b \in Nat /\ Filed(files)
      BY <2>7, <2>8
    <3> HIDE DEF a, b, files
    <3>2. {n \in DOMAIN files : files[n].token = <<a, b>>} # {} =>
             SelectFile(files, <<a, b>>)
               \in {files[n] : n \in {m \in DOMAIN files : files[m].token = <<a, b>>}}
      BY <3>1, ExactFile
    <3> QED BY <3>2 DEF a, b, files
  <2>10. \E n \in TorrentsOf(e) : t = Guide[e[1]][n].torrent
    BY <2>5, <2>6
  <2>11. named # {} => play.stream.file \in {Files[t][n] : n \in named}
    BY <2>6, <2>9
  <2> HIDE DEF e, t, named
  <2> QED BY <2>10, <2>11
<1> QED BY <1>1, TorrentHeld, PTL
===============================================================================
