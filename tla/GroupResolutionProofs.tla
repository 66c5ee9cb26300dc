----------------------- MODULE GroupResolutionProofs -----------------------
(***************************************************************************)
(* What one walk per group rests on, for any number of requests and members *)
(* and any maps.  The inductive invariant says who is responsible for the   *)
(* in-flight entry, and that an answered request holds its walk's verdict.  *)
(***************************************************************************)
EXTENDS GroupResolution, SequenceTheorems, NaturalsInduction, WellFoundedInduction, TLAPS

WalkType == [phase: WalkPhases, attempts: Seq(Members), pos: Nat, try: 1..2,
             verdict: Verdicts]

ReqType == [Requests -> [phase: {"idle", "waiting", "answered"},
                         on: Requests, late: BOOLEAN, answer: Answers]]

\* A request that has not been made leads nothing.
IdleLeadsNothing ==
    \A r \in Requests : req[r].phase = "idle" =>
        walk[r].phase = "none" /\ r \notin inflight /\ req[r].on = r

\* Whoever waits, waits for a walk that runs under its entry or is over.
WaitsOnAWalk ==
    \A r \in Requests : req[r].phase = "waiting" =>
        walk[req[r].on].phase = "done" \/ req[r].on \in inflight

\* The entry is its leader's, and names a walk.
EntryNamesAWalk ==
    \A r \in inflight : /\ req[r].phase = "waiting" /\ req[r].on = r
                        /\ walk[r].phase # "none"
                        /\ inflight = {r}

\* A running walk is the one of the entry.
RunningIsListed ==
    \A r \in Requests : walk[r].phase \in Running => inflight = {r}

\* An answered request that was not cut off holds the verdict of its walk.
AnsweredByTheWalk ==
    \A r \in Requests :
        req[r].phase = "answered" /\ walk[req[r].on].phase # "none" =>
            /\ walk[req[r].on].phase = "done"
            /\ ~req[r].late => req[r].answer = AnswerOf(walk[req[r].on].verdict)

\* Only a request that was made leads or joins; one answered without a walk
\* points to itself.
NobodyJoinsIdle ==
    \A r \in Requests : req[r].on # r => walk[req[r].on].phase # "none"

GroupInv ==
    /\ TypeOK
    /\ IdleLeadsNothing
    /\ WaitsOnAWalk
    /\ EntryNamesAWalk
    /\ RunningIsListed
    /\ AnsweredByTheWalk
    /\ NobodyJoinsIdle

-----------------------------------------------------------------------------
\* member_attempts() answers with some of the group's members, in order.
LEMMA AttemptsType ==
    ASSUME TypeOK
    PROVE  Attempts \in Seq(Members)
<1>1. order \in Seq(Members)
  <2>1. CASE order \in Maps
    BY <2>1, GroupAssumption
  <2>2. CASE order = <<>>
    BY <2>2
  <2> QED BY <2>1, <2>2 DEF TypeOK
<1> DEFINE n == IF Len(order) < MaxAttempts THEN Len(order) ELSE MaxAttempts
<1>2. n \in Int /\ \A i \in 1..n : order[i] \in Members
  BY <1>1, GroupAssumption
<1> HIDE DEF n
<1>3. SubSeq(order, 1, n) \in Seq(Members)
  BY <1>2, SubSeqProperties
<1> QED BY <1>3 DEF Attempts, n

\* The cache-only read names members of the group.
LEMMA PeekType ==
    ASSUME TypeOK
    PROVE  Peek \subseteq Members
<1>1. Attempts \in Seq(Members)
  BY AttemptsType
<1>2. \A p \in First(KnownPositions) : p \in DOMAIN Attempts
  BY DEF First, KnownPositions
<1>3. \A p \in DOMAIN Attempts : Attempts[p] \in Members
  BY <1>1
<1> HIDE DEF Attempts
<1> QED BY <1>2, <1>3 DEF Peek, FirstKnown

\* A walk that is over, or being cancelled, or about to start is a walk.
LEMMA WalkShapes ==
    /\ \A v \in Verdicts : Ended(v) \in WalkType /\ Ended(v).phase = "done"
    /\ [NoWalk EXCEPT !.phase = "cancelling"] \in WalkType
    /\ \A a \in Seq(Members) : [NoWalk EXCEPT !.phase = "created", !.attempts = a] \in WalkType
<1>1. NoWalk \in WalkType
  <2>1. <<>> \in Seq(Members) /\ 1 \in 1..2
    OBVIOUS
  <2> QED BY <2>1 DEF NoWalk, WalkType, WalkPhases, Verdicts
<1>2. \A v \in Verdicts : Ended(v) \in WalkType /\ Ended(v).phase = "done"
  BY <1>1 DEF Ended, WalkType, WalkPhases, NoWalk
<1>3. [NoWalk EXCEPT !.phase = "cancelling"] \in WalkType
  BY <1>1 DEF WalkType, WalkPhases, NoWalk
<1>4. \A a \in Seq(Members) : [NoWalk EXCEPT !.phase = "created", !.attempts = a] \in WalkType
  BY <1>1 DEF WalkType, WalkPhases, NoWalk
<1> QED BY <1>2, <1>3, <1>4

\* A walk that goes on from position p is a walk: over, or asking.
LEMMA ProceedFacts ==
    ASSUME TypeOK, NEW r \in Requests, NEW p \in Nat, NEW w \in Proceed(r, p)
    PROVE  w \in WalkType /\ w.phase \in {"done", "asking"}
<1>1. walk[r] \in WalkType /\ walk[r].attempts \in Seq(Members)
  BY DEF TypeOK, WalkType
<1>3. \A v \in Verdicts : Ended(v) \in WalkType /\ Ended(v).phase = "done"
  BY WalkShapes
<1>4. CASE Stops(r, p) = {}
  BY <1>3, <1>4 DEF Proceed, Verdicts, Refusals
<1>5. CASE Stops(r, p) # {}
  <2>1. PICK q \in First(Stops(r, p)) : w = MeetsAt(r, q)
    BY <1>5 DEF Proceed
  <2>2. q \in DOMAIN walk[r].attempts
    BY <2>1 DEF First, Stops
  <2>3. q \in Nat /\ walk[r].attempts[q] \in Members
    BY <1>1, <2>2
  <2>4. [walk[r] EXCEPT !.phase = "asking", !.pos = q, !.try = 1] \in WalkType
    <3>1. 1 \in 1..2
      OBVIOUS
    <3> QED BY <1>1, <2>3, <3>1 DEF WalkType, WalkPhases
  <2>5. [walk[r] EXCEPT !.phase = "asking", !.pos = q, !.try = 1].phase = "asking"
    BY <1>1 DEF WalkType
  <2>6. Ended(walk[r].attempts[q]) \in WalkType /\ Ended(walk[r].attempts[q]).phase = "done"
    BY <1>3, <2>3 DEF Verdicts
  <2>7. Ended("deliberate") \in WalkType /\ Ended("deliberate").phase = "done"
    BY <1>3 DEF Verdicts, Refusals
  <2> QED BY <2>1, <2>4, <2>5, <2>6, <2>7 DEF MeetsAt
<1> QED BY <1>4, <1>5

-----------------------------------------------------------------------------
\* Before any request there is no walk to be responsible for.
THEOREM GroupInit == Init => GroupInv
<1> SUFFICES ASSUME Init PROVE GroupInv
  OBVIOUS
<1>1. TypeOK
  BY GroupAssumption DEF Init, TypeOK, NoWalk, WalkPhases, Verdicts, Answers
<1> QED BY <1>1 DEF Init, GroupInv, IdleLeadsNothing, WaitsOnAWalk, EntryNamesAWalk,
           RunningIsListed, AnsweredByTheWalk, NobodyJoinsIdle, NoWalk, Running

\* A step of one running walk that leaves the requests and the entry alone
\* keeps the invariant, whatever it becomes.
LEMMA WalkMoves ==
    ASSUME GroupInv, NEW r \in Requests, NEW w \in WalkType,
           walk[r].phase \in Running, w.phase # "none",
           walk' = [walk EXCEPT ![r] = w],
           UNCHANGED <<inflight, req>>, TypeOK'
    PROVE  GroupInv'
<1>1. \A s \in Requests : walk'[s] = IF s = r THEN w ELSE walk[s]
  BY DEF GroupInv, TypeOK
<1>2. inflight = {r}
  BY DEF GroupInv, RunningIsListed
<1>3. walk[r].phase \notin {"none", "done"}
  BY DEF Running
<1>a. \A s \in Requests : req[s].on \in Requests
  BY DEF GroupInv, TypeOK
<1>4. IdleLeadsNothing'
  BY <1>1, <1>2, <1>3 DEF GroupInv, IdleLeadsNothing, EntryNamesAWalk
<1>5. WaitsOnAWalk'
  <2> SUFFICES ASSUME NEW s \in Requests, req[s].phase = "waiting"
               PROVE  walk'[req[s].on].phase = "done" \/ req[s].on \in inflight
    BY DEF WaitsOnAWalk
  <2> QED BY <1>1, <1>2, <1>a DEF GroupInv, WaitsOnAWalk
<1>6. EntryNamesAWalk'
  BY <1>1, <1>2 DEF GroupInv, EntryNamesAWalk
<1>7. RunningIsListed'
  BY <1>1, <1>2 DEF GroupInv, RunningIsListed
<1>8. AnsweredByTheWalk'
  <2> SUFFICES ASSUME NEW s \in Requests, req[s].phase = "answered",
                      walk'[req[s].on].phase # "none"
               PROVE  /\ walk'[req[s].on].phase = "done"
                      /\ ~req[s].late => req[s].answer = AnswerOf(walk'[req[s].on].verdict)
    BY DEF AnsweredByTheWalk
  <2>1. req[s].on # r
    BY <1>3 DEF GroupInv, AnsweredByTheWalk
  <2> QED BY <1>1, <1>a, <2>1 DEF GroupInv, AnsweredByTheWalk
<1>9. NobodyJoinsIdle'
  BY <1>1, <1>a DEF GroupInv, NobodyJoinsIdle
<1> QED BY <1>4, <1>5, <1>6, <1>7, <1>8, <1>9 DEF GroupInv

\* Every step keeps every variable in its type.
LEMMA TypeStep == TypeOK /\ [Next]_vars => TypeOK'
<1> SUFFICES ASSUME TypeOK, [Next]_vars PROVE TypeOK'
  OBVIOUS
<1> USE DEF caches, others
<1>w. walk \in [Requests -> WalkType]
  BY DEF TypeOK, WalkType
<1>r. req \in ReqType
  BY DEF TypeOK, ReqType
<1>q. \A r \in Requests : req[r].on \in Requests
  BY DEF TypeOK
<1>e. \A v \in Verdicts : Ended(v) \in WalkType
  BY WalkShapes
<1>t. ASSUME walk' \in [Requests -> WalkType], UNCHANGED <<caches, others, inflight, req>>
      PROVE TypeOK'
  BY <1>t DEF TypeOK, WalkType
<1>1. ASSUME NEW r \in Requests, Call(r) PROVE TypeOK'
  <2>1. [NoWalk EXCEPT !.phase = "created", !.attempts = Attempts] \in WalkType
    BY AttemptsType, WalkShapes
  <2>2. walk' \in [Requests -> WalkType]
    BY <1>1, <1>w, <2>1 DEF Call
  <2>3. inflight' \in SUBSET Requests
    BY <1>1 DEF Call, TypeOK
  <2>4. req' \in ReqType
    <3>1. inflight \subseteq Requests /\ "none" \in Answers
      BY DEF TypeOK, Answers
    <3>2. \/ req' = [req EXCEPT ![r].phase = "answered", ![r].answer = "none"]
          \/ req' = [req EXCEPT ![r].phase = "waiting"]
          \/ \E leader \in inflight :
                req' = [req EXCEPT ![r].phase = "waiting", ![r].on = leader]
      BY <1>1 DEF Call
    <3> QED BY <1>r, <3>1, <3>2 DEF ReqType
  <2> QED BY <1>1, <2>2, <2>3, <2>4 DEF Call, TypeOK, WalkType, ReqType
<1>2. ASSUME NEW r \in Requests, WalkStarts(r) PROVE TypeOK'
  <2>1. PICK w \in IF Peek # {} THEN {Ended(m) : m \in Peek} ELSE Proceed(r, 1) :
           walk' = [walk EXCEPT ![r] = w]
    BY <1>2 DEF WalkStarts
  <2>2. w \in WalkType
    BY <2>1, <1>e, PeekType, ProceedFacts DEF Verdicts
  <2> QED BY <1>2, <1>t, <1>w, <2>1, <2>2 DEF WalkStarts
<1>3. ASSUME NEW r \in Requests, NEW m \in Members, FetchAnswers(r, m) PROVE TypeOK'
  <2>1. Ended(m) \in WalkType /\ Ended("deliberate") \in WalkType
    BY <1>e DEF Verdicts, Refusals
  <2>2. walk' \in [Requests -> WalkType]
    BY <1>3, <1>w, <2>1 DEF FetchAnswers
  <2> QED BY <1>3, <2>2 DEF FetchAnswers, TypeOK, WalkType, GatedNow
<1>4. ASSUME NEW r \in Requests, FetchRefused(r) PROVE TypeOK'
  <2>1. PICK w \in AfterRefusal(r) : walk' = [walk EXCEPT ![r] = w]
    BY <1>4 DEF FetchRefused
  <2>2. walk[r].pos + 1 \in Nat
    BY <1>w DEF WalkType
  <2>3. [walk[r] EXCEPT !.try = 2] \in WalkType
    BY <1>w DEF WalkType
  <2>4. w \in WalkType
    BY <2>1, <2>2, <2>3, ProceedFacts DEF AfterRefusal
  <2> QED BY <1>4, <1>t, <1>w, <2>1, <2>4 DEF FetchRefused
<1>5. ASSUME NEW r \in Requests, CancelLands(r) PROVE TypeOK'
  <2>1. Ended("cancelled") \in WalkType
    BY <1>e DEF Verdicts
  <2> QED BY <1>5, <1>t, <1>w, <2>1 DEF CancelLands
<1>6. ASSUME NEW r \in Requests, GivesUp(r) PROVE TypeOK'
  <2>1. [NoWalk EXCEPT !.phase = "cancelling"] \in WalkType
    BY WalkShapes
  <2>2. walk' \in [Requests -> WalkType]
    BY <1>6, <1>w, <1>q, <2>1 DEF GivesUp
  <2>3. req' \in ReqType
    BY <1>6, <1>r DEF GivesUp, ReqType
  <2> QED BY <1>6, <2>2, <2>3 DEF GivesUp, TypeOK, WalkType, ReqType
<1>7. ASSUME NEW r \in Requests, Wakes(r) PROVE TypeOK'
  <2>1. walk[req[r].on].verdict \in Verdicts
    BY <1>w, <1>q DEF WalkType
  <2>2. Outcome(r) \in Answers
    BY <2>1 DEF Outcome, AnswerOf, Answers, Verdicts, Refusals
  <2>3. req' \in ReqType
    BY <1>7, <1>r, <2>2 DEF Wakes, ReqType
  <2>4. inflight' \subseteq Requests
    BY <1>7 DEF Wakes, TypeOK, Popped
  <2> QED BY <1>7, <2>3, <2>4 DEF Wakes, TypeOK, ReqType
<1>8. ASSUME NEW m \in Members, OtherStep(m) PROVE TypeOK'
  <2>1. CASE NativeAsks(m) \/ NativeEnds(m)
    BY <2>1 DEF NativeAsks, NativeEnds, TypeOK
  <2>2. CASE SweepAsks(m) \/ SweepEnds(m)
    BY <2>2 DEF SweepAsks, SweepEnds, TypeOK
  <2>3. CASE Expires(m)
    BY <2>3 DEF Expires, TypeOK
  <2> QED BY <1>8, <2>1, <2>2, <2>3 DEF OtherStep
<1>9. CASE Regroup
  BY <1>9 DEF Regroup, TypeOK
<1>10. CASE UNCHANGED vars
  BY <1>10 DEF vars, TypeOK
<1> QED BY <1>1, <1>2, <1>3, <1>4, <1>5, <1>6, <1>7, <1>8, <1>9, <1>10 DEF Next, WalkStep

\* A step keeps the invariant: only the request that leads can end its entry,
\* and only after its walk is over.
THEOREM GroupStep == GroupInv /\ [Next]_vars => GroupInv'
<1> SUFFICES ASSUME GroupInv, [Next]_vars PROVE GroupInv'
  OBVIOUS
<1> USE DEF caches, others
<1>T. TypeOK /\ TypeOK'
  BY TypeStep DEF GroupInv
<1>w. walk \in [Requests -> WalkType] /\ req \in ReqType /\ inflight \subseteq Requests
  BY <1>T DEF TypeOK, WalkType, ReqType
<1>q. \A r \in Requests : req[r].on \in Requests
  BY <1>w DEF ReqType
<1>u. ASSUME UNCHANGED <<inflight, walk, req>> PROVE GroupInv'
  BY <1>u, <1>T DEF GroupInv, IdleLeadsNothing, WaitsOnAWalk, EntryNamesAWalk,
     RunningIsListed, AnsweredByTheWalk, NobodyJoinsIdle
<1> DEFINE created(r) == [NoWalk EXCEPT !.phase = "created", !.attempts = Attempts]
<1>c. \A r \in Requests : created(r).phase = "created"
  BY DEF NoWalk
<1> USE DEF ReqType
<1>1. ASSUME NEW r \in Requests, Call(r) PROVE GroupInv'
  <2>0. req[r].phase = "idle" /\ walk[r].phase = "none" /\ r \notin inflight /\ req[r].on = r
    BY <1>1 DEF Call, GroupInv, IdleLeadsNothing
  <2>1. CASE req' = [req EXCEPT ![r].phase = "answered", ![r].answer = "none"]
             /\ UNCHANGED <<inflight, walk>>
    <3>1. \A s \in Requests : req'[s].on = req[s].on /\ (s # r => req'[s] = req[s])
      BY <2>1, <1>w
    <3>2. req'[r].phase = "answered" /\ req'[r].on = r
      BY <2>0, <2>1, <1>w
    <3>3. IdleLeadsNothing'
      BY <3>1, <3>2, <2>1 DEF GroupInv, IdleLeadsNothing
    <3>4. WaitsOnAWalk'
      <4> SUFFICES ASSUME NEW s \in Requests, req'[s].phase = "waiting"
                   PROVE  walk[req'[s].on].phase = "done" \/ req'[s].on \in inflight
        BY <2>1 DEF WaitsOnAWalk
      <4>1. s # r
        BY <3>2
      <4> QED BY <4>1, <3>1 DEF GroupInv, WaitsOnAWalk
    <3>5. EntryNamesAWalk' /\ RunningIsListed'
      BY <3>1, <3>2, <2>0, <2>1, <1>w DEF GroupInv, EntryNamesAWalk, RunningIsListed
    <3>6. AnsweredByTheWalk'
      <4> SUFFICES ASSUME NEW s \in Requests, req'[s].phase = "answered",
                          walk'[req'[s].on].phase # "none"
                   PROVE  /\ walk'[req'[s].on].phase = "done"
                          /\ ~req'[s].late => req'[s].answer = AnswerOf(walk'[req'[s].on].verdict)
        BY DEF AnsweredByTheWalk
      <4>1. s # r
        BY <3>2, <2>0, <2>1
      <4>2. req'[s] = req[s] /\ walk' = walk
        BY <4>1, <3>1, <2>1
      <4> QED BY <4>2, <1>q DEF GroupInv, AnsweredByTheWalk
    <3>7. NobodyJoinsIdle'
      BY <3>1, <2>1, <1>q DEF GroupInv, NobodyJoinsIdle
    <3> QED BY <1>T, <3>3, <3>4, <3>5, <3>6, <3>7 DEF GroupInv
  <2>2. CASE inflight = {} /\ inflight' = {r} /\ walk' = [walk EXCEPT ![r] = created(r)]
             /\ req' = [req EXCEPT ![r].phase = "waiting"]
    <3> HIDE DEF created
    <3>1. \A s \in Requests : walk'[s] = IF s = r THEN created(r) ELSE walk[s]
      BY <2>2, <1>w
    <3>2. \A s \in Requests : req'[s].on = req[s].on /\ (s # r => req'[s] = req[s])
      BY <2>2, <1>w
    <3>3. req'[r].phase = "waiting" /\ req'[r].on = r
      BY <2>0, <2>2, <1>w
    <3>4. \A s \in Requests : s # r => req[s].on # r
      BY <2>0 DEF GroupInv, NobodyJoinsIdle
    <3>5. \A s \in Requests : walk[s].phase \notin Running
      BY <2>2 DEF GroupInv, RunningIsListed
    <3>6. IdleLeadsNothing'
      BY <2>0, <2>2, <3>1, <3>2, <3>3 DEF GroupInv, IdleLeadsNothing
    <3>7. WaitsOnAWalk'
      BY <2>2, <3>1, <3>2, <3>3, <3>4, <1>q DEF GroupInv, WaitsOnAWalk
    <3>8. EntryNamesAWalk' /\ RunningIsListed'
      BY <2>2, <3>1, <3>3, <3>5, <1>c DEF EntryNamesAWalk, RunningIsListed
    <3>9. AnsweredByTheWalk'
      <4> SUFFICES ASSUME NEW s \in Requests, req'[s].phase = "answered",
                          walk'[req'[s].on].phase # "none"
                   PROVE  /\ walk'[req'[s].on].phase = "done"
                          /\ ~req'[s].late => req'[s].answer = AnswerOf(walk'[req'[s].on].verdict)
        BY DEF AnsweredByTheWalk
      <4>1. s # r
        BY <3>3
      <4>2. req'[s] = req[s] /\ walk'[req'[s].on] = walk[req[s].on]
        BY <4>1, <3>1, <3>2, <3>4, <1>q
      <4> QED BY <4>2 DEF GroupInv, AnsweredByTheWalk
    <3>10. NobodyJoinsIdle'
      BY <3>1, <3>2, <1>q, <1>c DEF GroupInv, NobodyJoinsIdle
    <3> QED BY <1>T, <3>6, <3>7, <3>8, <3>9, <3>10 DEF GroupInv
  <2>3. ASSUME NEW leader \in inflight,
               req' = [req EXCEPT ![r].phase = "waiting", ![r].on = leader],
               UNCHANGED <<inflight, walk>>
        PROVE  GroupInv'
    <3>1. \A s \in Requests : s # r => req'[s] = req[s]
      BY <2>3, <1>w
    <3>2. req'[r].phase = "waiting" /\ req'[r].on = leader
      BY <2>3, <1>w
    <3>3. leader # r /\ walk[leader].phase # "none"
      BY <2>0, <2>3 DEF GroupInv, EntryNamesAWalk
    <3>4. IdleLeadsNothing'
      BY <3>1, <3>2, <2>3 DEF GroupInv, IdleLeadsNothing
    <3>5. WaitsOnAWalk'
      BY <3>1, <3>2, <2>3, <1>q DEF GroupInv, WaitsOnAWalk
    <3>6. EntryNamesAWalk' /\ RunningIsListed'
      BY <3>1, <3>2, <2>0, <2>3, <1>w DEF GroupInv, EntryNamesAWalk, RunningIsListed
    <3>7. AnsweredByTheWalk'
      BY <3>1, <3>2, <2>0, <2>3, <1>q DEF GroupInv, AnsweredByTheWalk
    <3>8. NobodyJoinsIdle'
      BY <3>1, <3>2, <3>3, <2>3, <1>q DEF GroupInv, NobodyJoinsIdle
    <3> QED BY <1>T, <3>4, <3>5, <3>6, <3>7, <3>8 DEF GroupInv
  <2> HIDE DEF created
  <2> QED BY <1>1, <2>1, <2>2, <2>3 DEF Call, MayLead, created
<1>2. ASSUME NEW r \in Requests, WalkStarts(r) PROVE GroupInv'
  <2>1. PICK w \in IF Peek # {} THEN {Ended(m) : m \in Peek} ELSE Proceed(r, 1) :
           walk' = [walk EXCEPT ![r] = w]
    BY <1>2 DEF WalkStarts
  <2>2. w \in WalkType /\ w.phase # "none"
    BY <2>1, <1>T, PeekType, ProceedFacts, WalkShapes DEF Verdicts
  <2>3. walk[r].phase \in Running
    BY <1>2 DEF WalkStarts, Running
  <2> QED BY <1>2, <1>T, <2>1, <2>2, <2>3, WalkMoves DEF WalkStarts
<1>3. ASSUME NEW r \in Requests, NEW m \in Members, FetchAnswers(r, m) PROVE GroupInv'
  <2>1. Ended(m) \in WalkType /\ Ended(m).phase = "done"
    BY WalkShapes DEF Verdicts
  <2>2. Ended("deliberate") \in WalkType /\ Ended("deliberate").phase = "done"
    BY WalkShapes DEF Verdicts, Refusals
  <2>3. PICK w \in {Ended(m), Ended("deliberate")} : walk' = [walk EXCEPT ![r] = w]
    BY <1>3 DEF FetchAnswers
  <2>4. walk[r].phase \in Running
    BY <1>3 DEF FetchAnswers, Running
  <2> QED BY <1>3, <1>T, <2>1, <2>2, <2>3, <2>4, WalkMoves DEF FetchAnswers
<1>4. ASSUME NEW r \in Requests, FetchRefused(r) PROVE GroupInv'
  <2>1. PICK w \in AfterRefusal(r) : walk' = [walk EXCEPT ![r] = w]
    BY <1>4 DEF FetchRefused
  <2>2. walk[r].pos + 1 \in Nat
    BY <1>w DEF WalkType
  <2>3. [walk[r] EXCEPT !.try = 2] \in WalkType /\ [walk[r] EXCEPT !.try = 2].phase = "asking"
    <3>1. walk[r] \in WalkType /\ walk[r].phase = "asking" /\ 2 \in 1..2
      BY <1>4, <1>w DEF FetchRefused
    <3>2. [walk[r] EXCEPT !.try = 2] \in WalkType
      BY <3>1 DEF WalkType
    <3>3. [walk[r] EXCEPT !.try = 2].phase = "asking"
      BY <3>1 DEF WalkType
    <3> QED BY <3>2, <3>3
  <2>4. w \in WalkType /\ w.phase # "none"
    BY <1>T, <2>1, <2>2, <2>3, ProceedFacts DEF AfterRefusal
  <2>5. walk[r].phase \in Running
    BY <1>4 DEF FetchRefused, Running
  <2> QED BY <1>4, <1>T, <2>1, <2>4, <2>5, WalkMoves DEF FetchRefused
<1>5. ASSUME NEW r \in Requests, CancelLands(r) PROVE GroupInv'
  <2>1. Ended("cancelled") \in WalkType /\ Ended("cancelled").phase = "done"
    BY WalkShapes DEF Verdicts
  <2>2. walk[r].phase \in Running
    BY <1>5 DEF CancelLands, Running
  <2> QED BY <1>5, <1>T, <2>1, <2>2, WalkMoves DEF CancelLands
<1>6. ASSUME NEW r \in Requests, GivesUp(r) PROVE GroupInv'
  <2> DEFINE q == req[r].on
             c == [NoWalk EXCEPT !.phase = "cancelling"]
  <2>0. req[r].phase = "waiting" /\ q \in Requests
    BY <1>6, <1>q DEF GivesUp
  <2>1. \A s \in Requests : /\ req'[s].on = req[s].on
                            /\ req'[s].phase = req[s].phase
                            /\ req'[s].answer = req[s].answer
                            /\ s # r => req'[s].late = req[s].late
    BY <1>6, <1>w DEF GivesUp
  <2>2. c.phase = "cancelling"
    BY DEF NoWalk
  <2>3. \A s \in Requests : walk'[s] = IF s = q /\ walk[q].phase \in Running
                                        THEN c ELSE walk[s]
    BY <1>6, <1>w, <2>0 DEF GivesUp
  <2>4. inflight' = inflight
    BY <1>6 DEF GivesUp
  <2> HIDE DEF q, c
  <2>5. \A s \in Requests : walk'[s] = walk[s] \/
             (walk[s].phase \in Running /\ walk'[s].phase = "cancelling")
    BY <2>2, <2>3
  <2>6. IdleLeadsNothing'
    BY <2>1, <2>4, <2>5 DEF GroupInv, IdleLeadsNothing, Running
  <2>7. WaitsOnAWalk'
    BY <2>1, <2>4, <2>5, <1>q DEF GroupInv, WaitsOnAWalk, Running
  <2>8. EntryNamesAWalk' /\ RunningIsListed'
    BY <2>1, <2>4, <2>5, <1>w DEF GroupInv, EntryNamesAWalk, RunningIsListed, Running
  <2>9. AnsweredByTheWalk'
    <3> SUFFICES ASSUME NEW s \in Requests, req'[s].phase = "answered",
                        walk'[req'[s].on].phase # "none"
                 PROVE  /\ walk'[req'[s].on].phase = "done"
                        /\ ~req'[s].late => req'[s].answer = AnswerOf(walk'[req'[s].on].verdict)
      BY DEF AnsweredByTheWalk
    <3>1. s # r /\ req[s].phase = "answered" /\ req[s].on \in Requests
      BY <2>0, <2>1, <1>q
    <3>2. walk[req[s].on].phase # "none" => walk[req[s].on].phase = "done"
      BY <3>1 DEF GroupInv, AnsweredByTheWalk
    <3>3. walk'[req[s].on] = walk[req[s].on]
      BY <3>1, <3>2, <2>5 DEF Running
    <3> QED BY <3>1, <3>3, <2>1 DEF GroupInv, AnsweredByTheWalk
  <2>10. NobodyJoinsIdle'
    BY <2>1, <2>5, <1>q DEF GroupInv, NobodyJoinsIdle
  <2> QED BY <1>T, <2>6, <2>7, <2>8, <2>9, <2>10 DEF GroupInv
<1>7. ASSUME NEW r \in Requests, Wakes(r) PROVE GroupInv'
  <2>0. req[r].phase = "waiting" /\ walk[req[r].on].phase = "done" /\ walk' = walk
    BY <1>7 DEF Wakes
  <2>1. \A s \in Requests : req'[s].on = req[s].on /\ (s # r => req'[s] = req[s])
    BY <1>7, <1>w DEF Wakes
  <2>2. req'[r].phase = "answered" /\ req'[r].answer = Outcome(r) /\ req'[r].late = req[r].late
    BY <1>7, <1>w DEF Wakes
  <2>3. inflight' = IF r \in inflight THEN {} ELSE inflight
    BY <1>7 DEF Wakes, Popped
  <2>4. r \in inflight => inflight = {r} /\ walk[r].phase = "done"
    BY <2>0 DEF GroupInv, EntryNamesAWalk
  <2>5. IdleLeadsNothing'
    BY <2>0, <2>1, <2>2, <2>3 DEF GroupInv, IdleLeadsNothing
  <2>6. WaitsOnAWalk'
    BY <2>0, <2>1, <2>2, <2>3, <2>4, <1>q DEF GroupInv, WaitsOnAWalk
  <2>7. EntryNamesAWalk' /\ RunningIsListed'
    BY <2>0, <2>1, <2>2, <2>3, <2>4, <1>w DEF GroupInv, EntryNamesAWalk, RunningIsListed, Running
  <2>8. AnsweredByTheWalk'
    <3>1. ~req[r].late => Outcome(r) = AnswerOf(walk[req[r].on].verdict)
      BY DEF Outcome
    <3> QED BY <2>0, <2>1, <2>2, <3>1 DEF GroupInv, AnsweredByTheWalk
  <2>9. NobodyJoinsIdle'
    BY <2>0, <2>1 DEF GroupInv, NobodyJoinsIdle
  <2> QED BY <1>T, <2>5, <2>6, <2>7, <2>8, <2>9 DEF GroupInv
<1>8. ASSUME NEW m \in Members, OtherStep(m) PROVE GroupInv'
  BY <1>8, <1>u DEF OtherStep, NativeAsks, NativeEnds, SweepAsks, SweepEnds, Expires
<1>9. CASE Regroup
  BY <1>9, <1>u DEF Regroup
<1>10. CASE UNCHANGED vars
  BY <1>10, <1>u DEF vars
<1> QED BY <1>1, <1>2, <1>3, <1>4, <1>5, <1>6, <1>7, <1>8, <1>9, <1>10 DEF Next, WalkStep

-----------------------------------------------------------------------------
\* The types, for any instance.
THEOREM GroupTypeCorrect == Spec => []TypeOK
<1>1. Init => TypeOK
  BY GroupInit DEF GroupInv
<1> QED BY <1>1, TypeStep, PTL DEF Spec

OneWalk ==
    \A r, s \in Requests :
        walk[r].phase \in Running /\ walk[s].phase \in Running => r = s

\* Ticket #224: one walk of the group at a time, and an in-flight entry that is
\* always somebody's to remove, through cancellations and regroupings.
THEOREM SingleFlight == Spec => [](OneWalk /\ EntryIsLed)
<1>1. GroupInv => OneWalk /\ EntryIsLed
  <2> SUFFICES ASSUME GroupInv PROVE OneWalk /\ EntryIsLed
    OBVIOUS
  <2>1. OneWalk
    BY DEF GroupInv, RunningIsListed, OneWalk
  <2>2. EntryIsLed
    BY DEF GroupInv, RunningIsListed, EntryNamesAWalk, EntryIsLed
  <2> QED BY <2>1, <2>2
<1> QED BY <1>1, GroupInit, GroupStep, PTL DEF Spec

\* Requests that shared a walk got one answer, unless they gave up themselves.
THEOREM OneAnswer == Spec => []AnswersAgree
<1>1. GroupInv => AnswersAgree
  BY DEF GroupInv, AnsweredByTheWalk, AnswersAgree
<1> QED BY <1>1, GroupInit, GroupStep, PTL DEF Spec

\* Concurrent requests of a group share one walk and its answer.
THEOREM SharedWalk == Spec => []OneWalkOneAnswer
<1>1. OneWalk /\ EntryIsLed /\ AnswersAgree => OneWalkOneAnswer
  BY DEF OneWalkOneAnswer
<1> QED BY <1>1, SingleFlight, OneAnswer, PTL

-----------------------------------------------------------------------------
\* A walk that asks is at one of its attempts.
AskingInRange ==
    \A r \in Requests : walk[r].phase = "asking" => walk[r].pos \in DOMAIN walk[r].attempts

\* Among some positions of a sequence there is a first.
LEMMA FirstExists ==
    ASSUME NEW positions \in SUBSET Nat, positions # {}
    PROVE  First(positions) # {}
<1>1. PICK p \in positions : \A q \in positions : ~(<<q, p>> \in OpToRel(<, Nat))
  BY NatLessThanWellFounded, WFMin, Zenon
<1>2. \A q \in positions : ~(q < p)
  BY <1>1 DEF OpToRel
<1>3. \A q \in positions : p <= q
  BY <1>2
<1> QED BY <1>3 DEF First

\* Where a known member is among the attempts, the group has an answer on
\* record: a page, or a deliberate verdict.
KnownIsAnswered ==
    \A q \in DOMAIN Attempts :
        ~Miss(Attempts[q]) /\ DOMAIN Attempts \subseteq Nat => HardUnavailable \/ Peek # {}

LEMMA KnownAnswered == KnownIsAnswered
<1> SUFFICES ASSUME NEW q \in DOMAIN Attempts, ~Miss(Attempts[q]), DOMAIN Attempts \subseteq Nat
             PROVE  HardUnavailable \/ Peek # {}
  BY DEF KnownIsAnswered
<1>1. KnownPositions \in SUBSET Nat /\ q \in KnownPositions
  BY DEF KnownPositions
<1>2. PICK p \in First(KnownPositions) : TRUE
  BY <1>1, FirstExists
<1>3. Attempts[p] \in FirstKnown /\ ~Miss(Attempts[p])
  BY <1>2 DEF FirstKnown, First, KnownPositions
<1>4. Hit(Attempts[p]) \/ Deliberate(Attempts[p])
  BY <1>3 DEF Miss, Hit
<1> QED BY <1>3, <1>4 DEF HardUnavailable, Peek

\* The same of the next state.
LEMMA KnownAnsweredNext == KnownIsAnswered'
BY KnownAnswered, PTL

\* Wherever a walk goes on to, it asks at one of its attempts; and where it ends
\* on a deliberate verdict, that verdict is one of its attempts'.
LEMMA ProceedAsks ==
    ASSUME TypeOK, NEW r \in Requests, NEW p \in Nat, NEW w \in Proceed(r, p)
    PROVE  /\ w.phase = "asking" => w.pos \in DOMAIN w.attempts
           /\ w.verdict = "deliberate" /\ w.phase = "done" =>
                \E q \in DOMAIN walk[r].attempts : Deliberate(walk[r].attempts[q])
<1>1. walk[r] \in WalkType /\ walk[r].attempts \in Seq(Members)
  BY DEF TypeOK, WalkType
<1>2. CASE Stops(r, p) = {}
  BY <1>2 DEF Proceed, Ended, NoWalk
<1>3. CASE Stops(r, p) # {}
  <2>1. PICK q \in First(Stops(r, p)) : w = MeetsAt(r, q)
    BY <1>3 DEF Proceed
  <2>2. q \in DOMAIN walk[r].attempts /\ walk[r].attempts[q] \in Members
    BY <1>1, <2>1 DEF First, Stops
  <2>3. CASE Hit(walk[r].attempts[q])
    BY <2>1, <2>2, <2>3, GroupAssumption DEF MeetsAt, Ended, NoWalk
  <2>4. CASE ~Hit(walk[r].attempts[q]) /\ Deliberate(walk[r].attempts[q])
    BY <2>1, <2>2, <2>4 DEF MeetsAt, Ended, NoWalk
  <2>5. CASE ~Hit(walk[r].attempts[q]) /\ ~Deliberate(walk[r].attempts[q])
    <3>1. w = [walk[r] EXCEPT !.phase = "asking", !.pos = q, !.try = 1]
      BY <2>1, <2>5 DEF MeetsAt
    <3>2. w.phase = "asking" /\ w.pos = q /\ w.attempts = walk[r].attempts
      BY <1>1, <3>1 DEF WalkType
    <3> QED BY <2>2, <3>2
  <2> QED BY <2>3, <2>4, <2>5
<1> QED BY <1>2, <1>3

\* What a step does to a walk: it ends or begins to be cancelled, it is made, or
\* it asks at an attempt of its own.
LEMMA AskingStep == GroupInv /\ AskingInRange /\ [Next]_vars => AskingInRange'
<1> SUFFICES ASSUME GroupInv, AskingInRange, [Next]_vars,
                    NEW r \in Requests, walk'[r].phase = "asking", walk'[r] # walk[r]
             PROVE  walk'[r].pos \in DOMAIN walk'[r].attempts
  BY DEF AskingInRange
<1> USE DEF caches, others
<1>T. TypeOK /\ walk \in [Requests -> WalkType] /\ \A s \in Requests : req[s].on \in Requests
  BY DEF GroupInv, TypeOK, WalkType
<1>1. \A v : Ended(v).phase = "done"
  BY DEF Ended, NoWalk
<1>2. ASSUME NEW s \in Requests, Call(s) \/ GivesUp(s) \/ Wakes(s) PROVE FALSE
  BY <1>2, <1>T DEF Call, GivesUp, Wakes, NoWalk
<1>3. ASSUME NEW s \in Requests, WalkStarts(s)
      PROVE  walk'[r].pos \in DOMAIN walk'[r].attempts
  <2>1. PICK w \in IF Peek # {} THEN {Ended(m) : m \in Peek} ELSE Proceed(s, 1) :
           walk' = [walk EXCEPT ![s] = w]
    BY <1>3 DEF WalkStarts
  <2>2. s = r /\ walk'[r] = w
    BY <1>T, <2>1
  <2>3. w \in Proceed(r, 1)
    BY <1>1, <2>1, <2>2
  <2> QED BY <1>T, <2>2, <2>3, ProceedAsks
<1>4. ASSUME NEW s \in Requests, NEW m \in Members, FetchAnswers(s, m) PROVE FALSE
  BY <1>1, <1>4, <1>T DEF FetchAnswers
<1>5. ASSUME NEW s \in Requests, FetchRefused(s)
      PROVE  walk'[r].pos \in DOMAIN walk'[r].attempts
  <2>1. PICK w \in AfterRefusal(s) : walk' = [walk EXCEPT ![s] = w]
    BY <1>5 DEF FetchRefused
  <2>2. s = r /\ walk'[r] = w
    BY <1>T, <2>1
  <2>3. CASE w = [walk[r] EXCEPT !.try = 2]
    BY <1>5, <1>T, <2>2, <2>3 DEF FetchRefused, AskingInRange, WalkType
  <2>4. CASE w \in Proceed(r, walk[r].pos + 1)
    <3>1. walk[r].pos + 1 \in Nat
      BY <1>T DEF WalkType
    <3> QED BY <1>T, <2>2, <2>4, <3>1, ProceedAsks
  <2> QED BY <2>1, <2>2, <2>3, <2>4 DEF AfterRefusal
<1>6. ASSUME NEW s \in Requests, CancelLands(s) PROVE FALSE
  BY <1>1, <1>6, <1>T DEF CancelLands
<1>7. ASSUME NEW m \in Members, OtherStep(m) PROVE FALSE
  BY <1>7 DEF OtherStep, NativeAsks, NativeEnds, SweepAsks, SweepEnds, Expires
<1>8. CASE Regroup \/ UNCHANGED vars
  BY <1>8 DEF Regroup, vars
<1> QED BY <1>2, <1>3, <1>4, <1>5, <1>6, <1>7, <1>8 DEF Next, WalkStep

\* A walk ends on a deliberate verdict on being given one, which is recorded, or
\* on meeting one on record; either is at one of its attempts.
LEMMA RecordedStep ==
    GroupInv /\ AskingInRange /\ [Next]_vars => [\A r \in Requests : Recorded(r)]_vars
<1> SUFFICES ASSUME GroupInv, AskingInRange, Next, NEW r \in Requests,
                    walk[r].phase = "asking", walk'[r].phase = "done",
                    walk'[r].verdict = "deliberate", Attempts' = walk[r].attempts
             PROVE  HardUnavailable' \/ Peek' # {}
  BY DEF Recorded
<1> USE DEF caches, others
<1>T. TypeOK /\ TypeOK' /\ walk \in [Requests -> WalkType] /\ \A s \in Requests : req[s].on \in Requests
  BY TypeStep DEF GroupInv, TypeOK, WalkType
<1>n. walk[r].attempts \in Seq(Members)
  BY <1>T DEF WalkType
<1>d. \A q \in DOMAIN walk[r].attempts : walk[r].attempts[q] \in Members /\ q \in Nat
  BY <1>n
<1>k. ASSUME NEW q \in DOMAIN walk[r].attempts, NEW m, m = walk[r].attempts[q], ~Miss(m)'
      PROVE  HardUnavailable' \/ Peek' # {}
  <2>1. q \in DOMAIN Attempts' /\ m = Attempts'[q] /\ DOMAIN Attempts' \subseteq Nat
    BY <1>d, <1>k
  <2> QED BY <1>k, <2>1, KnownAnsweredNext DEF KnownIsAnswered, Miss, Deliberate
<1>1. ASSUME NEW s \in Requests, Call(s) \/ GivesUp(s) \/ Wakes(s) \/ WalkStarts(s) \/ CancelLands(s)
      PROVE  FALSE
  BY <1>1, <1>T DEF Call, GivesUp, Wakes, WalkStarts, CancelLands, NoWalk, Ended
<1>2. ASSUME NEW s \in Requests, NEW m \in Members, FetchAnswers(s, m)
      PROVE  HardUnavailable' \/ Peek' # {}
  <2>1. s = r /\ m = walk[r].attempts[walk[r].pos] /\ walk[r].pos \in DOMAIN walk[r].attempts
    BY <1>2, <1>T DEF FetchAnswers, AskingInRange
  <2>2. walk'[r] # Ended(m)
    BY GroupAssumption DEF Ended, NoWalk
  <2>3. blocked' = blocked \cup {m} \/ gated' = [gated EXCEPT ![m] = "gated"]
    BY <1>2, <1>T, <2>1, <2>2 DEF FetchAnswers, GatedNow
  <2>4. Deliberate(m)'
    BY <1>T, <2>3 DEF Deliberate, TypeOK
  <2>5. ~Miss(m)'
    BY <2>4 DEF Miss
  <2> QED BY <1>k, <2>1, <2>5
<1>3. ASSUME NEW s \in Requests, FetchRefused(s)
      PROVE  HardUnavailable' \/ Peek' # {}
  <2>1. PICK w \in AfterRefusal(s) : walk' = [walk EXCEPT ![s] = w]
    BY <1>3 DEF FetchRefused
  <2>2. s = r /\ walk'[r] = w
    BY <1>T, <2>1
  <2>3. w # [walk[r] EXCEPT !.try = 2]
    BY <1>T, <2>2 DEF WalkType
  <2>4. w \in Proceed(r, walk[r].pos + 1) /\ walk[r].pos + 1 \in Nat
    BY <1>T, <2>1, <2>2, <2>3 DEF AfterRefusal, WalkType
  <2>5. PICK q \in DOMAIN walk[r].attempts : Deliberate(walk[r].attempts[q])
    BY <1>T, <2>2, <2>4, ProceedAsks
  <2>6. PICK m : m = walk[r].attempts[q]
    OBVIOUS
  <2>7. UNCHANGED <<gated, blocked>>
    BY <1>3 DEF FetchRefused
  <2>8. ~Miss(m)'
    BY <2>5, <2>6, <2>7 DEF Miss, Deliberate
  <2> QED BY <1>k, <2>6, <2>8
<1>4. ASSUME UNCHANGED walk PROVE FALSE
  BY <1>4
<1> QED BY <1>1, <1>2, <1>3, <1>4 DEF Next, WalkStep, OtherStep, NativeAsks, NativeEnds,
       SweepAsks, SweepEnds, Expires, Regroup

\* Ticket #139: a walk that ends on a deliberate verdict leaves it on record.
THEOREM DeliberateRecorded == Spec => DeliberateOnRecord
<1>1. Init => AskingInRange
  BY DEF Init, AskingInRange, NoWalk
<1> QED BY <1>1, GroupInit, GroupStep, AskingStep, RecordedStep, PTL DEF Spec, DeliberateOnRecord
=============================================================================
