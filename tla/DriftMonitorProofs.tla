------------------------ MODULE DriftMonitorProofs -------------------------
(***************************************************************************)
(* The drift monitor's promises, for every registry, rotation, set of      *)
(* listings and bound.  The invariant ties the counters the monitor keeps  *)
(* to the verdicts that went on record, on file and in memory, and the     *)
(* last reading on file to what the API has served since.                  *)
(***************************************************************************)
EXTENDS DriftMonitor, TLAPS

(* A counter says no more than the verdicts on record. *)
SweepMatches(state, pair) ==
  /\ state.consecutive_failures > 0 => pair[2] \in {"shape", "broken"}
  /\ state.shape_streak > 0 => pair[2] = "shape"
  /\ state.shape_streak > 1 => pair[1] = "shape"
PlayMatches(state, pair) == state.play_failures > 0 => pair[2] = "no-progress"

(* No stream was served between the two readings. *)
Quiet(last, current) ==
  last = Nothing \/ current = Nothing \/ current.served <= last.served

Rest ==
  step = 0 => /\ store = file /\ unjudged = {}
              /\ \A k \in Keys : tonight[k] = None
              /\ \A l \in Reported : ~after[l] /\ reading[l] = Nothing

Pending ==
  /\ \A l \in unjudged : reading[l] # Nothing
  /\ step > 0 => \A i \in 1..Len(Registry) :
                   i >= step => tonight[<<Registry[i], "sweep">>] = None
  /\ \A l \in Lanes :
       (step <= Len(Registry) \/ l \in unjudged \/ l \notin Reported)
         => tonight[<<l, "playback">>] = None
  /\ \A l \in Reported : reading[l] = Nothing => tonight[<<l, "playback">>] = None
  /\ step \in 1..Len(Registry) => unjudged = {l \in Reported : reading[l] # Nothing}

OnRecord ==
  \A l \in Lanes : /\ SweepMatches(file[l], seen[<<l, "sweep">>])
                   /\ PlayMatches(file[l], seen[<<l, "playback">>])

SoFar ==
  \A l \in Lanes :
    /\ SweepMatches(store[l], Later(seen[<<l, "sweep">>], tonight[<<l, "sweep">>]))
    /\ PlayMatches(store[l], Later(seen[<<l, "playback">>], tonight[<<l, "playback">>]))

Silence ==
  \A l \in Reported :
    /\ ~before[l] /\ ~after[l] => Quiet(file[l].last_play, health[l])
    /\ ~before[l] => Quiet(file[l].last_play, reading[l])
    /\ ~after[l] /\ reading[l] # Nothing => Quiet(reading[l], health[l])
    /\ store[l].last_play = IF reading[l] = Nothing \/ l \in unjudged
                              THEN file[l].last_play ELSE reading[l]
    /\ ~before[l] => store[l].play_failures = file[l].play_failures

DriftInv == TypeOK /\ OneIssue /\ Rest /\ Pending /\ OnRecord /\ SoFar /\ Silence

(***************************************************************************)
(* The pure parts.                                                         *)
(***************************************************************************)

(* A fault moves a counter up, within its bound, and a second strike needs a
   first one. *)
LEMMA StrikesCount ==
  ASSUME NEW n \in 0..StrikeCap, NEW settled \in BOOLEAN
  PROVE  /\ Strikes(n, settled) \in 0..StrikeCap
         /\ settled => Strikes(n, settled) = 0
         /\ Strikes(n, settled) >= 2 => n > 0
  BY BoundAssumption DEF Strikes, Bump

(* The tracker opens at most the first issue, only when asked to, and is left
   alone when nothing is wanted. *)
LEMMA TrackedOnce ==
  ASSUME NEW open \in Nat, open <= 1, NEW wanted, NEW reply
  PROVE  /\ Tracked(open, wanted, reply) \in Nat
         /\ Tracked(open, wanted, reply) <= 1
         /\ Tracked(open, wanted, reply) > open => wanted = "file"
         /\ wanted = None => Tracked(open, wanted, reply) = open
  BY DEF Tracked, None

(* A judgement keeps the state's type and its match with the record, leaves
   the playback axis alone, files only after an earlier strike, and moves the
   band only on a third shape verdict. *)
LEMMA JudgeIsSound ==
  ASSUME NEW state \in ProviderState, NEW listing \in Listings,
         NEW deepOk \in BOOLEAN, NEW pair, SweepMatches(state, pair),
         NEW judged, judged = Judge(state, listing, deepOk)
  PROVE  /\ judged.state \in ProviderState
         /\ judged.verdict \in {"healthy", "adopted", "shape", "broken"}
         /\ SweepMatches(judged.state, <<pair[2], judged.verdict>>)
         /\ judged.wanted = "file" => state.consecutive_failures > 0
         /\ BandMoved(state.signature, judged.state.signature) => state.shape_streak = 2
         /\ judged.state.play_failures = state.play_failures
         /\ judged.state.last_play = state.last_play
PROOF
  <1> DEFINE kind == VerdictFor(listing, state.signature)
             healthy == kind = "ok" /\ deepOk
             streak == IF healthy THEN 0 ELSE ShapeStreak(state, kind, deepOk)
             settled == healthy \/ Adopts(streak)
             failures == Strikes(state.consecutive_failures, settled)
             signature == IF settled THEN UpdateSignature(state.signature, listing)
                                     ELSE state.signature
             verdict == IF healthy THEN "healthy"
                        ELSE IF Adopts(streak) THEN "adopted"
                        ELSE IF kind = "shape" /\ deepOk THEN "shape" ELSE "broken"
  <1>1. /\ judged.state = [state EXCEPT !.consecutive_failures = failures,
                                        !.shape_streak = IF settled THEN 0 ELSE streak,
                                        !.signature = signature]
        /\ judged.verdict = verdict
        /\ judged.wanted = Wanted(settled, failures)
    BY DEF Judge
  <1>2. /\ state.consecutive_failures \in 0..StrikeCap /\ state.shape_streak \in 0..2
        /\ state.signature \in Signature \union {Nothing}
    BY DEF ProviderState
  <1>3. listing \in ListingType
    BY ListingAssumption
  <1>4. UpdateSignature(state.signature, listing) \in Signature
    BY <1>2, <1>3 DEF UpdateSignature, Signature, ListingType
  <1>5. /\ streak \in 0..3
        /\ streak > 0 => kind = "shape" /\ deepOk /\ streak = state.shape_streak + 1
        /\ ~settled => streak \in 0..2
        /\ kind = "shape" /\ deepOk => streak > 0
    BY <1>2 DEF ShapeStreak, Adopts, SHAPE_RECALIBRATE_AFTER
  <1>6. /\ failures \in 0..StrikeCap
        /\ settled => failures = 0
        /\ failures >= 2 => state.consecutive_failures > 0
    BY <1>2, StrikesCount
  <1> HIDE DEF kind, streak, failures
  <1>7. judged.state \in ProviderState
    <2>1. signature \in Signature \union {Nothing}
      BY <1>2, <1>4
    <2>2. (IF settled THEN 0 ELSE streak) \in 0..2
      BY <1>5
    <2> HIDE DEF signature, settled
    <2> QED BY <1>1, <1>6, <2>1, <2>2 DEF ProviderState
  <1>8. /\ judged.state.consecutive_failures = failures
        /\ judged.state.shape_streak = (IF settled THEN 0 ELSE streak)
        /\ judged.state.signature = signature
        /\ judged.state.play_failures = state.play_failures
        /\ judged.state.last_play = state.last_play
    BY <1>1 DEF ProviderState
  <1>9. SweepMatches(judged.state, <<pair[2], judged.verdict>>)
    <2>1. CASE settled
      BY <2>1, <1>6, <1>8 DEF SweepMatches
    <2>2. CASE ~settled
      <3>1. judged.verdict = IF kind = "shape" /\ deepOk THEN "shape" ELSE "broken"
        BY <2>2, <1>1
      <3>2. judged.state.shape_streak = streak
        BY <2>2, <1>8
      <3> QED BY <3>1, <3>2, <1>2, <1>5 DEF SweepMatches
    <2> QED BY <2>1, <2>2
  <1>10. judged.wanted = "file" => state.consecutive_failures > 0
    BY <1>1, <1>6 DEF Wanted, None
  <1>11. BandMoved(state.signature, judged.state.signature) => state.shape_streak = 2
    <2>1. SUFFICES ASSUME BandMoved(state.signature, signature), state.shape_streak # 2
                   PROVE  FALSE
      BY <1>8
    <2>2. state.signature # Nothing /\ state.signature \in Signature
      BY <2>1, <1>2 DEF BandMoved
    <2>3. ~Adopts(streak)
      BY <2>1, <1>2, <1>5 DEF Adopts, SHAPE_RECALIBRATE_AFTER
    <2>4. healthy
      <3>1. CASE ~healthy
        <4>1. signature = state.signature
          BY <3>1, <2>3
        <4> QED BY <4>1, <2>1, <2>2 DEF BandMoved, Signature, Shares
      <3> QED BY <3>1
    <2>5. ~LeftBand(listing, state.signature)
      BY <2>2, <2>4 DEF kind, VerdictFor
    <2>6. signature = UpdateSignature(state.signature, listing)
      BY <2>4
    <2> QED BY <2>1, <2>2, <2>5, <2>6, <1>3
            DEF BandMoved, LeftBand, UpdateSignature, Signature, ListingType, Shares
  <1> QED BY <1>1, <1>7, <1>8, <1>9, <1>10, <1>11

(* The same on the playback axis; and a reading in which nothing was served
   since the last one decides nothing. *)
LEMMA JudgePlayIsSound ==
  ASSUME NEW state \in ProviderState, NEW current \in PlayCounters,
         NEW pair, PlayMatches(state, pair),
         NEW judged, judged = JudgePlay(state, current)
  PROVE  /\ judged.state \in ProviderState
         /\ judged.verdict \in {None, "clean", "no-progress"}
         /\ PlayMatches(judged.state, Later(pair, judged.verdict))
         /\ judged.wanted = "file" => state.play_failures > 0
         /\ judged.state.consecutive_failures = state.consecutive_failures
         /\ judged.state.shape_streak = state.shape_streak
         /\ judged.state.signature = state.signature
         /\ judged.state.last_play = current
         /\ Quiet(state.last_play, current) =>
              /\ judged.wanted = None
              /\ judged.state.play_failures = state.play_failures
PROOF
  <1> DEFINE kind == PlayVerdict(state.last_play, current)
             evident == kind # "no-evidence"
             failures == IF evident THEN Strikes(state.play_failures, kind = "clean")
                                    ELSE state.play_failures
  <1>1. /\ judged.state = [state EXCEPT !.play_failures = failures,
                                        !.last_play = current]
        /\ judged.verdict = IF evident THEN kind ELSE None
        /\ judged.wanted = IF evident THEN Wanted(kind = "clean", failures) ELSE None
    BY DEF JudgePlay
  <1>2. /\ state.play_failures \in 0..StrikeCap
        /\ state.last_play \in PlayCounters \union {Nothing}
    BY DEF ProviderState
  <1>3. kind \in {"no-evidence", "no-progress", "clean"}
    BY DEF PlayVerdict
  <1>4. Quiet(state.last_play, current) => ~evident
    <2>1. current # Nothing /\ current.served \in Int
      BY NothingAssumption DEF PlayCounters
    <2>2. state.last_play # Nothing => state.last_play.served \in Int
      BY <1>2 DEF PlayCounters
    <2> QED BY <2>1, <2>2 DEF Quiet, PlayVerdict
  <1> HIDE DEF kind
  <1>5. /\ failures \in 0..StrikeCap
        /\ kind = "clean" => failures = 0
        /\ evident /\ failures >= 2 => state.play_failures > 0
        /\ ~evident => failures = state.play_failures
    BY <1>2, StrikesCount
  <1> HIDE DEF failures
  <1>6. /\ judged.state \in ProviderState
        /\ judged.state.play_failures = failures
        /\ judged.state.consecutive_failures = state.consecutive_failures
        /\ judged.state.shape_streak = state.shape_streak
        /\ judged.state.signature = state.signature
        /\ judged.state.last_play = current
    BY <1>1, <1>5 DEF ProviderState
  <1>7. PlayMatches(judged.state, Later(pair, judged.verdict))
    BY <1>1, <1>3, <1>5, <1>6 DEF PlayMatches, Later, None
  <1> QED BY <1>1, <1>3, <1>4, <1>5, <1>6, <1>7 DEF Wanted, None

(***************************************************************************)
(* The steps.                                                              *)
(***************************************************************************)
LEMMA InitDrift == Init => DriftInv
PROOF
  <1> SUFFICES ASSUME Init PROVE DriftInv
    OBVIOUS
  <1>1. FreshState \in ProviderState
    BY BoundAssumption DEF FreshState, ProviderState
  <1>2. TypeOK
    BY <1>1, RegistryAssumption
       DEF Init, TypeOK, Weathers, Verdicts, None
  <1>3. OneIssue
    BY DEF Init, OneIssue
  <1>4. Rest /\ Pending
    BY DEF Init, Rest, Pending, Keys, Faults, Lanes, Probed
  <1>5. OnRecord /\ SoFar
    BY DEF Init, OnRecord, SoFar, FreshState, SweepMatches, PlayMatches, Later,
           Keys, Faults, Lanes
  <1>6. Silence
    BY DEF Init, Silence, FreshState, Quiet, Lanes
  <1> QED BY <1>2, <1>3, <1>4, <1>5, <1>6 DEF DriftInv

(* A sweep that dies leaves what was on file; what the tracker was told in the
   meantime stands. *)
LEMMA GoneKeeps ==
  ASSUME DriftInv, NEW how \in {"raised", "unwritten", "killed"}, Gone(how),
         issues' \in [Keys -> Nat], OneIssue', UNCHANGED <<health, weather>>
  PROVE  DriftInv'
PROOF
  <1> USE DEF DriftInv
  <1>1. TypeOK'
    BY DEF TypeOK, Gone, Verdicts, None
  <1>2. Rest' /\ Pending'
    BY DEF Gone, Rest, Pending, Keys, Faults, Lanes, TypeOK, Probed
  <1>3. OnRecord' /\ SoFar'
    BY DEF Gone, OnRecord, SoFar, Later, Keys, Faults, Lanes
  <1>4. Silence'
    BY DEF Gone, Silence, Quiet, TypeOK
  <1> QED BY <1>1, <1>2, <1>3, <1>4

LEMMA StartKeeps == DriftInv /\ StartSweep => DriftInv'
PROOF
  <1> SUFFICES ASSUME DriftInv, StartSweep PROVE DriftInv'
    OBVIOUS
  <1> USE DEF DriftInv
  <1>1. \A l \in Reported : reading'[l] \in {health[l], Nothing}
    BY DEF StartSweep
  <1>2. TypeOK'
    <2>1. reading' \in [Reported -> PlayCounters \union {Nothing}]
      BY DEF StartSweep, TypeOK
    <2>2. day' \in 0..(Len(Registry) - 1)
      BY RegistryAssumption DEF StartSweep, TypeOK
    <2> QED BY <2>1, <2>2, RegistryAssumption DEF StartSweep, TypeOK, history
  <1>3. OneIssue' /\ Rest' /\ OnRecord' /\ SoFar'
    BY DEF StartSweep, OneIssue, Rest, OnRecord, SoFar, history, Idle
  <1>4. Pending'
    BY RegistryAssumption
       DEF StartSweep, Pending, Rest, history, Idle, Keys, Faults, Lanes, Probed
  <1>5. Silence'
    BY <1>1, NothingAssumption
       DEF StartSweep, Silence, Rest, history, Idle, Quiet, TypeOK, PlayCounters
  <1> QED BY <1>2, <1>3, <1>4, <1>5

LEMMA ProbeKeeps == DriftInv /\ Probe => DriftInv'
PROOF
  <1> SUFFICES ASSUME DriftInv, Probe PROVE DriftInv'
    OBVIOUS
  <1> USE DEF DriftInv
  <1> DEFINE p == Registry[step]
             k == <<p, "sweep">>
  <1>1. step \in 1..Len(Registry) /\ UNCHANGED <<health, weather>>
    BY DEF Probe
  <1>2. p \in Lanes /\ k \in Keys
    BY <1>1 DEF Lanes, Probed, Keys, Faults
  <1>3. PICK listing \in Listings, deepOk \in BOOLEAN, reply \in Replies :
          Settle(p, "sweep", Judge(store[p], listing, deepOk), reply,
                 step' = step + 1 /\ UNCHANGED unjudged)
    BY DEF Probe
  <1> DEFINE judged == Judge(store[p], listing, deepOk)
  <1>4. /\ store[p] \in ProviderState /\ tonight[k] = None /\ seen[k] \in Verdicts \X Verdicts
        /\ issues[k] \in Nat /\ issues[k] <= 1
    BY <1>1, <1>2 DEF TypeOK, Pending, OneIssue
  <1>5. SweepMatches(store[p], seen[k])
    BY <1>2, <1>4 DEF SoFar, Later
  <1>6. /\ judged.state \in ProviderState
        /\ judged.verdict \in {"healthy", "adopted", "shape", "broken"}
        /\ SweepMatches(judged.state, <<seen[k][2], judged.verdict>>)
        /\ judged.state.play_failures = store[p].play_failures
        /\ judged.state.last_play = store[p].last_play
    BY <1>4, <1>5, JudgeIsSound
  <1> HIDE DEF judged
  <1>7. issues' = [issues EXCEPT ![k] = Tracked(issues[k], judged.wanted, reply)]
    BY <1>3 DEF Settle, judged
  <1>8. issues' \in [Keys -> Nat] /\ OneIssue'
    BY <1>2, <1>4, <1>7, TrackedOnce DEF TypeOK, OneIssue
  <1>9. CASE ~Survives(judged.wanted, reply)
    <2>1. Gone("raised")
      BY <1>3, <1>9 DEF Settle, judged
    <2> QED BY <2>1, <1>1, <1>8, GoneKeeps
  <1>10. CASE Survives(judged.wanted, reply)
    <2>1. /\ store' = [store EXCEPT ![p] = judged.state]
          /\ tonight' = [tonight EXCEPT ![k] = judged.verdict]
          /\ step' = step + 1
          /\ UNCHANGED <<file, day, reading, ended, seen, before, after, unjudged>>
      BY <1>3, <1>10 DEF Settle, judged
    <2>2. TypeOK'
      <3>1. store' \in [Lanes -> ProviderState] /\ tonight' \in [Keys -> Verdicts]
        BY <1>2, <1>6, <2>1 DEF TypeOK, Verdicts, Faulty
      <3>2. step' \in 0..(Len(Registry) + 1)
        BY <1>1, <2>1, RegistryAssumption
      <3> QED BY <1>1, <1>8, <2>1, <3>1, <3>2 DEF TypeOK
    <2>3. \A l \in Lanes : /\ tonight'[<<l, "playback">>] = tonight[<<l, "playback">>]
                           /\ l # p => /\ tonight'[<<l, "sweep">>] = tonight[<<l, "sweep">>]
                                       /\ store'[l] = store[l]
      BY <1>2, <2>1 DEF TypeOK, Keys, Faults
    <2>4. store'[p] = judged.state /\ tonight'[k] = judged.verdict
      BY <1>2, <2>1 DEF TypeOK
    <2>5. Rest' /\ OnRecord'
      BY <1>1, <2>1 DEF Rest, OnRecord
    <2>6. Pending'
      <3>1. \A i \in 1..Len(Registry) : i >= step' => tonight'[<<Registry[i], "sweep">>] = None
        <4> SUFFICES ASSUME NEW i \in 1..Len(Registry), i >= step'
                     PROVE  tonight'[<<Registry[i], "sweep">>] = None
          OBVIOUS
        <4>1. Registry[i] # p /\ Registry[i] \in Lanes
          BY <1>1, <2>1, RegistryAssumption DEF Lanes, Probed
        <4>2. i >= step /\ step > 0
          BY <1>1, <2>1, RegistryAssumption
        <4>3. tonight[<<Registry[i], "sweep">>] = None
          BY <4>2 DEF Pending
        <4> QED BY <4>1, <4>3, <2>3
      <3>2. \A l \in Lanes : tonight'[<<l, "playback">>] = None
        BY <1>1, <2>3 DEF Pending
      <3> QED BY <1>1, <2>1, <3>1, <3>2 DEF Pending, Lanes
    <2>7. SoFar'
      <3>1. SweepMatches(store'[p], Later(seen'[k], tonight'[k]))
        BY <1>6, <2>1, <2>4 DEF Later, None
      <3>2. PlayMatches(store'[p], Later(seen'[<<p, "playback">>], tonight'[<<p, "playback">>]))
        BY <1>2, <1>6, <2>1, <2>3, <2>4 DEF SoFar, PlayMatches
      <3> QED BY <1>2, <2>1, <2>3, <3>1, <3>2 DEF SoFar
    <2>8. Silence'
      <3>1. \A l \in Lanes : /\ store'[l].last_play = store[l].last_play
                             /\ store'[l].play_failures = store[l].play_failures
        BY <1>6, <2>3, <2>4
      <3> QED BY <1>1, <2>1, <3>1 DEF Silence, Lanes
    <2> QED BY <1>8, <2>2, <2>5, <2>6, <2>7, <2>8
  <1> QED BY <1>9, <1>10

LEMMA LaneKeeps == DriftInv /\ JudgeLane => DriftInv'
PROOF
  <1> SUFFICES ASSUME DriftInv, JudgeLane PROVE DriftInv'
    OBVIOUS
  <1> USE DEF DriftInv
  <1>1. step = Len(Registry) + 1 /\ UNCHANGED <<health, weather>>
    BY DEF JudgeLane
  <1>2. PICK lane \in unjudged, reply \in Replies :
          Settle(lane, "playback", JudgePlay(store[lane], reading[lane]), reply,
                 unjudged' = unjudged \ {lane} /\ UNCHANGED step)
    BY DEF JudgeLane
  <1> DEFINE k == <<lane, "playback">>
             judged == JudgePlay(store[lane], reading[lane])
  <1>3. lane \in Reported /\ lane \in Lanes /\ k \in Keys
    BY DEF TypeOK, Lanes, Keys, Faults
  <1>4. /\ store[lane] \in ProviderState /\ reading[lane] \in PlayCounters
        /\ tonight[k] = None /\ issues[k] \in Nat /\ issues[k] <= 1
    BY <1>3 DEF TypeOK, Pending, OneIssue
  <1>5. PlayMatches(store[lane], seen[k])
    BY <1>3, <1>4 DEF SoFar, Later
  <1>6. /\ judged.state \in ProviderState
        /\ judged.verdict \in {None, "clean", "no-progress"}
        /\ PlayMatches(judged.state, Later(seen[k], judged.verdict))
        /\ judged.state.consecutive_failures = store[lane].consecutive_failures
        /\ judged.state.shape_streak = store[lane].shape_streak
        /\ judged.state.last_play = reading[lane]
        /\ Quiet(store[lane].last_play, reading[lane])
             => judged.state.play_failures = store[lane].play_failures
    BY <1>4, <1>5, JudgePlayIsSound
  <1> HIDE DEF judged
  <1>7. issues' = [issues EXCEPT ![k] = Tracked(issues[k], judged.wanted, reply)]
    BY <1>2 DEF Settle, judged
  <1>8. issues' \in [Keys -> Nat] /\ OneIssue'
    BY <1>3, <1>4, <1>7, TrackedOnce DEF TypeOK, OneIssue
  <1>9. CASE ~Survives(judged.wanted, reply)
    <2>1. Gone("raised")
      BY <1>2, <1>9 DEF Settle, judged
    <2> QED BY <2>1, <1>1, <1>8, GoneKeeps
  <1>10. CASE Survives(judged.wanted, reply)
    <2>1. /\ store' = [store EXCEPT ![lane] = judged.state]
          /\ tonight' = [tonight EXCEPT ![k] = judged.verdict]
          /\ unjudged' = unjudged \ {lane}
          /\ UNCHANGED <<file, day, reading, ended, seen, before, after, step>>
      BY <1>2, <1>10 DEF Settle, judged
    <2>2. TypeOK'
      <3>1. store' \in [Lanes -> ProviderState] /\ tonight' \in [Keys -> Verdicts]
        BY <1>3, <1>6, <2>1 DEF TypeOK, Verdicts, Faulty
      <3> QED BY <1>1, <1>8, <2>1, <3>1 DEF TypeOK
    <2>3. \A l \in Lanes : /\ tonight'[<<l, "sweep">>] = tonight[<<l, "sweep">>]
                           /\ l # lane => /\ tonight'[<<l, "playback">>] = tonight[<<l, "playback">>]
                                          /\ store'[l] = store[l]
      BY <1>3, <2>1 DEF TypeOK, Keys, Faults
    <2>4. store'[lane] = judged.state /\ tonight'[k] = judged.verdict
      BY <1>3, <2>1 DEF TypeOK
    <2>5. Rest' /\ OnRecord'
      BY <1>1, <2>1, RegistryAssumption DEF Rest, OnRecord
    <2>6. Pending'
      <3>1. \A l \in unjudged' : reading'[l] # Nothing
        BY <2>1 DEF Pending
      <3>2. \A i \in 1..Len(Registry) : i < step'
        BY <1>1, <2>1, RegistryAssumption
      <3>3. \A l \in Lanes : l \in unjudged' \/ l \notin Reported
                              => tonight'[<<l, "playback">>] = None
        BY <1>3, <2>1, <2>3 DEF Pending
      <3>4. \A l \in Reported : reading'[l] = Nothing => tonight'[<<l, "playback">>] = None
        BY <1>3, <2>1, <2>3 DEF Pending, Lanes
      <3>5. step' > Len(Registry)
        BY <1>1, <2>1, RegistryAssumption
      <3> QED BY <3>1, <3>2, <3>3, <3>4, <3>5, RegistryAssumption, <2>2 DEF Pending, TypeOK
    <2>7. SoFar'
      <3>1. PlayMatches(store'[lane], Later(seen'[k], tonight'[k]))
        BY <1>6, <2>1, <2>4
      <3>2. SweepMatches(store'[lane], Later(seen'[<<lane, "sweep">>], tonight'[<<lane, "sweep">>]))
        BY <1>3, <1>6, <2>1, <2>3, <2>4 DEF SoFar, SweepMatches
      <3> QED BY <1>3, <2>1, <2>3, <3>1, <3>2 DEF SoFar
    <2>8. Silence'
      <3> SUFFICES ASSUME NEW l \in Reported PROVE Silence!(l)'
        BY DEF Silence
      <3>1. CASE l # lane
        BY <1>1, <2>1, <2>3, <3>1 DEF Silence, Lanes
      <3>2. CASE l = lane
        <4>1. ~before[l] => judged.state.play_failures = file[l].play_failures
          BY <1>6, <3>2 DEF Silence
        <4>2. judged.state.last_play = reading[l] /\ reading[l] # Nothing
          BY <1>6, <3>2 DEF Pending
        <4> QED BY <1>1, <2>1, <2>4, <3>2, <4>1, <4>2 DEF Silence
      <3> QED BY <3>1, <3>2
    <2> QED BY <1>8, <2>2, <2>5, <2>6, <2>7, <2>8
  <1> QED BY <1>9, <1>10

LEMMA RecordKeeps == DriftInv /\ Record => DriftInv'
PROOF
  <1> SUFFICES ASSUME DriftInv, Record PROVE DriftInv'
    OBVIOUS
  <1> USE DEF DriftInv
  <1>1. TypeOK'
    <2>1. seen' \in [Keys -> Verdicts \X Verdicts]
      BY DEF Record, TypeOK, Later
    <2> QED BY <2>1 DEF Record, TypeOK, Verdicts, None
  <1>2. OneIssue' /\ Rest'
    BY DEF Record, OneIssue, Rest, Keys
  <1>3. Pending'
    BY DEF Record, Pending, Keys, Faults, Lanes, TypeOK, Probed
  <1>4. \A k \in Keys : seen'[k] = Later(seen[k], tonight[k]) /\ tonight'[k] = None
    BY DEF Record
  <1>5. \A l \in Lanes : <<l, "sweep">> \in Keys /\ <<l, "playback">> \in Keys
    BY DEF Keys, Faults
  <1>6. OnRecord'
    BY <1>4, <1>5 DEF Record, OnRecord, SoFar
  <1>7. SoFar'
    BY <1>4, <1>5 DEF Record, SoFar, Later
  <1>8. Silence'
    BY DEF Record, Silence, TypeOK, Quiet
  <1> QED BY <1>1, <1>2, <1>3, <1>6, <1>7, <1>8

(* The API's own steps touch nothing the monitor keeps. *)
LEMMA ApiKeeps ==
  ASSUME DriftInv, NEW lane \in Reported, Served(lane) \/ NoProgress(lane) \/ Refused(lane)
  PROVE  DriftInv'
PROOF
  <1> USE DEF DriftInv
  <1>1. Counted(lane) \in PlayCounters
    BY BoundAssumption DEF Counted, TypeOK, PlayCounters
  <1>2. /\ health' \in [Reported -> PlayCounters \union {Nothing}]
        /\ \A l \in Reported : l # lane => health'[l] = health[l]
    <2> DEFINE c == Counted(lane)
    <2>1. c.served < MaxPlays => [c EXCEPT !.served = @ + 1] \in PlayCounters
      BY <1>1, BoundAssumption DEF PlayCounters
    <2>2. c.no_progress < MaxPlays => [c EXCEPT !.no_progress = @ + 1] \in PlayCounters
      BY <1>1, BoundAssumption DEF PlayCounters
    <2>3. PICK n \in PlayCounters : health' = [health EXCEPT ![lane] = n]
      <3>1. CASE Served(lane)
        BY <2>1, <3>1 DEF Served
      <3>2. CASE NoProgress(lane)
        BY <2>2, <3>2 DEF NoProgress
      <3>3. CASE Refused(lane)
        BY <1>1, <3>3 DEF Refused
      <3> QED BY <3>1, <3>2, <3>3
    <2> QED BY <2>3 DEF TypeOK
  <1>3. UNCHANGED <<monitor, issues, weather, seen, tonight>>
    BY DEF Served, NoProgress, Refused, history
  <1>4. /\ before' \in [Reported -> BOOLEAN] /\ after' \in [Reported -> BOOLEAN]
        /\ \A l \in Reported : (before[l] => before'[l]) /\ (after[l] => after'[l])
        /\ step = 0 => after' = after
        /\ \A l \in Reported : l # lane => before'[l] = before[l] /\ after'[l] = after[l]
    BY DEF Served, NoProgress, Refused, history, TypeOK, Idle
  <1>5. TypeOK'
    BY <1>2, <1>3, <1>4 DEF TypeOK, monitor
  <1>6. OneIssue' /\ Rest' /\ Pending' /\ OnRecord' /\ SoFar'
    BY <1>3, <1>4 DEF OneIssue, Rest, Pending, OnRecord, SoFar, monitor
  <1>7. Silence'
    <2> SUFFICES ASSUME NEW l \in Reported PROVE Silence!(l)'
      BY DEF Silence
    <2>1. CASE l # lane
      BY <1>2, <1>3, <1>4, <2>1 DEF Silence, monitor
    <2>2. CASE l = lane /\ Served(lane)
      <3>1. CASE step = 0
        BY <1>3, <1>4, <2>2, <3>1 DEF Served, Silence, Rest, monitor, Idle, TypeOK
      <3>2. CASE step # 0
        BY <1>3, <1>4, <2>2, <3>2 DEF Served, Silence, monitor, Idle, TypeOK
      <3> QED BY <3>1, <3>2
    <2>3. CASE l = lane /\ (NoProgress(lane) \/ Refused(lane))
      <3>1. health[l] # Nothing => health'[l].served = health[l].served
        BY <2>3, <1>1 DEF NoProgress, Refused, Counted, TypeOK, PlayCounters
      <3>2. health'[l].served = Counted(lane).served /\ health'[l] \in PlayCounters
        BY <2>3, <1>1, <1>2, BoundAssumption DEF NoProgress, Refused, TypeOK, PlayCounters
      <3>3. \A c \in PlayCounters \union {Nothing} : Quiet(c, health[l]) => Quiet(c, health'[l])
        <4>1. CASE health[l] = Nothing
          BY <3>2, <2>3, <4>1 DEF Counted, Quiet, PlayCounters
        <4>2. CASE health[l] # Nothing
          BY <3>1, <4>2 DEF Quiet
        <4> QED BY <4>1, <4>2
      <3>4. file[l].last_play \in PlayCounters \union {Nothing}
        BY DEF TypeOK, ProviderState, Lanes
      <3>5. reading[l] \in PlayCounters \union {Nothing}
        BY DEF TypeOK
      <3>6. UNCHANGED <<before, after>>
        BY <2>3 DEF NoProgress, Refused, history
      <3> QED BY <1>3, <3>3, <3>4, <3>5, <3>6 DEF Silence, monitor
    <2> QED BY <2>1, <2>2, <2>3
  <1> QED BY <1>5, <1>6, <1>7

LEMMA DriftStep == DriftInv /\ [Next]_vars => DriftInv'
PROOF
  <1> SUFFICES ASSUME DriftInv, [Next]_vars PROVE DriftInv'
    OBVIOUS
  <1>1. CASE WriteRefused \/ Killed
    <2>1. issues' \in [Keys -> Nat] /\ OneIssue'
      BY <1>1 DEF WriteRefused, Killed, DriftInv, TypeOK, OneIssue
    <2> QED BY <1>1, <2>1, GoneKeeps DEF WriteRefused, Killed
  <1>2. CASE RestartApi
    BY <1>2 DEF RestartApi, DriftInv, TypeOK, OneIssue, Rest, Pending, OnRecord, SoFar,
                Silence, Quiet, monitor, history
  <1>3. CASE WeatherTurns
    BY <1>3 DEF WeatherTurns, DriftInv, TypeOK, OneIssue, Rest, Pending, OnRecord, SoFar,
                Silence, monitor, history
  <1>4. CASE UNCHANGED vars
    BY <1>4 DEF vars, DriftInv, TypeOK, OneIssue, Rest, Pending, OnRecord, SoFar,
                Silence, monitor, history
  <1> QED BY <1>1, <1>2, <1>3, <1>4, StartKeeps, ProbeKeeps, LaneKeeps, RecordKeeps, ApiKeeps
          DEF Next

(***************************************************************************)
(* The theorems.                                                           *)
(***************************************************************************)
THEOREM DriftInvariant == Spec => []DriftInv
  BY InitDrift, DriftStep, PTL DEF Spec

(* Every variable keeps to its values, whatever dies when. *)
THEOREM DriftTypeCorrect == Spec => []TypeOK
<1>1. DriftInv => TypeOK
  BY DEF DriftInv
<1> QED BY <1>1, DriftInvariant, PTL

(* Never a second open issue for a provider and fault (monitor.py:381-416). *)
THEOREM IssuesAreUnique == Spec => []OneIssue
<1>1. DriftInv => OneIssue
  BY DEF DriftInv
<1> QED BY <1>1, DriftInvariant, PTL

LEMMA SecondStrikeStep ==
  DriftInv /\ [Next]_vars
    => (\A k \in Keys : issues'[k] > issues[k] => seen[k][2] \in Faulty)
PROOF
  <1> SUFFICES ASSUME DriftInv, [Next]_vars, NEW k \in Keys, issues'[k] > issues[k]
               PROVE  seen[k][2] \in Faulty
    OBVIOUS
  <1> USE DEF DriftInv
  <1>1. issues \in [Keys -> Nat] /\ issues[k] <= 1
    BY DEF TypeOK, OneIssue
  <1>2. issues'[k] # issues[k]
    BY <1>1
  <1>3. CASE Probe
    <2> DEFINE p == Registry[step]
    <2>1. step \in 1..Len(Registry) /\ p \in Lanes /\ <<p, "sweep">> \in Keys
      BY <1>3 DEF Probe, Lanes, Probed, Keys, Faults
    <2>2. PICK listing \in Listings, deepOk \in BOOLEAN, reply \in Replies :
            issues' = [issues EXCEPT ![<<p, "sweep">>] =
              Tracked(@, Judge(store[p], listing, deepOk).wanted, reply)]
      BY <1>3 DEF Probe, Settle
    <2> DEFINE judged == Judge(store[p], listing, deepOk)
    <2>3. k = <<p, "sweep">> /\ issues'[k] = Tracked(issues[k], judged.wanted, reply)
      BY <1>1, <1>2, <2>2
    <2>4. store[p] \in ProviderState /\ tonight[<<p, "sweep">>] = None
      BY <2>1 DEF TypeOK, Pending
    <2>4a. SweepMatches(store[p], seen[k])
      BY <2>1, <2>3, <2>4 DEF SoFar, Later
    <2>5. /\ SweepMatches(judged.state, <<seen[k][2], judged.verdict>>)
          /\ judged.wanted = "file" => store[p].consecutive_failures > 0
      BY <2>4, <2>4a, JudgeIsSound
    <2> HIDE DEF judged
    <2>6. judged.wanted = "file"
      BY <1>1, <2>3, TrackedOnce
    <2> QED BY <2>4, <2>4a, <2>5, <2>6 DEF SweepMatches, Faulty, ProviderState
  <1>4. CASE JudgeLane
    <2>1. PICK lane \in unjudged, reply \in Replies :
            issues' = [issues EXCEPT ![<<lane, "playback">>] =
              Tracked(@, JudgePlay(store[lane], reading[lane]).wanted, reply)]
      BY <1>4 DEF JudgeLane, Settle
    <2> DEFINE judged == JudgePlay(store[lane], reading[lane])
    <2>2. lane \in Reported /\ lane \in Lanes /\ <<lane, "playback">> \in Keys
      BY DEF TypeOK, Lanes, Keys, Faults
    <2>3. k = <<lane, "playback">> /\ issues'[k] = Tracked(issues[k], judged.wanted, reply)
      BY <1>1, <1>2, <2>1
    <2>4. /\ store[lane] \in ProviderState /\ reading[lane] \in PlayCounters
          /\ PlayMatches(store[lane], seen[k])
      BY <2>2, <2>3 DEF TypeOK, SoFar, Pending, Later
    <2>5. judged.wanted = "file" => store[lane].play_failures > 0
      BY <2>4, JudgePlayIsSound
    <2> HIDE DEF judged
    <2>6. judged.wanted = "file"
      BY <1>1, <2>3, TrackedOnce
    <2> QED BY <2>4, <2>5, <2>6 DEF PlayMatches, Faulty
  <1> QED BY <1>2, <1>3, <1>4
          DEF Next, StartSweep, Record, WriteRefused, Killed, Served, NoProgress, Refused,
              RestartApi, WeatherTurns, vars

(* An issue is filed only when the verdict on record was a fault already, on
   either axis (monitor.py:377-398, 434-446). *)
THEOREM SecondStrike == Spec => FiledOnSecondStrike
<1>1. DriftInv /\ [Next]_vars
        => [\A k \in Keys : issues'[k] > issues[k] => seen[k][2] \in Faulty]_vars
  BY SecondStrikeStep
<1> QED BY <1>1, DriftInvariant, PTL DEF Spec, FiledOnSecondStrike

LEMMA BandStep ==
  DriftInv /\ [Next]_vars
    => (step' > step =>
          \A p \in Lanes : BandMoved(store[p].signature, store'[p].signature)
                              => seen[<<p, "sweep">>] = <<"shape", "shape">>)
PROOF
  <1> SUFFICES ASSUME DriftInv, [Next]_vars, step' > step, NEW l \in Lanes,
                      BandMoved(store[l].signature, store'[l].signature)
               PROVE  seen[<<l, "sweep">>] = <<"shape", "shape">>
    OBVIOUS
  <1> USE DEF DriftInv
  <1>1. store[l] \in ProviderState /\ step \in Int
    BY RegistryAssumption DEF TypeOK
  <1>2. ~BandMoved(store[l].signature, store[l].signature)
    <2>1. CASE store[l].signature = Nothing
      BY <2>1 DEF BandMoved
    <2>2. CASE store[l].signature \in Signature
      BY <2>2 DEF BandMoved, Signature, Shares
    <2> QED BY <1>1, <2>1, <2>2 DEF ProviderState
  <1>3. store'[l] # store[l]
    BY <1>2
  <1>4. Probe
    <2>1. \A how : Gone(how) => step' = 0
      BY DEF Gone
    <2>2. ~(step' = 0) /\ step' # step
      BY <1>1, RegistryAssumption DEF TypeOK
    <2>3. ~JudgeLane
      BY <2>1, <2>2 DEF JudgeLane, Settle
    <2>4. ~StartSweep
      BY <1>3 DEF StartSweep
    <2> QED BY <2>1, <2>2, <2>3, <2>4
            DEF Next, Record, WriteRefused, Killed, Served, NoProgress, Refused,
                RestartApi, WeatherTurns, monitor, vars
  <1> DEFINE p == Registry[step]
  <1>5. step \in 1..Len(Registry) /\ p \in Lanes /\ <<p, "sweep">> \in Keys
    BY <1>4 DEF Probe, Lanes, Probed, Keys, Faults
  <1>6. PICK listing \in Listings, deepOk \in BOOLEAN, reply \in Replies :
          Settle(p, "sweep", Judge(store[p], listing, deepOk), reply,
                 step' = step + 1 /\ UNCHANGED unjudged)
    BY <1>4 DEF Probe
  <1> DEFINE judged == Judge(store[p], listing, deepOk)
  <1>7. ~Gone("raised")
    BY <1>1, <1>5 DEF Gone
  <1>8. store' = [store EXCEPT ![p] = judged.state]
    BY <1>6, <1>7 DEF Settle
  <1>9. l = p /\ store'[l] = judged.state
    BY <1>3, <1>5, <1>8 DEF TypeOK
  <1>9a. /\ store[p] \in ProviderState /\ store[p].shape_streak \in 0..2
         /\ tonight[<<p, "sweep">>] = None
    BY <1>1, <1>5, <1>9 DEF Pending, ProviderState
  <1>10. SweepMatches(store[p], seen[<<p, "sweep">>])
    BY <1>5, <1>9a DEF SoFar, Later
  <1>10a. BandMoved(store[p].signature, judged.state.signature) => store[p].shape_streak = 2
    BY <1>9a, <1>10, JudgeIsSound
  <1> HIDE DEF judged
  <1>11. store[p].shape_streak = 2
    BY <1>9, <1>10a
  <1>12. seen[<<p, "sweep">>] \in Verdicts \X Verdicts
    BY <1>5 DEF TypeOK
  <1> QED BY <1>9, <1>10, <1>11, <1>12 DEF SweepMatches

(* A band is left behind only on the third shape verdict in a row on record
   (monitor.py:231-250). *)
THEOREM ThirdShape == Spec => BandMovesOnThird
<1>1. DriftInv /\ [Next]_vars
        => [step' > step =>
              \A p \in Lanes : BandMoved(store[p].signature, store'[p].signature)
                                  => seen[<<p, "sweep">>] = <<"shape", "shape">>]_vars
  BY BandStep
<1> QED BY <1>1, DriftInvariant, PTL DEF Spec, BandMovesOnThird

LEMMA SilenceStep ==
  DriftInv /\ [Next]_vars
    => (\A l \in Reported : ~before[l] =>
          /\ issues'[<<l, "playback">>] = issues[<<l, "playback">>]
          /\ file'[l].play_failures = file[l].play_failures)
PROOF
  <1> SUFFICES ASSUME DriftInv, [Next]_vars, NEW l \in Reported, ~before[l]
               PROVE  /\ issues'[<<l, "playback">>] = issues[<<l, "playback">>]
                      /\ file'[l].play_failures = file[l].play_failures
    OBVIOUS
  <1> USE DEF DriftInv
  <1>1. issues \in [Keys -> Nat] /\ OneIssue /\ \A how : Gone(how) => file' = file
    BY DEF TypeOK, Gone
  <1>2. CASE Probe
    <2>1. PICK listing \in Listings, deepOk \in BOOLEAN, reply \in Replies :
            Settle(Registry[step], "sweep",
                   Judge(store[Registry[step]], listing, deepOk), reply,
                   step' = step + 1 /\ UNCHANGED unjudged)
      BY <1>2 DEF Probe
    <2>2. file' = file
      BY <1>1, <2>1 DEF Settle
    <2>3. <<l, "playback">> \in Keys /\ <<l, "playback">> # <<Registry[step], "sweep">>
      BY DEF Keys, Faults, Lanes
    <2> QED BY <1>1, <2>1, <2>2, <2>3 DEF Settle
  <1>3. CASE JudgeLane
    <2>1. PICK lane \in unjudged, reply \in Replies :
            Settle(lane, "playback", JudgePlay(store[lane], reading[lane]), reply,
                   unjudged' = unjudged \ {lane} /\ UNCHANGED step)
      BY <1>3 DEF JudgeLane
    <2> DEFINE k == <<lane, "playback">>
               judged == JudgePlay(store[lane], reading[lane])
    <2>2. /\ lane \in Reported /\ lane \in Lanes /\ k \in Keys
          /\ store[lane] \in ProviderState /\ reading[lane] \in PlayCounters
          /\ tonight[k] = None /\ issues[k] \in Nat /\ issues[k] <= 1
      BY <1>1 DEF TypeOK, Pending, Lanes, Keys, Faults, OneIssue
    <2>3. file' = file
      BY <1>1, <2>1 DEF Settle
    <2>4. issues' = [issues EXCEPT ![k] = Tracked(issues[k], judged.wanted, reply)]
      BY <2>1 DEF Settle
    <2>5. CASE l # lane
      BY <1>1, <2>3, <2>4, <2>5 DEF Keys, Faults, Lanes
    <2>6. CASE l = lane
      <3>1. Quiet(store[l].last_play, reading[l])
        BY <2>6 DEF Silence
      <3>2. PlayMatches(store[lane], seen[k])
        BY <2>2 DEF SoFar, Later
      <3>3. judged.wanted = None
        BY <2>2, <2>6, <3>1, <3>2, JudgePlayIsSound
      <3> HIDE DEF judged
      <3>4. Tracked(issues[k], judged.wanted, reply) = issues[k]
        BY <2>2, <3>3, TrackedOnce
      <3> QED BY <1>1, <2>2, <2>3, <2>4, <2>6, <3>4
    <2> QED BY <2>5, <2>6
  <1>4. CASE Record
    BY <1>4 DEF Record, Silence
  <1>5. CASE WriteRefused \/ Killed
    BY <1>1, <1>5 DEF WriteRefused, Killed
  <1> QED BY <1>2, <1>3, <1>4, <1>5
          DEF Next, StartSweep, Served, NoProgress, Refused, RestartApi, WeatherTurns,
              monitor, vars

(* A lane that served nothing since the reading on record is neither accused
   nor acquitted (attestation.py:24-31, 139-155). *)
THEOREM SilenceIsNoEvidence == Spec => SilenceDecidesNothing
<1>1. DriftInv /\ [Next]_vars
        => [\A l \in Reported : ~before[l] =>
              /\ issues'[<<l, "playback">>] = issues[<<l, "playback">>]
              /\ file'[l].play_failures = file[l].play_failures]_vars
  BY SilenceStep
<1> QED BY <1>1, DriftInvariant, PTL DEF Spec, SilenceDecidesNothing

(* Neither an issue nor a band's move comes before its count of verdicts. *)
THEOREM NothingHasty == Spec => StrikesDecide
BY SecondStrike, ThirdShape DEF StrikesDecide

=============================================================================
