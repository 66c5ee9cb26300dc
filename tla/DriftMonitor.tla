---------------------------- MODULE DriftMonitor ----------------------------
(***************************************************************************)
(* The nightly drift monitor: drift/monitor.py, drift/baseline.py,         *)
(* drift/attestation.py, drift/issues.py and the rotation of drift/probe.  *)
(*                                                                         *)
(* A sweep is one short process.  It loads the state file, reads the API's *)
(* playback counters, probes the registry in order, judges the lanes whose *)
(* counters it read, and writes the state file only at the end.  Between   *)
(* two sweeps the API serves streams, hears the client's reports and may   *)
(* restart.  The tracker is `gh`: a call is done, refused (RuntimeError,   *)
(* which the monitor catches), or it raises something else (a missing      *)
(* binary, a 60 s timeout, an unreadable answer) and takes the sweep down. *)
(***************************************************************************)
EXTENDS Integers, Sequences

CONSTANTS Registry,     \* the probed providers, in registry order
          Reported,     \* the lanes the health surface may report
          EveryNDays,   \* deep_every_n_days
          Members,      \* the forms and styles a card can carry
          Listings,     \* what a listing probe can come back with
          Nothing,      \* no signature yet, no counters read
          StrikeCap,    \* bound: a failure counter saturates here
          MaxPlays      \* bound: each playback counter of one API process

MIN_CARDS == 2
SHAPE_RECALIBRATE_AFTER == 3

(* A share of a listing: under _BAND_FLOOR, under _SIGNIFICANT_SHARE, or at
   least that. *)
Shares == {"gone", "minor", "major"}

ListingType == [ok : BOOLEAN, fields_ok : BOOLEAN, count : Nat,
                share : [Members -> Shares]]

ASSUME RegistryAssumption ==
  /\ Len(Registry) \in Nat \ {0}
  /\ \A i, j \in 1..Len(Registry) : Registry[i] = Registry[j] => i = j
ASSUME DayAssumption == EveryNDays \in Nat \ {0}
ASSUME ListingAssumption == Listings \subseteq ListingType
ASSUME BoundAssumption == StrikeCap \in Nat /\ StrikeCap >= 2 /\ MaxPlays \in Nat

Probed == {Registry[i] : i \in 1..Len(Registry)}
Lanes == Probed \union Reported
Faults == {"sweep", "playback"}
Keys == Lanes \X Faults         \* the tracker's key: the issue's title

None == "none"

Signature == [count_low : Nat, share : [Members -> Shares]]
PlayCounters == [served : 0..MaxPlays, no_progress : 0..MaxPlays]

ASSUME NothingAssumption ==
  Nothing \notin Signature /\ Nothing \notin PlayCounters

ProviderState ==
  [consecutive_failures : 0..StrikeCap, shape_streak : 0..2,
   signature : Signature \union {Nothing},
   play_failures : 0..StrikeCap, last_play : PlayCounters \union {Nothing}]

FreshState == [consecutive_failures |-> 0, shape_streak |-> 0,
               signature |-> Nothing, play_failures |-> 0, last_play |-> Nothing]

VARIABLES
  file,      \* the state file
  store,     \* the states this sweep holds; between sweeps, what is on disk
  step,      \* 0 no sweep runs; i probe Registry[i]; Len + 1 the lanes
  day,       \* the rotation seed, up to the registry's length
  unjudged,  \* the lanes of the reading still to be judged
  reading,   \* the counters this sweep read from /api/health
  ended,     \* between sweeps, how the last one ended
  issues,    \* the open issues of each title
  health,    \* the running API's counters
  weather,   \* what the surroundings are allowed to do from now on
  seen,      \* history: the last two verdicts on record, older first
  tonight,   \* history: this sweep's verdicts so far
  before,    \* history: served between the recorded reading and this one
  after      \* history: served since this sweep's reading

monitor == <<file, store, step, day, unjudged, reading, ended>>
history == <<seen, tonight, before, after>>
vars == <<monitor, issues, health, weather, history>>

(***************************************************************************)
(* The pure parts.                                                         *)
(***************************************************************************)
Widest(a, b) == IF a > b THEN a ELSE b

(* rotate_deep_providers, as positions of a registry of n providers. *)
DeepPositions(n, every, offset) ==
  LET size == Widest(1, (n + every - 1) \div every)
  IN  {((offset * size + k) % n) + 1 : k \in 0..(size - 1)}

Broken(listing) ==
  \/ ~listing.ok
  \/ listing.count = 0
  \/ ~listing.fields_ok
  \/ listing.count < MIN_CARDS

LeftBand(listing, signature) ==
  \/ listing.count < signature.count_low
  \/ \E m \in Members : signature.share[m] = "major" /\ listing.share[m] = "gone"

VerdictFor(listing, signature) ==
  IF Broken(listing) THEN "broken"
  ELSE IF signature # Nothing /\ LeftBand(listing, signature) THEN "shape" ELSE "ok"

UpdateSignature(signature, listing) ==
  [count_low |-> IF signature # Nothing /\ signature.count_low < listing.count
                   THEN signature.count_low ELSE listing.count,
   share |-> listing.share]

\* Mistake: a window in which nothing was served is judged like any other.
JudgesSilence(last, current) ==
  LET served == current.served - last.served
      stopped == current.no_progress - last.no_progress
  IN  IF last = Nothing THEN "no-evidence"
      ELSE IF served < 0 \/ stopped < 0 THEN "no-evidence"
      ELSE IF stopped > 0 /\ stopped >= served THEN "no-progress" ELSE "clean"
PlayVerdict(last, current) ==
  LET served == current.served - last.served
      stopped == current.no_progress - last.no_progress
  IN  IF \/ last = Nothing
         \/ current.served < last.served
         \/ current.no_progress < last.no_progress
         \/ served = 0
        THEN "no-evidence"
        ELSE IF stopped > 0 /\ stopped >= served THEN "no-progress" ELSE "clean"

Bump(n) == IF n < StrikeCap THEN n + 1 ELSE n

(***************************************************************************)
(* One sweep's judgement of one provider: the new state, the verdict that  *)
(* goes on record and what is wanted from the tracker.                     *)
(***************************************************************************)
\* Mutants: another fault in between leaves the streak standing; no streak is
\* kept.
StreakStands(state, kind, deepOk) ==
  IF kind = "shape" /\ deepOk THEN state.shape_streak + 1 ELSE state.shape_streak
NoStreak(state, kind, deepOk) == 0
ShapeStreak(state, kind, deepOk) ==
  IF kind = "shape" /\ deepOk THEN state.shape_streak + 1 ELSE 0

Adopts(streak) == streak >= SHAPE_RECALIBRATE_AFTER

\* Mistake: a healthy pass leaves the counter.
NeverReset(failures, settled) == IF settled THEN failures ELSE Bump(failures)
Strikes(failures, settled) == IF settled THEN 0 ELSE Bump(failures)

Wanted(settled, failures) ==
  IF settled THEN "close" ELSE IF failures >= 2 THEN "file" ELSE None

Judge(state, listing, deepOk) ==
  LET kind == VerdictFor(listing, state.signature)
      healthy == kind = "ok" /\ deepOk
      streak == IF healthy THEN 0 ELSE ShapeStreak(state, kind, deepOk)
      settled == healthy \/ Adopts(streak)
      failures == Strikes(state.consecutive_failures, settled)
  IN  [state |-> [state EXCEPT
                    !.consecutive_failures = failures,
                    !.shape_streak = IF settled THEN 0 ELSE streak,
                    !.signature = IF settled
                                    THEN UpdateSignature(state.signature, listing)
                                    ELSE @],
       verdict |-> IF healthy THEN "healthy"
                   ELSE IF Adopts(streak) THEN "adopted"
                   ELSE IF kind = "shape" /\ deepOk THEN "shape" ELSE "broken",
       wanted |-> Wanted(settled, failures)]

JudgePlay(state, current) ==
  LET kind == PlayVerdict(state.last_play, current)
      evident == kind # "no-evidence"
      failures == IF evident THEN Strikes(state.play_failures, kind = "clean")
                             ELSE state.play_failures
  IN  [state |-> [state EXCEPT !.play_failures = failures, !.last_play = current],
       verdict |-> IF evident THEN kind ELSE None,
       wanted |-> IF evident THEN Wanted(kind = "clean", failures) ELSE None]

(***************************************************************************)
(* The tracker.  `timed_out` is a call GitHub carried out after the 60 s   *)
(* the monitor waits for it.                                               *)
(***************************************************************************)
Replies == {"done", "refused", "raised", "timed_out"}
Survives(wanted, reply) == wanted = None \/ reply \in {"done", "refused"}

\* Mistake: an issue is filed without looking one up.
FilesAnother(open, wanted, reply) ==
  IF reply \notin {"done", "timed_out"} THEN open
  ELSE IF wanted = "file" THEN open + 1
  ELSE IF wanted = "close" /\ open > 0 THEN open - 1 ELSE open
Tracked(open, wanted, reply) ==
  IF reply \notin {"done", "timed_out"} THEN open
  ELSE IF wanted = "file" /\ open = 0 THEN 1
  ELSE IF wanted = "close" /\ open > 0 THEN open - 1 ELSE open

(***************************************************************************)
(* The surroundings: anything may happen in foul weather; in fair weather  *)
(* every provider serves; in the dark every listing is broken.  Outside    *)
(* foul weather the tracker, the disk and the host do their part.          *)
(***************************************************************************)
Weathers == {"foul", "fair", "dark"}
MayAnswer(listing, deepOk) ==
  /\ weather = "fair" => ~Broken(listing) /\ deepOk
  /\ weather = "dark" => Broken(listing)
MayReply(reply) == weather # "foul" => reply = "done"

Init ==
  /\ file = [l \in Lanes |-> FreshState] /\ store = file
  /\ step = 0 /\ day = 0 /\ unjudged = {}
  /\ reading = [l \in Reported |-> Nothing] /\ ended = None
  /\ issues = [k \in Keys |-> 0]
  /\ health = [l \in Reported |-> Nothing]
  /\ weather = "foul"
  /\ seen = [k \in Keys |-> <<None, None>>]
  /\ tonight = [k \in Keys |-> None]
  /\ before = [l \in Reported |-> FALSE]
  /\ after = [l \in Reported |-> FALSE]

Idle == step = 0

(* The timer fires: the file is loaded and the health surface read before
   the first probe; an unreadable surface leaves nothing to judge. *)
StartSweep ==
  /\ Idle
  /\ step' = 1
  /\ day' = (day + 1) % Len(Registry)
  /\ reading' \in {health, [l \in Reported |-> Nothing]}
  /\ unjudged' = {l \in Reported : reading'[l] # Nothing}
  /\ ended' = None
  /\ UNCHANGED <<file, store, issues, health, weather, history>>

(* The process is gone with what it held in memory. *)
Gone(how) ==
  /\ step' = 0
  /\ store' = file
  /\ unjudged' = {}
  /\ reading' = [l \in Reported |-> Nothing]
  /\ ended' = how
  /\ tonight' = [k \in Keys |-> None]
  /\ before' = [l \in Reported |-> before[l] \/ after[l]]
  /\ after' = [l \in Reported |-> FALSE]
  /\ UNCHANGED <<file, day, seen>>

(* What a judgement does: the tracker's call, then the state it left. *)
Settle(lane, fault, judged, reply, rest) ==
  /\ issues' = [issues EXCEPT ![<<lane, fault>>] =
                  Tracked(@, judged.wanted, reply)]
  /\ IF Survives(judged.wanted, reply)
       THEN /\ store' = [store EXCEPT ![lane] = judged.state]
            /\ tonight' = [tonight EXCEPT ![<<lane, fault>>] = judged.verdict]
            /\ rest
            /\ UNCHANGED <<file, day, reading, ended, seen, before, after>>
       ELSE Gone("raised")

(* run_once's loop body for one provider: listing, deep probe when its turn
   has come and the listing has a card, verdict, counters, issue. *)
Probe ==
  /\ step \in 1..Len(Registry)
  /\ \E listing \in Listings, deepOk \in BOOLEAN, reply \in Replies :
       /\ MayAnswer(listing, deepOk) /\ MayReply(reply)
       /\ ~deepOk => /\ step \in DeepPositions(Len(Registry), EveryNDays, day)
                     /\ listing.ok /\ listing.count > 0
       /\ Settle(Registry[step], "sweep",
                 Judge(store[Registry[step]], listing, deepOk), reply,
                 step' = step + 1 /\ UNCHANGED unjudged)
  /\ UNCHANGED <<health, weather>>

(* _sweep_playback's loop body for one lane. *)
JudgeLane ==
  /\ step = Len(Registry) + 1
  /\ \E lane \in unjudged, reply \in Replies :
       /\ MayReply(reply)
       /\ Settle(lane, "playback", JudgePlay(store[lane], reading[lane]), reply,
                 unjudged' = unjudged \ {lane} /\ UNCHANGED step)
  /\ UNCHANGED <<health, weather>>

Later(pair, verdict) == IF verdict = None THEN pair ELSE <<pair[2], verdict>>

\* Mistake: the sweep ends without saving.
ForgetsToSave ==
  /\ step = Len(Registry) + 1 /\ unjudged = {}
  /\ Gone("recorded")
  /\ UNCHANGED <<issues, health, weather>>
(* store.save(), which never raises: the file is replaced whole. *)
Record ==
  /\ step = Len(Registry) + 1 /\ unjudged = {}
  /\ file' = store
  /\ step' = 0
  /\ reading' = [l \in Reported |-> Nothing]
  /\ ended' = "recorded"
  /\ seen' = [k \in Keys |-> Later(seen[k], tonight[k])]
  /\ tonight' = [k \in Keys |-> None]
  /\ before' = [l \in Reported |-> after[l] \/ (reading[l] = Nothing /\ before[l])]
  /\ after' = [l \in Reported |-> FALSE]
  /\ UNCHANGED <<store, day, unjudged, issues, health, weather>>

(* The write failed: a log line, and the previous file intact. *)
WriteRefused ==
  /\ weather = "foul"
  /\ step = Len(Registry) + 1 /\ unjudged = {}
  /\ Gone("unwritten")
  /\ UNCHANGED <<issues, health, weather>>

(* The host or the operator stops the sweep. *)
Killed ==
  /\ weather = "foul" /\ ~Idle
  /\ Gone("killed")
  /\ UNCHANGED <<issues, health, weather>>

(***************************************************************************)
(* The API beside the monitor.                                             *)
(***************************************************************************)
Counted(lane) ==
  IF health[lane] = Nothing THEN [served |-> 0, no_progress |-> 0] ELSE health[lane]

Served(lane) ==
  /\ Counted(lane).served < MaxPlays
  /\ health' = [health EXCEPT ![lane] = [Counted(lane) EXCEPT !.served = @ + 1]]
  /\ IF Idle THEN before' = [before EXCEPT ![lane] = TRUE] /\ UNCHANGED after
             ELSE after' = [after EXCEPT ![lane] = TRUE] /\ UNCHANGED before
  /\ UNCHANGED <<monitor, issues, weather, seen, tonight>>

NoProgress(lane) ==
  /\ Counted(lane).no_progress < MaxPlays
  /\ health' = [health EXCEPT ![lane] = [Counted(lane) EXCEPT !.no_progress = @ + 1]]
  /\ UNCHANGED <<monitor, issues, weather, history>>

(* A refusal counts nothing here, but it is what creates a lane's bucket. *)
Refused(lane) ==
  /\ health[lane] = Nothing
  /\ health' = [health EXCEPT ![lane] = Counted(lane)]
  /\ UNCHANGED <<monitor, issues, weather, history>>

RestartApi ==
  /\ health' = [l \in Reported |-> Nothing]
  /\ UNCHANGED <<monitor, issues, weather, history>>

WeatherTurns ==
  /\ weather = "foul"
  /\ weather' \in Weathers \ {"foul"}
  /\ UNCHANGED <<monitor, issues, health, history>>

Next ==
  \/ StartSweep \/ Probe \/ JudgeLane \/ Record \/ WriteRefused \/ Killed
  \/ \E lane \in Reported : Served(lane) \/ NoProgress(lane) \/ Refused(lane)
  \/ RestartApi \/ WeatherTurns

Spec == Init /\ [][Next]_vars

(* The timer fires every night (Persistent=true catches a missed one), and a
   sweep that nobody stops goes on: every probe and every call is bounded. *)
FairSpec == Spec /\ WF_vars(StartSweep \/ Probe \/ JudgeLane \/ Record)

(***************************************************************************)
(* Properties.                                                             *)
(***************************************************************************)
Faulty == {"shape", "broken", "no-progress"}
Verdicts == Faulty \union {None, "healthy", "adopted", "clean"}

(* Every variable keeps to its values. *)
TypeOK ==
  /\ file \in [Lanes -> ProviderState] /\ store \in [Lanes -> ProviderState]
  /\ step \in 0..(Len(Registry) + 1) /\ day \in 0..(Len(Registry) - 1)
  /\ unjudged \subseteq Reported
  /\ reading \in [Reported -> PlayCounters \union {Nothing}]
  /\ ended \in {None, "recorded", "raised", "unwritten", "killed"}
  /\ issues \in [Keys -> Nat]
  /\ health \in [Reported -> PlayCounters \union {Nothing}]
  /\ weather \in Weathers
  /\ seen \in [Keys -> Verdicts \X Verdicts] /\ tonight \in [Keys -> Verdicts]
  /\ before \in [Reported -> BOOLEAN] /\ after \in [Reported -> BOOLEAN]

(* Repeated failures, refused lookups and sweeps that die between filing an
   issue and recording the failure reuse the open issue: there is never a
   second one for the same provider and fault (monitor.py:381-416). *)
OneIssue == \A k \in Keys : issues[k] <= 1

(* An issue is filed only when the verdict on record before tonight's was a
   fault too, whatever sweeps died unrecorded in between; on the playback axis
   the sweeps without evidence do not count (monitor.py:377-398, 434-446). *)
FiledOnSecondStrike ==
  [][\A k \in Keys : issues'[k] > issues[k] => seen[k][2] \in Faulty]_vars

(* A provider's band is left behind (a lower low, a form that held a fifth of
   the listing and is gone) only on a third shape verdict in a row: an unstable
   provider is never recalibrated on two out of three (monitor.py:231-250). *)
BandMoved(old, new) ==
  /\ old # Nothing
  /\ \/ new.count_low < old.count_low
     \/ \E m \in Members : old.share[m] = "major" /\ new.share[m] = "gone"
BandMovesOnThird ==
  [][step' > step =>
       \A p \in Lanes : BandMoved(store[p].signature, store'[p].signature)
                           => seen[<<p, "sweep">>] = <<"shape", "shape">>]_vars

(* Nothing is decided before its count of verdicts is full: an issue takes two
   faults, a band's move three shape verdicts, whatever died in between. *)
StrikesDecide == FiledOnSecondStrike /\ BandMovesOnThird

(* A lane that served nothing since the reading on record is neither accused
   nor acquitted, across API restarts, late reports and dead sweeps: its issue
   and its streak on file stand (attestation.py:24-31, 139-155). *)
SilenceDecidesNothing ==
  [][\A l \in Reported : ~before[l] =>
       /\ issues'[<<l, "playback">>] = issues[<<l, "playback">>]
       /\ file'[l].play_failures = file[l].play_failures]_vars

(* Once every provider serves and the tracker answers, every sweep issue gets
   closed, whatever shape the provider moved to (monitor.py:236-250). *)
FairIsClosed ==
  \A p \in Probed : weather = "fair" ~> issues[<<p, "sweep">>] = 0

(* Once every listing is broken for good and the tracker answers, every
   provider gets its issue and keeps it: counting never converges on a broken
   provider (baseline.py:21-23). *)
DarkIsFiled ==
  \A p \in Probed : weather = "dark" ~> [](issues[<<p, "sweep">>] = 1)

(* Issues end up where the weather is. *)
IssuesFollowTheWeather == FairIsClosed /\ DarkIsFiled

=============================================================================
