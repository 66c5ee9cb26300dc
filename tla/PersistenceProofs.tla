------------------------- MODULE PersistenceProofs --------------------------
(***************************************************************************)
(* What is kept on disk across restarts.  The resume store keeps what it    *)
(* says, for any items, cap and number of reports, and implements the       *)
(* abstract durable state: the invariant orders the three versions,         *)
(* promised, on disk, in memory.  A stale home is always on its way to      *)
(* being replaced, however many builds and warms run at once and whatever   *)
(* is on disk: the three healing invariants are inductive together with the *)
(* types and the idle warms.                                                *)
(***************************************************************************)
EXTENDS ResumeStore, HomeSnapshot, SequenceTheorems, TLAPS

-----------------------------------------------------------------------------
(* The resume store.                                                           *)

\* A shelf within its cap that shows an item once.
Tidy(shelf) ==
    /\ Len(shelf) <= MaxItems
    /\ \A m, n \in DOMAIN shelf : shelf[m].id = shelf[n].id => m = n

VersionsOrdered == disk.ver <= mem.ver /\ promised <= disk.ver

StoppedIsQuiet == up # "up" => pending = {}

ResumeInv ==
    /\ StoreTypeOK
    /\ VersionsOrdered
    /\ StoppedIsQuiet
    /\ Tidy(mem.shelf) /\ Tidy(disk.shelf)

-----------------------------------------------------------------------------
\* Taking an item off a tidy shelf leaves a tidy shelf without it.
LEMMA OthersFacts ==
    ASSUME NEW shelf \in Seq(Entry), Tidy(shelf), NEW i \in Items
    PROVE  /\ Others(shelf, i) \in Seq(Entry)
           /\ Tidy(Others(shelf, i))
           /\ At(Others(shelf, i), i) = {}
<1>1. CASE At(shelf, i) = {}
  BY <1>1 DEF Others
<1>2. CASE At(shelf, i) # {}
  <2> DEFINE p == CHOOSE n \in At(shelf, i) : TRUE
             t == Without(shelf, p)
  <2>1. p \in 1..Len(shelf) /\ shelf[p].id = i
    BY <1>2 DEF At
  <2>2. Others(shelf, i) = t
    BY <1>2 DEF Others
  <2> HIDE DEF p
  <2>3. Len(shelf) \in Nat /\ Len(shelf) >= 1
    BY <2>1
  <2>4. \A k \in 1..(Len(shelf) - 1) : (IF k < p THEN k ELSE k + 1) \in 1..Len(shelf)
    BY <2>1, <2>3
  <2>5. t \in Seq(Entry) /\ Len(t) = Len(shelf) - 1 /\ DOMAIN t = 1..(Len(shelf) - 1)
    BY <2>3, <2>4 DEF Without
  <2>6. \A k \in DOMAIN t : t[k] = shelf[IF k < p THEN k ELSE k + 1]
    BY <2>5 DEF Without
  <2> HIDE DEF t
  <2>7. Len(t) <= MaxItems
    BY <2>3, <2>5, ResumeAssumption DEF Tidy
  <2>8. \A m, n \in DOMAIN t : t[m].id = t[n].id => m = n
    <3> TAKE m, n \in DOMAIN t
    <3> DEFINE a == IF m < p THEN m ELSE m + 1
               b == IF n < p THEN n ELSE n + 1
    <3>1. a \in DOMAIN shelf /\ b \in DOMAIN shelf
      BY <2>4, <2>5
    <3>2. t[m].id = t[n].id => a = b
      BY <2>6, <3>1 DEF Tidy
    <3>3. a = b => m = n
      BY <2>1, <2>5
    <3> QED BY <3>2, <3>3
  <2>9. \A k \in DOMAIN t : t[k].id # i
    <3> TAKE k \in DOMAIN t
    <3> DEFINE a == IF k < p THEN k ELSE k + 1
    <3>1. a \in DOMAIN shelf /\ a # p
      BY <2>1, <2>4, <2>5
    <3>2. shelf[a].id # shelf[p].id
      BY <2>1, <3>1 DEF Tidy
    <3> QED BY <2>1, <2>6, <3>2
  <2> QED BY <2>2, <2>5, <2>7, <2>8, <2>9 DEF Tidy, At
<1> QED BY <1>1, <1>2

\* The cap keeps a shelf that is one over within bounds, and tidy.
LEMMA CapFacts ==
    ASSUME NEW shelf \in Seq(Entry), Tidy(shelf), NEW e \in Entry,
           At(shelf, e.id) = {}
    PROVE  Cap(Append(shelf, e)) \in Seq(Entry) /\ Tidy(Cap(Append(shelf, e)))
<1> DEFINE s == Append(shelf, e)
<1>1. /\ s \in Seq(Entry) /\ Len(s) = Len(shelf) + 1 /\ s # <<>>
      /\ \A k \in 1..Len(shelf) : s[k] = shelf[k]
      /\ s[Len(shelf) + 1] = e
  BY AppendProperties
<1>2. Len(shelf) \in Nat /\ Len(shelf) <= MaxItems
  BY DEF Tidy
<1>3. \A m, n \in DOMAIN s : s[m].id = s[n].id => m = n
  <2>1. \A k \in 1..Len(shelf) : s[k].id # e.id
    BY <1>1 DEF At
  <2>2. DOMAIN s = 1..(Len(shelf) + 1)
    BY <1>1
  <2> HIDE DEF s
  <2> QED BY <1>1, <1>2, <2>1, <2>2 DEF Tidy
<1> HIDE DEF s
<1>4. CASE Len(s) > MaxItems
  <2>1. /\ Tail(s) \in Seq(Entry) /\ Len(Tail(s)) = Len(s) - 1
        /\ \A k \in 1..Len(Tail(s)) : Tail(s)[k] = s[k + 1]
    BY <1>1, HeadTailProperties
  <2>2. DOMAIN Tail(s) = 1..(Len(s) - 1)
    BY <2>1
  <2>3. \A k \in DOMAIN Tail(s) : k + 1 \in DOMAIN s
    BY <1>1, <1>2, <2>2
  <2>4. \A m, n \in DOMAIN Tail(s) : Tail(s)[m].id = Tail(s)[n].id => m = n
    <3> TAKE m, n \in DOMAIN Tail(s)
    <3>1. Tail(s)[m] = s[m + 1] /\ Tail(s)[n] = s[n + 1]
      BY <2>1, <2>2
    <3>2. Tail(s)[m].id = Tail(s)[n].id => m + 1 = n + 1
      BY <1>3, <2>3, <3>1
    <3> QED BY <2>2, <3>2
  <2>5. Len(Tail(s)) <= MaxItems
    BY <1>1, <1>2, <2>1
  <2> QED BY <1>4, <2>1, <2>4, <2>5 DEF Cap, Tidy, s
<1>5. CASE ~(Len(s) > MaxItems)
  BY <1>1, <1>2, <1>3, <1>5, ResumeAssumption DEF Cap, Tidy, s
<1> QED BY <1>4, <1>5

\* A report makes a store of a store, one version on, with a tidy shelf.
LEMMA RecordedFacts ==
    ASSUME ResumeInv, NEW i \in Items, NEW pos \in Positions, NEW hasRuntime \in BOOLEAN
    PROVE  /\ Recorded(i, pos, hasRuntime) \in Store
           /\ Recorded(i, pos, hasRuntime).ver = mem.ver + 1
           /\ Tidy(Recorded(i, pos, hasRuntime).shelf)
<1>1. mem \in Store /\ mem.shelf \in Seq(Entry) /\ Tidy(mem.shelf) /\ mem.ver + 1 \in Nat
  BY DEF ResumeInv, StoreTypeOK, Store
<1> DEFINE o == Others(mem.shelf, i)
<1>2. o \in Seq(Entry) /\ Tidy(o) /\ At(o, i) = {}
  BY <1>1, OthersFacts
<1> HIDE DEF o
<1>3. Finished(i) \in Store /\ Finished(i).ver = mem.ver + 1 /\ Finished(i).shelf = o
  BY <1>1, <1>2 DEF Finished, Store, o
<1>4. ASSUME NEW known \in BOOLEAN
      PROVE  /\ Shelved(i, pos, known) \in Store
             /\ Shelved(i, pos, known).ver = mem.ver + 1
             /\ Tidy(Shelved(i, pos, known).shelf)
  <2> DEFINE e == [id |-> i, pos |-> pos, runtime |-> known]
             c == Cap(Append(o, e))
  <2>1. e \in Entry /\ e.id = i
    BY DEF Entry
  <2> HIDE DEF e
  <2>2. c \in Seq(Entry) /\ Tidy(c)
    BY <1>2, <2>1, CapFacts
  <2>3. Shelved(i, pos, known) = [mem EXCEPT !.shelf = c, !.ver = @ + 1]
    BY DEF Shelved, o, e
  <2> HIDE DEF c
  <2> QED BY <1>1, <2>2, <2>3 DEF Store
<1>5. (hasRuntime \/ RuntimeKnown(i)) \in BOOLEAN
  BY DEF RuntimeKnown
<1> QED BY <1>2, <1>3, <1>4, <1>5 DEF Recorded

-----------------------------------------------------------------------------
\* An empty store, in memory and on disk, promises nothing yet.
THEOREM ResumeInit == StoreInit => ResumeInv
<1> SUFFICES ASSUME StoreInit PROVE ResumeInv
  OBVIOUS
<1>1. EmptyStore \in Store /\ EmptyStore.ver = 0 /\ EmptyStore.shelf = <<>>
  BY DEF EmptyStore, Store
<1>2. Tidy(<<>>)
  BY ResumeAssumption DEF Tidy
<1>3. StoreTypeOK
  BY <1>1 DEF StoreInit, StoreTypeOK
<1>4. VersionsOrdered /\ StoppedIsQuiet
  BY <1>1 DEF StoreInit, VersionsOrdered, StoppedIsQuiet
<1>5. mem.shelf = <<>> /\ disk.shelf = <<>>
  BY <1>1 DEF StoreInit
<1> QED BY <1>2, <1>3, <1>4, <1>5 DEF ResumeInv

\* A report, immediate or debounced, keeps the versions in order: what it writes
\* is newer than anything before.
LEMMA ReportStep ==
    ASSUME ResumeInv, NEW i \in Items, NEW pos \in Positions,
           NEW hasRuntime \in BOOLEAN, NEW stopped \in BOOLEAN,
           Report(i, pos, hasRuntime, stopped)
    PROVE  ResumeInv' /\ disk' \in {disk, mem'}
<1> DEFINE store == Recorded(i, pos, hasRuntime)
<1>1. store \in Store /\ store.ver = mem.ver + 1 /\ Tidy(store.shelf)
  BY RecordedFacts
<1>2. mem' = store /\ up = "up" /\ UNCHANGED <<writable, up>>
  BY DEF Report
<1>4. \/ /\ disk' = Written(store) /\ missed' = ~writable /\ pending' = pending
         /\ promised' = IF writable THEN store.ver ELSE promised
      \/ /\ pending' = Request(store) /\ missed' = FALSE
         /\ UNCHANGED <<disk, promised>>
  BY DEF Report, WriteNow
<1> HIDE DEF store
<1>5. mem.ver \in Nat /\ disk.ver \in Nat /\ promised \in Nat
  BY DEF ResumeInv, StoreTypeOK, Store
<1>6. StoreTypeOK'
  BY <1>1, <1>2, <1>4 DEF ResumeInv, StoreTypeOK, Written, Request, Store
<1>7. VersionsOrdered'
  BY <1>1, <1>2, <1>4, <1>5 DEF ResumeInv, VersionsOrdered, Written
<1>8. StoppedIsQuiet'
  BY <1>2 DEF StoppedIsQuiet
<1>9. Tidy(mem.shelf)' /\ Tidy(disk.shelf)'
  BY <1>1, <1>2, <1>4 DEF ResumeInv, Written, Tidy
<1> QED BY <1>2, <1>4, <1>6, <1>7, <1>8, <1>9 DEF ResumeInv, Written

\* Every step keeps the invariant.
THEOREM ResumeStep == ResumeInv /\ [StoreNext]_storeVars => ResumeInv'
<1> SUFFICES ASSUME ResumeInv, [StoreNext]_storeVars PROVE ResumeInv'
  OBVIOUS
<1> USE DEF ResumeInv, StoreTypeOK, VersionsOrdered, StoppedIsQuiet
<1>v. mem.ver \in Nat /\ disk.ver \in Nat
  BY DEF Store
<1>1. ASSUME NEW i \in Items, NEW pos \in Positions, NEW hasRuntime \in BOOLEAN,
             NEW stopped \in BOOLEAN, Report(i, pos, hasRuntime, stopped)
      PROVE  ResumeInv'
  BY <1>1, ReportStep
<1>2. CASE RecordQuery
  <2>1. /\ mem' \in Store /\ mem'.ver = mem.ver + 1 /\ mem'.shelf = mem.shelf
    BY <1>2, <1>v DEF RecordQuery, Store
  <2>2. /\ pending' = {mem'} /\ missed' = FALSE /\ up = "up"
        /\ UNCHANGED <<disk, writable, up, promised>>
    BY <1>2 DEF RecordQuery, Request
  <2>3. Tidy(mem.shelf)' /\ Tidy(disk.shelf)'
    BY <2>1, <2>2 DEF Tidy
  <2>4. StoreTypeOK'
    BY <2>1, <2>2
  <2>5. VersionsOrdered' /\ StoppedIsQuiet'
    BY <1>v, <2>1, <2>2
  <2> QED BY <2>3, <2>4, <2>5
<1>3. CASE TimerFires
  <2>1. disk' \in {disk, mem} /\ pending' = {} /\ missed' = ~writable
        /\ UNCHANGED <<mem, writable, up, promised>>
    BY <1>3 DEF TimerFires, Written, Encoded
  <2>2. Tidy(mem.shelf)' /\ Tidy(disk.shelf)'
    BY <2>1 DEF Tidy
  <2> QED BY <1>v, <2>1, <2>2
<1>4. CASE Shutdown
  <2>1. disk' \in {disk, mem} /\ pending' = {} /\ up' = "stopped"
        /\ UNCHANGED <<mem, writable, promised, missed>>
    BY <1>4 DEF Shutdown, Flushed, Written
  <2>2. Tidy(mem.shelf)' /\ Tidy(disk.shelf)'
    BY <2>1 DEF Tidy
  <2> QED BY <1>v, <2>1, <2>2
<1>5. CASE Crash
  BY <1>5 DEF Crash, Tidy
<1>6. CASE Start
  <2>1. mem' = disk /\ disk' = disk /\ up' = "up" /\ missed' = FALSE
        /\ UNCHANGED <<pending, writable, promised>>
    BY <1>6 DEF Start
  <2>2. Tidy(mem.shelf)' /\ Tidy(disk.shelf)'
    BY <2>1 DEF Tidy
  <2>3. StoreTypeOK'
    BY <2>1
  <2>4. VersionsOrdered' /\ StoppedIsQuiet'
    BY <1>v, <2>1
  <2> QED BY <2>2, <2>3, <2>4
<1>7. CASE DiskChanges
  BY <1>7 DEF DiskChanges, Tidy
<1>8. CASE UNCHANGED storeVars
  BY <1>8 DEF storeVars, Tidy
<1> QED BY <1>1, <1>2, <1>3, <1>4, <1>5, <1>6, <1>7, <1>8 DEF StoreNext

\* The types, and the shelf within its cap, for any instance.
THEOREM ResumeTypeCorrect == StoreSpec => [](StoreTypeOK /\ ShelfBounded)
<1>1. ResumeInv => StoreTypeOK /\ ShelfBounded
  BY DEF ResumeInv, Tidy, ShelfBounded
<1> QED BY <1>1, ResumeInit, ResumeStep, PTL DEF StoreSpec

\* What a Stopped report wrote is never replaced by anything older.
THEOREM StoppedIsDurable == StoreSpec => []StoppedSurvives
<1>1. ResumeInv => StoppedSurvives
  BY DEF ResumeInv, StoreTypeOK, Store, VersionsOrdered, StoppedSurvives
<1> QED BY <1>1, ResumeInit, ResumeStep, PTL DEF StoreSpec

\* "Latest wins": whatever timer, report or shutdown writes, the file never
\* goes back.
THEOREM LatestWins == StoreSpec => DiskNeverRegresses
<1>1. ResumeInv /\ [StoreNext]_storeVars => [disk'.ver >= disk.ver]_storeVars
  <2> SUFFICES ASSUME ResumeInv, StoreNext PROVE disk'.ver >= disk.ver
    BY DEF storeVars
  <2>1. mem.ver \in Nat /\ disk.ver \in Nat /\ disk.ver <= mem.ver
    BY DEF ResumeInv, StoreTypeOK, Store, VersionsOrdered
  <2>2. ASSUME NEW i \in Items, NEW pos \in Positions, NEW hasRuntime \in BOOLEAN,
               NEW stopped \in BOOLEAN, Report(i, pos, hasRuntime, stopped)
        PROVE  disk'.ver >= disk.ver
    <3>1. ResumeInv' /\ disk' \in {disk, mem'}
      BY <2>2, ReportStep
    <3>2. mem'.ver = mem.ver + 1
      BY <2>2, RecordedFacts DEF Report
    <3> QED BY <2>1, <3>1, <3>2
  <2>3. CASE ~(\E i \in Items, pos \in Positions, hasRuntime, stopped \in BOOLEAN :
                Report(i, pos, hasRuntime, stopped))
    <3>1. disk' \in {disk, mem}
      BY <2>3 DEF StoreNext, RecordQuery, TimerFires, Shutdown, Crash, Start, DiskChanges,
         Written, Encoded, Flushed
    <3> QED BY <2>1, <3>1
  <2> QED BY <2>2, <2>3
<1> QED BY <1>1, ResumeInit, ResumeStep, PTL DEF StoreSpec, DiskNeverRegresses

\* Every step is a step of the durable state, or none of its business.
THEOREM Durability == StoreSpec => ImplementsDurable
<1>1. StoreInit => Durable!Init
  BY DEF StoreInit, Durable!Init
<1>2. ResumeInv /\ [StoreNext]_storeVars => [Durable!Next]_<<mem, disk, up = "up">>
  <2> SUFFICES ASSUME ResumeInv, StoreNext
               PROVE  Durable!Next \/ UNCHANGED <<mem, disk, up = "up">>
    BY DEF storeVars
  <2> USE DEF Durable!Next, Durable!Change, Durable!Save, Durable!Stop, Durable!Start
  <2>1. ASSUME NEW i \in Items, NEW pos \in Positions, NEW hasRuntime \in BOOLEAN,
               NEW stopped \in BOOLEAN, Report(i, pos, hasRuntime, stopped)
        PROVE  Durable!Next
    <3>1. ResumeInv' /\ disk' \in {disk, mem'}
      BY <2>1, ReportStep
    <3>2. mem' \in Store
      BY <3>1 DEF ResumeInv, StoreTypeOK
    <3> QED BY <2>1, <3>1, <3>2 DEF Report
  <2>2. CASE RecordQuery
    <3>1. mem' \in Store
      BY <2>2 DEF RecordQuery, ResumeInv, StoreTypeOK, Store
    <3> QED BY <2>2, <3>1 DEF RecordQuery
  <2>3. CASE TimerFires
    BY <2>3 DEF TimerFires, Written, Encoded
  <2>4. CASE Shutdown
    BY <2>4 DEF Shutdown, Flushed, Written
  <2>5. CASE Crash
    BY <2>5 DEF Crash
  <2>6. CASE Start
    BY <2>6 DEF Start
  <2>7. CASE DiskChanges
    BY <2>7 DEF DiskChanges
  <2> QED BY <2>1, <2>2, <2>3, <2>4, <2>5, <2>6, <2>7 DEF StoreNext
<1> QED BY <1>1, <1>2, ResumeInit, ResumeStep, PTL DEF StoreSpec, Durable!Spec, ImplementsDurable

-----------------------------------------------------------------------------
\* Without a write pending, the file holds the store unless a write was refused.
NothingWaits == up = "up" /\ pending = {} => disk = mem \/ missed

\* Whatever leaves nothing pending has written, or has met a disk that refuses.
LEMMA WaitStep == ResumeInv /\ NothingWaits /\ [StoreNext]_storeVars => NothingWaits'
<1> SUFFICES ASSUME ResumeInv, NothingWaits, [StoreNext]_storeVars PROVE NothingWaits'
  OBVIOUS
<1>1. ASSUME NEW i \in Items, NEW pos \in Positions, NEW hasRuntime \in BOOLEAN,
             NEW stopped \in BOOLEAN, Report(i, pos, hasRuntime, stopped)
      PROVE  NothingWaits'
  <2>1. CASE stopped
    BY <1>1, <2>1 DEF Report, WriteNow, Written, NothingWaits
  <2>2. CASE ~stopped
    BY <1>1, <2>2 DEF Report, Request, NothingWaits
  <2> QED BY <2>1, <2>2
<1>2. CASE RecordQuery
  BY <1>2 DEF RecordQuery, Request, NothingWaits
<1>3. CASE TimerFires
  BY <1>3 DEF TimerFires, Written, Encoded, NothingWaits
<1>4. CASE Shutdown \/ Crash
  BY <1>4 DEF Shutdown, Crash, NothingWaits
<1>5. CASE Start
  BY <1>5 DEF Start, NothingWaits
<1>6. CASE DiskChanges \/ UNCHANGED storeVars
  BY <1>6 DEF DiskChanges, storeVars, NothingWaits
<1> QED BY <1>1, <1>2, <1>3, <1>4, <1>5, <1>6 DEF StoreNext

\* A clean shutdown with a working disk loses nothing, unless the last write
\* asked for was refused.
THEOREM CleanShutdown == StoreSpec => ShutdownLosesNothing
<1>1. StoreInit => NothingWaits
  BY DEF StoreInit, NothingWaits
<1>2. NothingWaits /\ [StoreNext]_storeVars =>
        [up' = "stopped" /\ up = "up" /\ writable => disk' = mem \/ missed]_storeVars
  <2> SUFFICES ASSUME NothingWaits, StoreNext, up' = "stopped", up = "up", writable
               PROVE  disk' = mem \/ missed
    OBVIOUS
  <2>1. Shutdown
    BY DEF StoreNext, Report, RecordQuery, TimerFires, Crash, Start, DiskChanges
  <2> QED BY <2>1 DEF Shutdown, Flushed, Written, NothingWaits
<1> QED BY <1>1, <1>2, ResumeInit, ResumeStep, WaitStep, PTL DEF StoreSpec, ShutdownLosesNothing

-----------------------------------------------------------------------------
(* The home and its warms.                                                     *)

\* A warm that has not started has no task left that could land a profile.
IdleWarmsRest == \A w \in Warms : warm[w].phase = "idle" => warm[w].todo = {}

HealingInv ==
    /\ TypeOK /\ IdleWarmsRest
    /\ PartlySweptIsHealing /\ OldTasteIsHealing /\ TimelyProfilesSurface

USE DEF BuildPhases, WarmPhases, IdleBuild, IdleWarm

-----------------------------------------------------------------------------
\* Nothing is cached at first, so nothing needs to heal.
THEOREM HealingInit == Init => HealingInv
BY HomeBounds DEF Init, HealingInv, TypeOK, IdleWarmsRest, PartlySweptIsHealing,
                  OldTasteIsHealing, TimelyProfilesSurface

\* A step that changes neither the home, the builds, the warms, nor what the
\* home is measured against preserves the healing part.
LEMMA HealingUnchanged ==
    ASSUME HealingInv, UNCHANGED <<home, build, warm, profiles, taste, strayed>>
    PROVE  PartlySweptIsHealing' /\ OldTasteIsHealing' /\ TimelyProfilesSurface'
BY DEF HealingInv, PartlySweptIsHealing, OldTasteIsHealing, TimelyProfilesSurface, Healing

\* What a landing leaves: one snapshot, built from the current taste and profiles.
LEMMA LandFacts ==
    ASSUME TypeOK, NEW b \in Builds, NEW swept \in BOOLEAN, Land(b, swept)
    PROVE  /\ home' \in SUBSET Snapshot /\ \A s, t \in home' : s = t
           /\ file' \in SUBSET Snapshot /\ \A s, t \in file' : s = t
           /\ \A s \in home' : s.swept = swept /\ s.taste = taste /\ s.profiles = profiles
<1> DEFINE s == [edition |-> build[b].edition, taste |-> taste,
                 profiles |-> profiles, swept |-> swept]
<1>1. s \in Snapshot
  BY DEF TypeOK, Snapshot
<1>2. home' = {s} /\ file' \in {{s}, file}
  BY DEF Land
<1>3. s.swept = swept /\ s.taste = taste /\ s.profiles = profiles
  OBVIOUS
<1> HIDE DEF s
<1> QED  BY <1>1, <1>2, <1>3 DEF TypeOK

\* A warm that starts is well typed and has added nothing yet.
LEMMA StartWarmFacts ==
    ASSUME TypeOK, IdleWarmsRest, StartWarm
    PROVE  /\ warm' \in [Warms -> [phase: WarmPhases, todo: SUBSET Groups, added: BOOLEAN]]
           /\ IdleWarmsRest'
BY DEF StartWarm, TypeOK, IdleWarmsRest

\* Every step of every coroutine keeps the home clean or healing.
THEOREM HealingStep == HealingInv /\ [Next]_vars => HealingInv'
<1> SUFFICES ASSUME HealingInv, [Next]_vars PROVE HealingInv'
  OBVIOUS
<1>0. TypeOK /\ IdleWarmsRest /\ PartlySweptIsHealing /\ OldTasteIsHealing /\ TimelyProfilesSurface
  BY DEF HealingInv
<1>1. ASSUME NEW b \in Builds, LoadHome(b) PROVE HealingInv'
  <2>1. TypeOK'
    BY <1>0, <1>1 DEF LoadHome, StartBuild, TypeOK
  <2>2. Healing'
    BY <1>0, <1>1 DEF LoadHome, StartBuild, Healing, TypeOK
  <2>3. IdleWarmsRest'
    BY <1>0, <1>1 DEF LoadHome, IdleWarmsRest
  <2> QED  BY <2>1, <2>2, <2>3 DEF HealingInv, PartlySweptIsHealing, OldTasteIsHealing,
                                   TimelyProfilesSurface
<1>2. ASSUME NEW b \in Builds, Fetched(b) PROVE HealingInv'
  <2>1. TypeOK'
    BY <1>0, <1>2 DEF Fetched, TypeOK
  <2>2. Healing'
    BY <1>0, <1>2 DEF Fetched, Healing, TypeOK
  <2>3. IdleWarmsRest'
    BY <1>0, <1>2 DEF Fetched, IdleWarmsRest
  <2> QED  BY <2>1, <2>2, <2>3 DEF HealingInv, PartlySweptIsHealing, OldTasteIsHealing,
                                   TimelyProfilesSurface
<1>3. ASSUME NEW b \in Builds, SweepDone(b) \/ LateSweepDone(b) PROVE HealingInv'
  <2>1. /\ Land(b, TRUE) /\ StartWarm
        /\ build' = [build EXCEPT ![b] = IdleBuild]
        /\ UNCHANGED <<edition, profiles, taste, restarts, strayed>>
    BY <1>3 DEF SweepDone, LateSweepDone
  <2>2. TypeOK'
    <3>1. build' \in [Builds -> [phase: BuildPhases, edition: 0..MaxEdition]]
      BY <1>0, <2>1, HomeBounds DEF TypeOK
    <3> QED  BY <1>0, <2>1, <3>1, LandFacts, StartWarmFacts DEF TypeOK
  <2>3. \A s \in home' : s.swept /\ s.taste = taste' /\ s.profiles = profiles'
    BY <1>0, <2>1, LandFacts
  <2>4. IdleWarmsRest'
    BY <1>0, <2>1, StartWarmFacts
  <2> QED  BY <2>2, <2>3, <2>4 DEF HealingInv, PartlySweptIsHealing, OldTasteIsHealing,
                                   TimelyProfilesSurface
<1>4. ASSUME NEW b \in Builds, SweepTimeout(b) PROVE HealingInv'
  <2>1. /\ Land(b, FALSE) /\ StartWarm
        /\ build' = [build EXCEPT ![b].phase = "late"]
        /\ UNCHANGED <<edition, profiles, taste, restarts, strayed>>
    BY <1>4 DEF SweepTimeout, KeepStragglers
  <2>2. TypeOK'
    <3>1. build' \in [Builds -> [phase: BuildPhases, edition: 0..MaxEdition]]
      BY <1>0, <2>1 DEF TypeOK
    <3> QED  BY <1>0, <2>1, <3>1, LandFacts, StartWarmFacts DEF TypeOK
  <2>3. Healing'
    BY <1>0, <2>1 DEF Healing, TypeOK
  <2>4. IdleWarmsRest'
    BY <1>0, <2>1, StartWarmFacts
  <2> QED  BY <2>2, <2>3, <2>4 DEF HealingInv, PartlySweptIsHealing, OldTasteIsHealing,
                                   TimelyProfilesSurface
<1>5. ASSUME NEW w \in Warms, NEW g \in Groups, ProfileLands(w, g) PROVE HealingInv'
  <2>1. /\ g \in warm[w].todo
        /\ profiles' = profiles \cup {g}
        /\ strayed' = IF warm[w].phase = "late" /\ g \notin profiles
                      THEN strayed \cup {g} ELSE strayed
        /\ warm' = [warm EXCEPT ![w].todo = @ \ {g}, ![w].added = TRUE]
        /\ UNCHANGED <<edition, home, file, build, taste, restarts>>
    BY <1>5 DEF ProfileLands
  <2>2. TypeOK'
    BY <1>0, <2>1 DEF TypeOK
  <2>3. PartlySweptIsHealing' /\ OldTasteIsHealing'
    BY <1>0, <2>1 DEF PartlySweptIsHealing, OldTasteIsHealing, Healing
  <2>4. \A v \in Warms : warm[v].phase = "running" /\ warm[v].added =>
                           warm'[v].phase = "running" /\ warm'[v].added
    BY <1>0, <2>1 DEF TypeOK
  <2>5. TimelyProfilesSurface'
    <3>1. CASE warm[w].phase = "running"
      <4>1. warm'[w].phase = "running" /\ warm'[w].added
        BY <1>0, <2>1, <3>1 DEF TypeOK
      <4> QED  BY <4>1 DEF TimelyProfilesSurface
    <3>2. CASE warm[w].phase = "late" /\ g \notin profiles
      <4>1. profiles' \ strayed' \subseteq profiles \ strayed
        BY <2>1, <3>2
      <4> QED  BY <1>0, <2>1, <2>4, <4>1 DEF TimelyProfilesSurface, Healing
    <3>3. CASE g \in profiles /\ warm[w].phase # "running"
      <4>1. profiles' \ strayed' \subseteq profiles \ strayed
        BY <2>1, <3>3
      <4> QED  BY <1>0, <2>1, <2>4, <4>1 DEF TimelyProfilesSurface, Healing
    <3> QED  BY <1>0, <2>1, <3>1, <3>2, <3>3 DEF TypeOK, IdleWarmsRest
  <2>6. IdleWarmsRest'
    BY <1>0, <2>1 DEF IdleWarmsRest, TypeOK
  <2> QED  BY <2>2, <2>3, <2>5, <2>6 DEF HealingInv
<1>6. ASSUME NEW w \in Warms, NEW g \in Groups, ProfileFails(w, g) PROVE HealingInv'
  <2>1. /\ warm' = [warm EXCEPT ![w].todo = @ \ {g}]
        /\ UNCHANGED <<edition, home, file, build, profiles, taste, restarts, strayed>>
    BY <1>6 DEF ProfileFails
  <2>2. TypeOK'
    BY <1>0, <2>1 DEF TypeOK
  <2>3. PartlySweptIsHealing' /\ OldTasteIsHealing' /\ IdleWarmsRest'
    BY <1>0, <2>1 DEF PartlySweptIsHealing, OldTasteIsHealing, Healing, IdleWarmsRest, TypeOK
  <2>4. \A v \in Warms : warm[v].phase = "running" /\ warm[v].added =>
                           warm'[v].phase = "running" /\ warm'[v].added
    BY <1>0, <2>1 DEF TypeOK
  <2>5. TimelyProfilesSurface'
    BY <1>0, <2>1, <2>4 DEF TimelyProfilesSurface, Healing
  <2> QED  BY <2>2, <2>3, <2>5 DEF HealingInv
<1>7. ASSUME NEW w \in Warms, WarmReturns(w) PROVE HealingInv'
  <2>1. /\ warm[w].phase = "running"
        /\ home' = IF warm[w].added THEN {} ELSE home
        /\ warm' = [warm EXCEPT ![w] = IF warm[w].todo = {} THEN IdleWarm
                                       ELSE [warm[w] EXCEPT !.phase = "late"]]
        /\ UNCHANGED <<edition, file, build, profiles, taste, restarts, strayed>>
    BY <1>7 DEF WarmReturns, ShouldInvalidate
  <2>2. warm' \in [Warms -> [phase: WarmPhases, todo: SUBSET Groups, added: BOOLEAN]]
    BY <1>0, <2>1 DEF TypeOK
  <2>3. TypeOK'
    BY <1>0, <2>1, <2>2 DEF TypeOK
  <2>4. IdleWarmsRest'
    BY <1>0, <2>1 DEF IdleWarmsRest, TypeOK
  <2>5. CASE warm[w].added
    BY <2>1, <2>3, <2>4, <2>5 DEF HealingInv, PartlySweptIsHealing, OldTasteIsHealing,
                                  TimelyProfilesSurface
  <2>6. CASE ~warm[w].added
    <3>1. \A v \in Warms : warm[v].phase = "running" /\ warm[v].added =>
                             warm'[v].phase = "running" /\ warm'[v].added
      BY <1>0, <2>1, <2>6 DEF TypeOK
    <3>2. TimelyProfilesSurface'
      BY <1>0, <2>1, <2>6, <3>1 DEF TimelyProfilesSurface, Healing
    <3>3. PartlySweptIsHealing' /\ OldTasteIsHealing'
      BY <1>0, <2>1, <2>6 DEF PartlySweptIsHealing, OldTasteIsHealing, Healing
    <3> QED  BY <2>3, <2>4, <3>2, <3>3 DEF HealingInv
  <2> QED  BY <2>5, <2>6
<1>8. ASSUME NEW w \in Warms, WarmOver(w) PROVE HealingInv'
  <2>1. /\ warm[w].phase = "late"
        /\ warm' = [warm EXCEPT ![w] = IdleWarm]
        /\ UNCHANGED <<edition, home, file, build, profiles, taste, restarts, strayed>>
    BY <1>8 DEF WarmOver
  <2>2. TypeOK' /\ IdleWarmsRest'
    BY <1>0, <2>1 DEF TypeOK, IdleWarmsRest
  <2>3. \A v \in Warms : warm[v].phase = "running" /\ warm[v].added =>
                           warm'[v].phase = "running" /\ warm'[v].added
    BY <1>0, <2>1 DEF TypeOK
  <2>4. TimelyProfilesSurface'
    BY <1>0, <2>1, <2>3 DEF TimelyProfilesSurface, Healing
  <2>5. PartlySweptIsHealing' /\ OldTasteIsHealing'
    BY <1>0, <2>1 DEF PartlySweptIsHealing, OldTasteIsHealing, Healing
  <2> QED  BY <2>2, <2>4, <2>5 DEF HealingInv
<1>9. CASE RefreshTaste \/ HomeExpires \/ Restart
  <2>1. home' = {}
    BY <1>9 DEF RefreshTaste, DropHome, HomeExpires, Restart
  <2>2. TypeOK'
    <3>1. CASE RefreshTaste
      BY <1>0, <3>1, HomeBounds DEF RefreshTaste, DropHome, TypeOK
    <3>2. CASE HomeExpires
      BY <1>0, <3>2 DEF HomeExpires, TypeOK
    <3>3. CASE Restart
      <4>1. build' \in [Builds -> [phase: BuildPhases, edition: 0..MaxEdition]]
        BY <3>3, HomeBounds DEF Restart
      <4>2. warm' \in [Warms -> [phase: WarmPhases, todo: SUBSET Groups, added: BOOLEAN]]
        BY <3>3 DEF Restart
      <4> QED  BY <1>0, <3>3, <4>1, <4>2, HomeBounds DEF Restart, TypeOK
    <3> QED  BY <1>9, <3>1, <3>2, <3>3
  <2>3. IdleWarmsRest'
    BY <1>0, <1>9 DEF RefreshTaste, HomeExpires, Restart, IdleWarmsRest
  <2> QED  BY <2>1, <2>2, <2>3 DEF HealingInv, PartlySweptIsHealing, OldTasteIsHealing,
                                   TimelyProfilesSurface
<1>10. CASE UpstreamChanges
  <2>1. TypeOK' /\ IdleWarmsRest'
    BY <1>0, <1>10, HomeBounds DEF UpstreamChanges, TypeOK, IdleWarmsRest
  <2> QED  BY <1>10, <2>1, HealingUnchanged DEF UpstreamChanges, HealingInv
<1>11. CASE UNCHANGED vars
  <2>1. TypeOK' /\ IdleWarmsRest'
    BY <1>0, <1>11 DEF vars, TypeOK, IdleWarmsRest
  <2> QED  BY <1>11, <2>1, HealingUnchanged DEF vars, HealingInv
<1> QED  BY <1>1, <1>2, <1>3, <1>4, <1>5, <1>6, <1>7, <1>8, <1>9, <1>10, <1>11
         DEF Next, BuildStep, WarmStep

-----------------------------------------------------------------------------
\* The home, the file and every task keep their types for any number of tasks.
THEOREM HomeTypeCorrect == Spec => []TypeOK
<1>1. HealingInv => TypeOK
  BY DEF HealingInv
<1> QED  BY HealingInit, HealingStep, <1>1, PTL DEF Spec

\* Issue #168, for any number of overlapping builds: a home cached before its
\* gate sweep was over is being rebuilt or re-cached.
THEOREM SweepHeals == Spec => []PartlySweptIsHealing
<1>1. HealingInv => PartlySweptIsHealing
  BY DEF HealingInv
<1> QED  BY HealingInit, HealingStep, <1>1, PTL DEF Spec

\* A home of another taste is only ever served while a rebuild is on its way.
THEOREM TasteHeals == Spec => []OldTasteIsHealing
<1>1. HealingInv => OldTasteIsHealing
  BY DEF HealingInv
<1> QED  BY HealingInit, HealingStep, <1>1, PTL DEF Spec

\* A profile that lands inside its warm's timeout always reaches the rows.
THEOREM ProfilesHeal == Spec => []TimelyProfilesSurface
<1>1. HealingInv => TimelyProfilesSurface
  BY DEF HealingInv
<1> QED  BY HealingInit, HealingStep, <1>1, PTL DEF Spec

\* Whatever a served home lacks is on its way, for any number of tasks.
THEOREM StaleHeals == Spec => []StaleIsHealing
<1>1. HealingInv => StaleIsHealing
  BY DEF HealingInv, StaleIsHealing
<1> QED  BY HealingInit, HealingStep, <1>1, PTL DEF Spec
=============================================================================
