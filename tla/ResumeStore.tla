---------------------------- MODULE ResumeStore ----------------------------
(***************************************************************************)
(* The playback resume store over AsyncDebouncedSave: reports that finish   *)
(* items or shelve them, the debounced write of a heartbeat, the immediate  *)
(* write of a Stopped report, a disk that may refuse a write, shutdown and  *)
(* crash.                                                                   *)
(*                                                                          *)
(* Every item has the same runtime; a position at or above FinishAt is past *)
(* FINISHED_FRACTION of it.  The shelf is a sequence, least recently        *)
(* updated first (updated_at is the wall clock, taken as increasing).       *)
(***************************************************************************)
EXTENDS Naturals, Sequences

CONSTANTS
    Items,       \* item ids
    Positions,   \* the positions reported
    FinishAt,    \* the first position that counts as watched to the end
    MaxItems,    \* MAX_ITEMS
    MaxReports   \* bound: mutations in one behaviour

ASSUME ResumeAssumption ==
    /\ Positions \subseteq Nat \ {0}
    /\ FinishAt \in Nat
    /\ MaxItems \in Nat \ {0}
    /\ MaxReports \in Nat

VARIABLES
    mem,        \* the store in memory
    disk,       \* its file
    pending,    \* AsyncDebouncedSave: the payload of the armed timer, as a set
    writable,   \* whether a write to the disk succeeds now
    up,         \* the process
    promised,   \* history: the version of the last Stopped report written
    missed      \* history: the last write failed, and nothing was asked since

storeVars == <<mem, disk, pending, writable, up, promised, missed>>

Entry == [id: Items, pos: Positions, runtime: BOOLEAN]
Store == [shelf: Seq(Entry), finished: SUBSET Items, ver: Nat]
EmptyStore == [shelf |-> <<>>, finished |-> {}, ver |-> 0]

StoreTypeOK ==
    /\ mem \in Store
    /\ disk \in Store
    /\ pending \in SUBSET Store
    /\ \A s, t \in pending : s = t
    /\ writable \in BOOLEAN
    /\ up \in {"up", "stopped", "crashed"}
    /\ promised \in Nat
    /\ missed \in BOOLEAN

StoreInit ==
    /\ mem = EmptyStore
    /\ disk = EmptyStore
    /\ pending = {}
    /\ writable = TRUE
    /\ up = "up"
    /\ promised = 0
    /\ missed = FALSE

-----------------------------------------------------------------------------
\* VersionedFileStore.save(): the whole store or, with a warning, nothing.
Written(store) == IF writable THEN store ELSE disk

At(shelf, i) == {n \in DOMAIN shelf : shelf[n].id = i}

Without(shelf, n) == [k \in 1..(Len(shelf) - 1) |-> shelf[IF k < n THEN k ELSE k + 1]]

\* The shelf without an item, which is on it once or not at all.
Others(shelf, i) ==
    IF At(shelf, i) = {} THEN shelf ELSE Without(shelf, CHOOSE n \in At(shelf, i) : TRUE)

RuntimeKnown(i) == \E n \in At(mem.shelf, i) : mem.shelf[n].runtime

\* _cap(): the least recently updated entry goes.
Cap(shelf) == IF Len(shelf) > MaxItems THEN Tail(shelf) ELSE shelf

Finished(i) == [shelf |-> Others(mem.shelf, i), finished |-> mem.finished \cup {i},
                ver |-> mem.ver + 1]

Shelved(i, pos, known) ==
    [mem EXCEPT !.shelf = Cap(Append(Others(mem.shelf, i),
                                     [id |-> i, pos |-> pos, runtime |-> known])),
                !.ver = @ + 1]

\* record(): a runtime comes with the report or from the entry on the shelf.
Recorded(i, pos, hasRuntime) ==
    LET known == hasRuntime \/ RuntimeKnown(i)
    IN  IF known /\ pos >= FinishAt THEN Finished(i) ELSE Shelved(i, pos, known)

\* AsyncDebouncedSave.request(): the timer is armed anew for the payload.
Request(payload) == {payload}

\* Mistake: a Stopped report is debounced as well.
StoppedDebounced(store) ==
    /\ pending' = Request(store)
    /\ missed' = FALSE
    /\ UNCHANGED disk

\* A Stopped report is written inline; a debounce that is running goes on.
WriteNow(store) ==
    /\ disk' = Written(store)
    /\ missed' = ~writable
    /\ UNCHANGED pending

\* A Start, Progress or Stopped report reaches the store, in any order; a
\* position of zero is ignored there.
Report(i, pos, hasRuntime, stopped) ==
    LET store == Recorded(i, pos, hasRuntime)
    IN  /\ up = "up"
        /\ mem.ver < MaxReports
        /\ mem' = store
        /\ IF stopped
           THEN /\ WriteNow(store)
                /\ promised' = IF writable THEN store.ver ELSE promised
           ELSE /\ pending' = Request(store)
                /\ missed' = FALSE
                /\ UNCHANGED <<disk, promised>>
        /\ UNCHANGED <<writable, up>>

\* record_query(): the queries share the file (a version stands for them).
RecordQuery ==
    /\ up = "up"
    /\ mem.ver < MaxReports
    /\ mem' = [mem EXCEPT !.ver = @ + 1]
    /\ pending' = Request(mem')
    /\ missed' = FALSE
    /\ UNCHANGED <<disk, writable, up, promised>>

\* Mistake: what is written is the store as it was when the write was asked for.
Frozen(payload) == payload

\* The payload is the store itself: encoding reads its live state.
Encoded(payload) == mem

\* _write_pending(): the payload is consumed whether or not the write succeeds.
TimerFires ==
    /\ up = "up"
    /\ \E payload \in pending : disk' = Written(Encoded(payload))
    /\ pending' = {}
    /\ missed' = ~writable
    /\ UNCHANGED <<mem, writable, up, promised>>

\* Mistake: the shutdown cancels the timer and forgets its payload.
NoFlush == disk

\* flush(): a pending payload is written; without one there is nothing to write.
Flushed == IF pending = {} THEN disk ELSE Written(mem)

\* The lifespan's shutdown.
Shutdown ==
    /\ up = "up"
    /\ up' = "stopped"
    /\ disk' = Flushed
    /\ pending' = {}
    /\ UNCHANGED <<mem, writable, promised, missed>>

Crash ==
    /\ up = "up"
    /\ up' = "crashed"
    /\ pending' = {}
    /\ UNCHANGED <<mem, disk, writable, promised, missed>>

\* The process starts: the file is all that is left.
Start ==
    /\ up # "up"
    /\ up' = "up"
    /\ mem' = disk
    /\ missed' = FALSE
    /\ UNCHANGED <<disk, pending, writable, promised>>

DiskChanges ==
    /\ writable' = ~writable
    /\ UNCHANGED <<mem, disk, pending, up, promised, missed>>

StoreNext ==
    \/ \E i \in Items, pos \in Positions, hasRuntime, stopped \in BOOLEAN :
          Report(i, pos, hasRuntime, stopped)
    \/ RecordQuery
    \/ TimerFires
    \/ Shutdown
    \/ Crash
    \/ Start
    \/ DiskChanges

StoreSpec == StoreInit /\ [][StoreNext]_storeVars

-----------------------------------------------------------------------------
\* The shelf stays within its cap and shows an item once, in memory and after
\* any restart.
ShelfBounded ==
    \A store \in {mem, disk} :
        /\ Len(store.shelf) <= MaxItems
        /\ \A m, n \in DOMAIN store.shelf : store.shelf[m].id = store.shelf[n].id => m = n

\* "Latest wins": no write, immediate or delayed, puts an older store over a
\* newer one.
DiskNeverRegresses == [][disk'.ver >= disk.ver]_storeVars

\* "A Stopped report must be on disk before the request returns": it is there
\* after any crash, however the timers and later writes fall.
StoppedSurvives == disk.ver >= promised

\* A clean shutdown with a working disk loses nothing, unless the last write
\* asked for was refused.
ShutdownLosesNothing ==
    [][up' = "stopped" /\ up = "up" /\ writable => disk' = mem \/ missed]_storeVars

\* What the store does is what a persisted store promises.
Durable == INSTANCE DurableState
    WITH States <- Store, Empty <- EmptyStore,
         live <- mem, saved <- disk, on <- up = "up"

ImplementsDurable == Durable!Spec
=============================================================================
