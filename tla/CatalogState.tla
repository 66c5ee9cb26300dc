---------------------------- MODULE CatalogState ----------------------------
(***************************************************************************)
(* The catalog snapshot's owner (ADR-0010): the resolution map beside the   *)
(* group index, the search registrations that outlive a replacement, the    *)
(* cached home and the persisted snapshot file.  Every method of the class  *)
(* is synchronous on the one event loop, so each is a single step here;     *)
(* HomeSnapshot models the coroutines that decide when they are called.     *)
(*                                                                          *)
(* A resolution map ({group_key: {provider: card}}) is a set of sources.    *)
(* A card is the number of the build that listed it, or SearchCard.  A      *)
(* deadline is the time left to it: `expires_at < now` is Left < 0.         *)
(***************************************************************************)
EXTENDS Integers

CONSTANTS
    Keys,       \* group keys
    Providers,  \* provider ids
    HomeTTL,    \* cache_home_s: home_cache and sources_cache
    SearchTTL,  \* cache_search_s: a registration's life
    MaxBuild    \* bound: builds that land in one behaviour

ASSUME TTLAssumption == HomeTTL \in Nat /\ SearchTTL \in Nat
ASSUME BuildAssumption == MaxBuild \in Nat

VARIABLES
    home,       \* home_cache: the rows' group keys and the time left
    map,        \* sources_cache: the resolution map and the time left
    index,      \* the group index: the layer that holds each key
    reg,        \* the registrations, one per key
    file,       \* the persisted snapshot; ok = it can be loaded
    builds,     \* builds landed so far (numbers the cards)
    snap        \* history: the rows and the map that replacements installed last

vars == <<home, map, index, reg, file, builds, snap>>

SearchCard == 0
Source == [key: Keys, pid: Providers, card: Nat]
Expired == -1
Dead == [src |-> {}, left |-> Expired]
NoFile == [ok |-> FALSE, rows |-> {}, src |-> {}]
NoHome == [rows |-> {}, left |-> Expired]

Layers == {"absent", "registered", "snapshot"}

TypeOK ==
    /\ home \in [rows: SUBSET Keys, left: -1..HomeTTL]
    /\ map \in [src: SUBSET Source, left: -1..HomeTTL]
    /\ index \in [Keys -> Layers]
    /\ reg \in [Keys -> [src: SUBSET Source, left: -1..SearchTTL]]
    /\ file \in [ok: BOOLEAN, rows: SUBSET Keys, src: SUBSET Source]
    /\ builds \in Nat
    /\ snap \in [rows: SUBSET Keys, src: SUBSET Source]

KeysOf(src) == {s.key : s \in src}

\* for pid, card in extra.items(): target.setdefault(pid, card)
Fill(src, extra) ==
    src \cup {e \in extra : ~ \E s \in src : s.key = e.key /\ s.pid = e.pid}

HomeCached == home.left >= 0

\* CatalogState.sources(): an expired map reads as an empty one.
Sources == IF map.left >= 0 THEN map.src ELSE {}

Live(k) == reg[k].left >= 0

\* Mistake: a registration is merged whatever its age.
EveryRegistration == UNION {reg[k].src : k \in Keys}

\* _live_registrations()
LiveRegistrations == UNION {reg[k].src : k \in {l \in Keys : Live(l)}}

\* Mistake: the map is replaced whole, as before ADR-0010.
ReplacedMap(src) == src

\* What a replacement installs: the snapshot's map, the live registrations
\* merged in first-seen.
MergedMap(src) == Fill(src, LiveRegistrations)

\* Mistake: what is persisted is the merged map.
MergedFile(rows, src) == [ok |-> TRUE, rows |-> rows, src |-> MergedMap(src)]

SnapshotFile(rows, src) == [ok |-> TRUE, rows |-> rows, src |-> src]

-----------------------------------------------------------------------------
NoKeys == [k \in Keys |-> "absent"]
NoRegistrations == [k \in Keys |-> Dead]
NoSnapshot == [rows |-> {}, src |-> {}]

Init ==
    /\ home = NoHome
    /\ map = Dead
    /\ index = NoKeys
    /\ reg = NoRegistrations
    /\ snap = NoSnapshot
    /\ file = NoFile
    /\ builds = 0

\* A snapshot without a map (sources is None) leaves the resolution map alone.
ApplySnapshot(rows, src, hasMap) ==
    /\ home' = [rows |-> rows, left |-> HomeTTL]
    /\ map' = IF hasMap
              THEN [src |-> MergedMap(src), left |-> HomeTTL]
              ELSE map
    /\ index' = [k \in Keys |-> IF k \in rows THEN "snapshot"
                                ELSE IF Live(k) THEN "registered"
                                ELSE "absent"]
    /\ reg' = [k \in Keys |-> IF Live(k) THEN reg[k] ELSE Dead]
    /\ snap' = [rows |-> rows, src |-> IF hasMap THEN src ELSE snap.src]

\* load_home() on a miss with a readable file: the stale snapshot is installed
\* at once.  A file with an empty map decodes to sources = None.
LoadPersisted ==
    /\ ~HomeCached
    /\ file.ok
    /\ ApplySnapshot(file.rows, file.src, file.src # {})
    /\ UNCHANGED <<file, builds>>

\* _cache_home(): the listings of a build land.  The rows are capped, so they
\* carry some of the listed keys.  The file is replaced whole by the snapshot's
\* own map, or not at all when the write fails (it is logged, never raised).
BuildLands(listed, rows) ==
    LET src == {[key |-> l[1], pid |-> l[2], card |-> builds + 1] : l \in listed}
    IN  /\ builds < MaxBuild
        /\ rows \subseteq KeysOf(src)
        /\ builds' = builds + 1
        /\ ApplySnapshot(rows, src, TRUE)
        /\ \/ file' = SnapshotFile(rows, src)
           \/ UNCHANGED file

\* What one search group contributes: its provider union under every member key.
GroupUnion(members, pids) ==
    [key: members, pid: pids, card: {SearchCard}]

\* Mistake: the registration records the map's entry for the key (the shape
\* before audit finding 4).
RegisteredEntry(k, union) ==
    Fill(IF Live(k) THEN reg[k].src ELSE {}, {s \in Fill(Sources, union) : s.key = k})

\* The search layer's own union for a key, with a live earlier registration's.
Registered(k, union) ==
    Fill(IF Live(k) THEN reg[k].src ELSE {}, {s \in union : s.key = k})

\* Mistake: the search's groups replace the map.
UnionOnly(union) == union

MapWith(union) == Fill(Sources, union)

\* Mistake: a search takes over the entry of a key the snapshot carries.
TakenOver(members) ==
    [k \in Keys |-> IF k \in members THEN "registered" ELSE index[k]]

\* `if key not in self._index`
IndexWith(members) ==
    [k \in Keys |-> IF k \in members /\ index[k] = "absent"
                    THEN "registered" ELSE index[k]]

\* register_search(): only a change re-sets the map, and so refreshes its life.
RegisterSearch(members, pids) ==
    LET union == GroupUnion(members, pids)
        changed == MapWith(union) # Sources \/ IndexWith(members) # index
    IN  /\ map' = IF changed THEN [src |-> MapWith(union), left |-> HomeTTL] ELSE map
        /\ index' = IndexWith(members)
        /\ reg' = [k \in Keys |-> IF k \in members
                                  THEN [src |-> Registered(k, union), left |-> SearchTTL]
                                  ELSE reg[k]]
        /\ UNCHANGED <<home, file, builds, snap>>

\* invalidate(): the sanctioned clear (a profile warm, a taste refresh).
Invalidate ==
    /\ home' = NoHome
    /\ UNCHANGED <<map, index, reg, file, builds, snap>>

Elapse(left) == IF left >= 0 THEN left - 1 ELSE left

Tick ==
    /\ home' = [home EXCEPT !.left = Elapse(@)]
    /\ map' = [map EXCEPT !.left = Elapse(@)]
    /\ reg' = [k \in Keys |-> [reg[k] EXCEPT !.left = Elapse(@)]]
    /\ UNCHANGED <<index, file, builds, snap>>

\* The process dies and starts again: only the file survives.
Restart ==
    /\ home' = NoHome
    /\ map' = Dead
    /\ index' = NoKeys
    /\ reg' = NoRegistrations
    /\ snap' = NoSnapshot
    /\ UNCHANGED <<file, builds>>

Next ==
    \/ LoadPersisted
    \/ \E listed \in SUBSET (Keys \X Providers), rows \in SUBSET Keys :
          BuildLands(listed, rows)
    \/ \E members \in (SUBSET Keys) \ {{}}, pids \in (SUBSET Providers) \ {{}} :
          RegisterSearch(members, pids)
    \/ Invalidate
    \/ Tick
    \/ Restart

Spec == Init /\ [][Next]_vars

-----------------------------------------------------------------------------
\* Every card of a home that load_home() still serves can be opened: its key
\* resolves in the map for as long as the rows are cached, whatever searches,
\* invalidations and replacements happen in between.
CachedHomeResolves ==
    HomeCached => home.rows \subseteq KeysOf(Sources)

\* The layers agree: the snapshot's keys are exactly the keys of the last
\* snapshot's rows (a search never takes a key over), and a live registration
\* is always indexed.
LayersAgree ==
    /\ \A k \in Keys : index[k] = "snapshot" <=> k \in snap.rows
    /\ \A k \in Keys : Live(k) => index[k] # "absent"

\* Audit finding 4: no snapshot card outlives the snapshot that chose it.  Any
\* card of the map is the installed snapshot's or a search's, and a registration
\* holds search cards only.
NoCardRidesForward ==
    /\ \A s \in Sources : s.card # SearchCard => s \in snap.src
    /\ \A k \in Keys : Live(k) =>
          \A s \in reg[k].src : s.key = k /\ s.card = SearchCard

\* Audit finding 2: what is on disk is a snapshot's own map, so a restart never
\* brings a search's expired promise back.
FileIsPureSnapshot == \A s \in file.src : s.card # SearchCard

\* The snapshot and the registrations stay apart: in the index, in the map and
\* in the file.
LayersApart == LayersAgree /\ NoCardRidesForward /\ FileIsPureSnapshot

Answers(src, k, p) == \E s \in src : s.key = k /\ s.pid = p

\* Issue #420: no step of the running process but the passing of time takes an
\* actionable search result away.  A source a live registration owns, and that
\* resolves, still does after any replacement, invalidation or other search.
KeepsPromises ==
    \A k \in Keys : Live(k) /\ Live(k)' /\ reg[k].left <= reg'[k].left =>
        \A s \in reg[k].src : Answers(Sources, k, s.pid) => Answers(Sources', k, s.pid)

PromisesSurvive == [][KeepsPromises]_vars

\* ADR-0010: a replacement retires what has aged out.  Once a snapshot with a
\* map is installed, every search card left in the map belongs to a live
\* registration, and every key without a row is indexed for one.
Retires ==
    snap'.src \notin {snap.src, {}} =>
        /\ \A s \in Sources' : s.card = SearchCard => reg'[s.key].left >= 0
        /\ \A k \in Keys : index'[k] = "registered" => Live(k)'

ReplacementRetires == [][Retires]_vars
=============================================================================
