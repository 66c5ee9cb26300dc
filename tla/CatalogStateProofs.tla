------------------------- MODULE CatalogStateProofs -------------------------
(***************************************************************************)
(* The catalog owner's safety for every set of keys and providers and every *)
(* pair of lives.  CatalogInv strengthens what the runs check: it speaks of *)
(* the map and of the registrations whether or not they have lapsed, and of *)
(* the file, because the next load installs it.                             *)
(***************************************************************************)
EXTENDS CatalogState, TLAPS

Pure(src) == \A s \in src : s.card = SearchCard

Functional(src) ==
    \A s, t \in src : s.key = t.key /\ s.pid = t.pid => s = t

FileInv ==
    /\ FileIsPureSnapshot
    /\ file.rows \subseteq KeysOf(file.src)
    /\ Functional(file.src)

RegInv == \A k \in Keys : \A s \in reg[k].src : s.key = k /\ s.card = SearchCard

MapInv ==
    /\ Functional(map.src)
    /\ \A s \in map.src : s.card # SearchCard => s \in snap.src
    /\ HomeCached /\ home.rows # {} =>
         map.left >= home.left /\ home.rows \subseteq KeysOf(map.src)

CatalogInv == TypeOK /\ FileInv /\ RegInv /\ MapInv /\ LayersAgree

-----------------------------------------------------------------------------
\* setdefault keeps what is there, adds only from the other map, leaves no key
\* of either uncovered, and keeps one card per provider.
LEMMA FillFacts ==
    ASSUME NEW a \in SUBSET Source, NEW b \in SUBSET Source
    PROVE  /\ Fill(a, b) \in SUBSET Source
           /\ a \subseteq Fill(a, b)
           /\ Fill(a, b) \subseteq a \cup b
           /\ KeysOf(a) \subseteq KeysOf(Fill(a, b))
           /\ Functional(a) /\ Functional(b) => Functional(Fill(a, b))
BY DEF Fill, KeysOf, Functional

\* What the live registrations contribute: search cards, one per key and provider.
LEMMA LiveFacts ==
    ASSUME TypeOK, RegInv
    PROVE  /\ LiveRegistrations \in SUBSET Source
           /\ Pure(LiveRegistrations)
           /\ Functional(LiveRegistrations)
<1>1. LiveRegistrations \in SUBSET Source
  BY DEF LiveRegistrations, TypeOK
<1>2. \A s \in LiveRegistrations : s.card = SearchCard
  BY DEF LiveRegistrations, RegInv
<1>3. \A s, t \in LiveRegistrations : s.key = t.key /\ s.pid = t.pid => s = t
  BY <1>1, <1>2 DEF Source
<1> QED  BY <1>1, <1>2, <1>3 DEF Pure, Functional

\* A cold process, with nothing cached or on disk, satisfies the invariant.
THEOREM InitInv == Init => CatalogInv
<1> SUFFICES ASSUME Init PROVE CatalogInv  OBVIOUS
<1> USE DEF Init, NoHome, Dead, NoFile, NoKeys, NoRegistrations, NoSnapshot, Expired
<1>1. TypeOK
  BY TTLAssumption DEF TypeOK, Layers
<1>2. FileInv
  BY DEF FileInv, FileIsPureSnapshot, KeysOf, Functional
<1>3. RegInv
  BY DEF RegInv
<1>4. MapInv
  BY DEF MapInv, Functional, HomeCached
<1>5. LayersAgree
  BY DEF LayersAgree, Live
<1> QED  BY <1>1, <1>2, <1>3, <1>4, <1>5 DEF CatalogInv

\* The one apply step preserves everything but the file's part, for any snapshot
\* whose map has cards of builds only, one per provider, and covers its rows.
LEMMA ApplyInv ==
    ASSUME CatalogInv,
           NEW rows \in SUBSET Keys, NEW src \in SUBSET Source, NEW hasMap \in BOOLEAN,
           rows \subseteq KeysOf(src), Functional(src),
           ~hasMap => src = {},
           ApplySnapshot(rows, src, hasMap)
    PROVE  /\ home' \in [rows: SUBSET Keys, left: -1..HomeTTL]
           /\ map' \in [src: SUBSET Source, left: -1..HomeTTL]
           /\ index' \in [Keys -> Layers]
           /\ reg' \in [Keys -> [src: SUBSET Source, left: -1..SearchTTL]]
           /\ snap' \in [rows: SUBSET Keys, src: SUBSET Source]
           /\ RegInv' /\ MapInv' /\ LayersAgree'
<1> USE DEF CatalogInv
<1>1. /\ LiveRegistrations \in SUBSET Source
      /\ Pure(LiveRegistrations)
      /\ Functional(LiveRegistrations)
  BY LiveFacts
<1> DEFINE merged == MergedMap(src)
<1>2. /\ merged \in SUBSET Source
      /\ KeysOf(src) \subseteq KeysOf(merged)
      /\ Functional(merged)
      /\ merged \subseteq src \cup LiveRegistrations
  BY <1>1, FillFacts DEF MergedMap
<1>3. home' \in [rows: SUBSET Keys, left: -1..HomeTTL]
  BY TTLAssumption DEF ApplySnapshot
<1>4. map' \in [src: SUBSET Source, left: -1..HomeTTL]
  BY <1>2, TTLAssumption DEF ApplySnapshot, TypeOK
<1>5. index' \in [Keys -> Layers]
  BY DEF ApplySnapshot, Layers
<1>6. reg' \in [Keys -> [src: SUBSET Source, left: -1..SearchTTL]]
  BY TTLAssumption DEF ApplySnapshot, TypeOK, Dead, Expired
<1>7. snap' \in [rows: SUBSET Keys, src: SUBSET Source]
  BY DEF ApplySnapshot, TypeOK
<1>8. RegInv'
  BY DEF ApplySnapshot, RegInv, Dead
<1>9. MapInv'
  <2>1. CASE hasMap
    <3>1. /\ map'.src = merged
          /\ map'.left = HomeTTL /\ home'.left = HomeTTL
          /\ home'.rows = rows
          /\ snap'.src = src
      BY <2>1 DEF ApplySnapshot
    <3>2. \A s \in merged : s.card # SearchCard => s \in src
      BY <1>1, <1>2 DEF Pure
    <3> HIDE DEF merged
    <3> QED  BY <3>1, <3>2, <1>2, TTLAssumption DEF MapInv, HomeCached, KeysOf, Functional
  <2>2. CASE ~hasMap
    <3>1. rows = {}
      BY <2>2 DEF KeysOf
    <3>2. map' = map /\ home'.rows = rows /\ snap'.src = snap.src
      BY <2>2 DEF ApplySnapshot
    <3> QED  BY <3>1, <3>2 DEF MapInv, Functional, KeysOf
  <2> QED  BY <2>1, <2>2
<1>10. LayersAgree'
  BY TTLAssumption DEF ApplySnapshot, LayersAgree, Live, Dead, Expired, TypeOK
<1> QED  BY <1>3, <1>4, <1>5, <1>6, <1>7, <1>8, <1>9, <1>10

\* Every method of the owner, the passing of time and a restart keep it.
THEOREM NextInv == CatalogInv /\ [Next]_vars => CatalogInv'
<1> SUFFICES ASSUME CatalogInv, [Next]_vars PROVE CatalogInv'  OBVIOUS
<1> USE DEF CatalogInv
<1>1. CASE LoadPersisted
  <2> DEFINE hasMap == file.src # {}
  <2>1. /\ file.rows \in SUBSET Keys /\ file.src \in SUBSET Source
        /\ file.rows \subseteq KeysOf(file.src) /\ Functional(file.src)
        /\ ApplySnapshot(file.rows, file.src, hasMap)
    BY <1>1 DEF LoadPersisted, TypeOK, FileInv
  <2>2. /\ home' \in [rows: SUBSET Keys, left: -1..HomeTTL]
        /\ map' \in [src: SUBSET Source, left: -1..HomeTTL]
        /\ index' \in [Keys -> Layers]
        /\ reg' \in [Keys -> [src: SUBSET Source, left: -1..SearchTTL]]
        /\ snap' \in [rows: SUBSET Keys, src: SUBSET Source]
        /\ RegInv' /\ MapInv' /\ LayersAgree'
    BY <2>1, ApplyInv
  <2>3. UNCHANGED <<file, builds>>
    BY <1>1 DEF LoadPersisted
  <2>4. TypeOK'
    BY <2>2, <2>3 DEF TypeOK
  <2>5. FileInv'
    BY <2>3 DEF FileInv, FileIsPureSnapshot, KeysOf, Functional
  <2> QED  BY <2>2, <2>4, <2>5
<1>2. ASSUME NEW listed \in SUBSET (Keys \X Providers), NEW rows \in SUBSET Keys,
             BuildLands(listed, rows)
      PROVE  CatalogInv'
  <2> DEFINE src == {[key |-> l[1], pid |-> l[2], card |-> builds + 1] : l \in listed}
  <2>1. /\ src \in SUBSET Source /\ Functional(src)
        /\ \A s \in src : s.card # SearchCard
    BY DEF Source, Functional, TypeOK, SearchCard
  <2>2. /\ rows \subseteq KeysOf(src)
        /\ ApplySnapshot(rows, src, TRUE)
        /\ builds' = builds + 1
        /\ file' = SnapshotFile(rows, src) \/ file' = file
    BY <1>2 DEF BuildLands
  <2> HIDE DEF src
  <2>3. /\ home' \in [rows: SUBSET Keys, left: -1..HomeTTL]
        /\ map' \in [src: SUBSET Source, left: -1..HomeTTL]
        /\ index' \in [Keys -> Layers]
        /\ reg' \in [Keys -> [src: SUBSET Source, left: -1..SearchTTL]]
        /\ snap' \in [rows: SUBSET Keys, src: SUBSET Source]
        /\ RegInv' /\ MapInv' /\ LayersAgree'
    BY <2>1, <2>2, ApplyInv
  <2>4. TypeOK'
    <3>1. builds' \in Nat
      BY <2>2 DEF TypeOK
    <3>2. file' \in [ok: BOOLEAN, rows: SUBSET Keys, src: SUBSET Source]
      <4>1. SnapshotFile(rows, src) \in [ok: BOOLEAN, rows: SUBSET Keys, src: SUBSET Source]
        BY <2>1 DEF SnapshotFile
      <4>2. file \in [ok: BOOLEAN, rows: SUBSET Keys, src: SUBSET Source]
        BY DEF TypeOK
      <4> QED  BY <2>2, <4>1, <4>2
    <3> QED  BY <2>3, <3>1, <3>2 DEF TypeOK
  <2>5. FileInv'
    BY <2>1, <2>2 DEF FileInv, FileIsPureSnapshot, SnapshotFile, KeysOf, Functional
  <2> QED  BY <2>3, <2>4, <2>5
<1>3. ASSUME NEW members \in (SUBSET Keys) \ {{}}, NEW pids \in (SUBSET Providers) \ {{}},
             RegisterSearch(members, pids)
      PROVE  CatalogInv'
  <2> DEFINE union == GroupUnion(members, pids)
             merged == MapWith(union)
  <2>1. /\ union \in SUBSET Source /\ Functional(union)
        /\ \A s \in union : s.card = SearchCard
    BY DEF GroupUnion, Source, Functional, SearchCard
  <2>2. Sources \in SUBSET Source /\ Functional(Sources)
    BY DEF Sources, TypeOK, MapInv, Functional
  <2>3. /\ merged \in SUBSET Source /\ Functional(merged)
        /\ KeysOf(Sources) \subseteq KeysOf(merged)
        /\ merged \subseteq Sources \cup union
    BY <2>1, <2>2, FillFacts DEF MapWith
  <2>4. /\ UNCHANGED <<home, file, builds, snap>>
        /\ map' = [src |-> merged, left |-> HomeTTL] \/ map' = map
        /\ index' = IndexWith(members)
        /\ reg' = [k \in Keys |-> IF k \in members
                                  THEN [src |-> Registered(k, union), left |-> SearchTTL]
                                  ELSE reg[k]]
    BY <1>3 DEF RegisterSearch
  <2> HIDE DEF union, merged
  <2>5. ASSUME NEW k \in Keys
        PROVE  /\ Registered(k, union) \in SUBSET Source
               /\ \A s \in Registered(k, union) : s.key = k /\ s.card = SearchCard
    <3>1. CASE Live(k)
      BY <2>1, <3>1 DEF Registered, Fill, TypeOK, RegInv
    <3>2. CASE ~Live(k)
      BY <2>1, <3>2 DEF Registered, Fill
    <3> QED  BY <3>1, <3>2
  <2>6. TypeOK'
    <3>1. map' \in [src: SUBSET Source, left: -1..HomeTTL]
      BY <2>3, <2>4, TTLAssumption DEF TypeOK
    <3>2. index' \in [Keys -> Layers]
      BY <2>4 DEF IndexWith, TypeOK, Layers
    <3>3. reg' \in [Keys -> [src: SUBSET Source, left: -1..SearchTTL]]
      BY <2>4, <2>5, TTLAssumption DEF TypeOK
    <3> QED  BY <2>4, <3>1, <3>2, <3>3 DEF TypeOK
  <2>7. FileInv'
    BY <2>4 DEF FileInv, FileIsPureSnapshot, KeysOf, Functional
  <2>8. RegInv'
    BY <2>4, <2>5 DEF RegInv
  <2>9. MapInv'
    <3>1. CASE map' = map
      BY <2>4, <3>1 DEF MapInv, Functional, KeysOf, HomeCached
    <3>2. CASE map' = [src |-> merged, left |-> HomeTTL]
      <4>1. Functional(map'.src)
        BY <2>3, <3>2
      <4>2. \A s \in merged : s.card # SearchCard => s \in snap.src
        BY <2>1, <2>3 DEF Sources, MapInv
      <4>3. HomeCached /\ home.rows # {} => home.rows \subseteq KeysOf(merged)
        BY <2>3, TTLAssumption DEF MapInv, Sources, HomeCached, TypeOK
      <4>4. HomeCached => HomeTTL >= home.left
        BY TTLAssumption DEF TypeOK, HomeCached
      <4> QED  BY <4>1, <4>2, <4>3, <4>4, <2>4, <3>2 DEF MapInv, Functional, KeysOf, HomeCached
    <3> QED  BY <2>4, <3>1, <3>2
  <2>10. LayersAgree'
    BY <2>4 DEF LayersAgree, IndexWith, Live, TypeOK, Layers
  <2> QED  BY <2>6, <2>7, <2>8, <2>9, <2>10
<1>4. CASE Invalidate
  <2> USE <1>4 DEF Invalidate, NoHome, Expired
  <2>1. TypeOK'
    BY TTLAssumption DEF TypeOK
  <2>2. FileInv' /\ RegInv'
    BY DEF FileInv, FileIsPureSnapshot, KeysOf, Functional, RegInv
  <2>3. MapInv'
    BY DEF MapInv, Functional, KeysOf, HomeCached
  <2>4. LayersAgree'
    BY DEF LayersAgree, Live
  <2> QED  BY <2>1, <2>2, <2>3, <2>4
<1>5. CASE Tick
  <2>1. /\ home'.rows = home.rows /\ home'.left = Elapse(home.left)
        /\ map'.src = map.src /\ map'.left = Elapse(map.left)
        /\ \A k \in Keys : reg'[k].src = reg[k].src /\ reg'[k].left = Elapse(reg[k].left)
        /\ UNCHANGED <<index, file, builds, snap>>
    BY <1>5 DEF Tick, TypeOK
  <2>2. TypeOK'
    <3>1. home' \in [rows: SUBSET Keys, left: -1..HomeTTL]
      BY <1>5, TTLAssumption DEF Tick, TypeOK, Elapse
    <3>2. map' \in [src: SUBSET Source, left: -1..HomeTTL]
      BY <1>5, TTLAssumption DEF Tick, TypeOK, Elapse
    <3>3. reg' \in [Keys -> [src: SUBSET Source, left: -1..SearchTTL]]
      BY <1>5, TTLAssumption DEF Tick, TypeOK, Elapse
    <3> QED  BY <2>1, <3>1, <3>2, <3>3 DEF TypeOK
  <2>3. FileInv' /\ RegInv'
    BY <2>1 DEF FileInv, FileIsPureSnapshot, KeysOf, Functional, RegInv
  <2>4. MapInv'
    BY <2>1, TTLAssumption DEF MapInv, Functional, KeysOf, HomeCached, Elapse, TypeOK
  <2>5. LayersAgree'
    BY <2>1, TTLAssumption DEF LayersAgree, Live, Elapse, TypeOK
  <2> QED  BY <2>2, <2>3, <2>4, <2>5
<1>6. CASE Restart
  <2> USE <1>6 DEF Restart, NoHome, Dead, NoKeys, NoRegistrations, NoSnapshot, Expired
  <2>1. TypeOK'
    BY TTLAssumption DEF TypeOK, Layers
  <2>2. FileInv' /\ RegInv'
    BY DEF FileInv, FileIsPureSnapshot, KeysOf, Functional, RegInv
  <2>3. MapInv'
    BY DEF MapInv, Functional, HomeCached
  <2>4. LayersAgree'
    BY DEF LayersAgree, Live
  <2> QED  BY <2>1, <2>2, <2>3, <2>4
<1>7. CASE UNCHANGED vars
  BY <1>7 DEF vars, TypeOK, FileInv, FileIsPureSnapshot, RegInv, MapInv, LayersAgree,
              HomeCached, Live, KeysOf, Functional
<1> QED  BY <1>1, <1>2, <1>3, <1>4, <1>5, <1>6, <1>7 DEF Next

-----------------------------------------------------------------------------
\* Types are kept by every operation of the owner, for all constants.
THEOREM TypeCorrect == Spec => []TypeOK
<1>1. CatalogInv => TypeOK
  BY DEF CatalogInv
<1> QED  BY InitInv, NextInv, <1>1, PTL DEF Spec

\* A card of a home the server still serves can always be opened: no search,
\* invalidation, replacement or lapse empties the map under the cached rows.
THEOREM HomeResolves == Spec => []CachedHomeResolves
<1>1. CatalogInv => CachedHomeResolves
  BY TTLAssumption DEF CatalogInv, MapInv, CachedHomeResolves, HomeCached, Sources, TypeOK
<1> QED  BY InitInv, NextInv, <1>1, PTL DEF Spec

\* The snapshot's rows and the live registrations are what the index says.
THEOREM Layered == Spec => []LayersAgree
<1>1. CatalogInv => LayersAgree
  BY DEF CatalogInv
<1> QED  BY InitInv, NextInv, <1>1, PTL DEF Spec

\* Audit finding 4: no snapshot card rides a registration past its snapshot.
THEOREM NothingRidesForward == Spec => []NoCardRidesForward
<1>1. CatalogInv => NoCardRidesForward
  BY DEF CatalogInv, MapInv, RegInv, NoCardRidesForward, Sources
<1> QED  BY InitInv, NextInv, <1>1, PTL DEF Spec

\* Audit finding 2: no search card is ever on disk; the map stays a dict of dicts.
THEOREM FilePure == Spec => [](FileIsPureSnapshot /\ Functional(map.src))
<1>1. CatalogInv => FileIsPureSnapshot /\ Functional(map.src)
  BY DEF CatalogInv, FileInv, MapInv
<1> QED  BY InitInv, NextInv, <1>1, PTL DEF Spec

\* The three together: the snapshot's layer and the registrations' stay apart.
THEOREM Apart == Spec => []LayersApart
<1>1. LayersAgree /\ NoCardRidesForward /\ FileIsPureSnapshot /\ Functional(map.src) => LayersApart
  BY DEF LayersApart
<1> QED  BY <1>1, Layered, NothingRidesForward, FilePure, PTL

\* After setdefault every source of either side still has an answer.
LEMMA FillAnswers ==
    ASSUME NEW a \in SUBSET Source, NEW b \in SUBSET Source, NEW k, NEW p,
           Answers(a, k, p) \/ Answers(b, k, p)
    PROVE  Answers(Fill(a, b), k, p)
BY DEF Answers, Fill

\* A replacement answers for every source a live registration owns.
LEMMA ApplyKeeps ==
    ASSUME CatalogInv, NEW rows, NEW src \in SUBSET Source, NEW hasMap \in BOOLEAN,
           ApplySnapshot(rows, src, hasMap)
    PROVE  KeepsPromises
<1> SUFFICES ASSUME NEW k \in Keys, Live(k), NEW s \in reg[k].src,
                    Answers(Sources, k, s.pid)
             PROVE  Answers(Sources', k, s.pid)
  BY DEF KeepsPromises
<1>1. CASE hasMap
  <2>1. LiveRegistrations \in SUBSET Source
    BY LiveFacts DEF CatalogInv
  <2>2. s \in LiveRegistrations /\ s.key = k
    BY DEF LiveRegistrations, CatalogInv, RegInv
  <2>3. Answers(LiveRegistrations, k, s.pid)
    BY <2>2 DEF Answers
  <2>4. Answers(Fill(src, LiveRegistrations), k, s.pid)
    BY <2>1, <2>3, FillAnswers
  <2>5. Sources' = Fill(src, LiveRegistrations)
    BY <1>1, TTLAssumption DEF ApplySnapshot, Sources, MergedMap
  <2> QED  BY <2>4, <2>5
<1>2. CASE ~hasMap
  BY <1>2 DEF ApplySnapshot, Sources
<1> QED  BY <1>1, <1>2

\* No step of a running process takes a live registration's answer away; a tick
\* only ages the registration itself.
LEMMA StepKeeps == CatalogInv /\ [Next]_vars => [KeepsPromises]_vars
<1> SUFFICES ASSUME CatalogInv, Next PROVE KeepsPromises
  OBVIOUS
<1>1. CASE LoadPersisted
  BY <1>1, ApplyKeeps DEF LoadPersisted, CatalogInv, TypeOK
<1>2. ASSUME NEW listed \in SUBSET (Keys \X Providers), NEW rows \in SUBSET Keys,
             BuildLands(listed, rows)
      PROVE  KeepsPromises
  <2> DEFINE src == {[key |-> l[1], pid |-> l[2], card |-> builds + 1] : l \in listed}
  <2>1. src \in SUBSET Source
    BY DEF Source, CatalogInv, TypeOK
  <2>2. ApplySnapshot(rows, src, TRUE)
    BY <1>2 DEF BuildLands
  <2> QED  BY <2>1, <2>2, ApplyKeeps
<1>3. ASSUME NEW members \in (SUBSET Keys) \ {{}}, NEW pids \in (SUBSET Providers) \ {{}},
             RegisterSearch(members, pids)
      PROVE  KeepsPromises
  <2> DEFINE union == GroupUnion(members, pids)
  <2>1. union \in SUBSET Source
    BY DEF GroupUnion, Source, SearchCard
  <2>2. Sources \in SUBSET Source
    BY DEF Sources, CatalogInv, TypeOK
  <2>3. \A k, p : Answers(Sources, k, p) => Answers(MapWith(union), k, p)
    BY <2>1, <2>2, FillAnswers DEF MapWith
  <2>4. Sources' = MapWith(union) \/ Sources' = Sources
    BY <1>3, TTLAssumption DEF RegisterSearch, Sources
  <2> QED  BY <2>3, <2>4 DEF KeepsPromises
<1>4. CASE Invalidate
  BY <1>4 DEF Invalidate, KeepsPromises, Sources
<1>5. CASE Tick
  \* Every live deadline shortens: the premise is false.
  <2> SUFFICES ASSUME NEW k \in Keys, Live(k), reg[k].left <= reg'[k].left PROVE FALSE
    BY DEF KeepsPromises
  <2>1. reg[k].left \in -1..SearchTTL /\ reg[k].left >= 0
    BY DEF Live, CatalogInv, TypeOK
  <2>2. reg'[k].left = reg[k].left - 1
    BY <1>5, <2>1 DEF Tick, Elapse, CatalogInv, TypeOK
  <2> QED  BY <2>1, <2>2, TTLAssumption
<1>6. CASE Restart
  BY <1>6 DEF Restart, NoRegistrations, Dead, Expired, KeepsPromises, Live
<1> QED  BY <1>1, <1>2, <1>3, <1>4, <1>5, <1>6 DEF Next

\* Issue #420: only time takes a live registration's answer away.
THEOREM PromisesKept == Spec => PromisesSurvive
BY InitInv, NextInv, StepKeeps, PTL DEF Spec, PromisesSurvive

-----------------------------------------------------------------------------
\* A replacement with a map of its own leaves no search card in it that no live
\* registration answers for, and no key indexed for a registration that is gone.
LEMMA ApplyRetires ==
    ASSUME CatalogInv,
           NEW rows, NEW src \in SUBSET Source, NEW hasMap \in BOOLEAN,
           \A s \in src : s.card # SearchCard,
           ApplySnapshot(rows, src, hasMap)
    PROVE  Retires
<1> SUFFICES ASSUME hasMap
             PROVE  /\ \A s \in Sources' : s.card = SearchCard => reg'[s.key].left >= 0
                    /\ \A k \in Keys : index'[k] = "registered" => Live(k)'
  BY DEF Retires, ApplySnapshot
<1>1. \A k \in Keys : Live(k) => reg'[k] = reg[k] /\ Live(k)'
  BY DEF ApplySnapshot, Live
<1>2. Sources' = MergedMap(src)
  BY TTLAssumption DEF ApplySnapshot, Sources
<1>3. ASSUME NEW s \in Sources', s.card = SearchCard
      PROVE  reg'[s.key].left >= 0
  <2>1. s \in LiveRegistrations
    BY <1>2, <1>3 DEF MergedMap, Fill
  <2>2. PICK k \in Keys : Live(k) /\ s \in reg[k].src
    BY <2>1 DEF LiveRegistrations
  <2>3. s.key = k
    BY <2>2 DEF CatalogInv, RegInv
  <2> QED  BY <1>1, <2>2, <2>3 DEF Live
<1>4. ASSUME NEW k \in Keys, index'[k] = "registered"
      PROVE  Live(k)'
  BY <1>1, <1>4 DEF ApplySnapshot
<1> QED  BY <1>3, <1>4

\* Nothing but a replacement, and a restart that forgets it, touches what the
\* last snapshot installed.
LEMMA StepRetires == CatalogInv /\ [Next]_vars => [Retires]_vars
<1> SUFFICES ASSUME CatalogInv, Next PROVE Retires
  OBVIOUS
<1>1. CASE LoadPersisted
  <2>1. file.src \in SUBSET Source /\ \A s \in file.src : s.card # SearchCard
    BY DEF CatalogInv, TypeOK, FileInv, FileIsPureSnapshot
  <2>2. ApplySnapshot(file.rows, file.src, file.src # {})
    BY <1>1 DEF LoadPersisted
  <2> QED  BY <2>1, <2>2, ApplyRetires
<1>2. ASSUME NEW listed \in SUBSET (Keys \X Providers), NEW rows \in SUBSET Keys,
             BuildLands(listed, rows)
      PROVE  Retires
  <2> DEFINE src == {[key |-> l[1], pid |-> l[2], card |-> builds + 1] : l \in listed}
  <2>1. src \in SUBSET Source /\ \A s \in src : s.card # SearchCard
    BY DEF Source, SearchCard, CatalogInv, TypeOK
  <2>2. ApplySnapshot(rows, src, TRUE)
    BY <1>2 DEF BuildLands
  <2> QED  BY <2>1, <2>2, ApplyRetires
<1>3. CASE snap' = snap
  BY <1>3 DEF Retires
<1>4. CASE Restart
  BY <1>4 DEF Restart, NoSnapshot, Retires
<1> QED  BY <1>1, <1>2, <1>3, <1>4 DEF Next, RegisterSearch, Invalidate, Tick

\* ADR-0010: a replacement retires what has aged out, whatever was registered
\* and however long ago.
THEOREM Retirement == Spec => ReplacementRetires
BY InitInv, NextInv, StepRetires, PTL DEF Spec, ReplacementRetires
=============================================================================
