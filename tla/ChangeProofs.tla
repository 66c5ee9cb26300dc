---------------------------- MODULE ChangeProofs ----------------------------
(* Proof that the id of a row survives a change of the upstream: what was      *)
(* listed of a title is listed still, at the same place, after an episode was  *)
(* added to it, and a row that names the upstream's own number plays by it     *)
(* whatever was added or taken down.                                           *)
EXTENDS LaneProofs

-----------------------------------------------------------------------------
(* A playlist that grows at its end.                                       *)

\* g runs through the members of I, each behind those that R puts ahead of it.
Trail(g, n, R, I) ==
    /\ n \in Nat /\ \A i \in 1 .. n : g[i] \in I
    /\ \A i, j \in 1 .. n : i < j => <<g[i], g[j]>> \in R
    /\ \A k \in I : \E i \in 1 .. n : g[i] = k

Opens(I, J, R) == I \subseteq J /\ \A i \in I, j \in J \ I : <<i, j>> \in R

\* What is added behind all others leaves a trail as it was.
LEMMA SameStart ==
    ASSUME NEW R, NEW I, NEW J, Orders(R, J), Opens(I, J, R),
           NEW g, NEW n, Trail(g, n, R, I), NEW h, NEW m, Trail(h, m, R, J)
    PROVE  \A k \in 1 .. n : k \in 1 .. m /\ g[k] = h[k]
<1>1. /\ n \in Nat /\ m \in Nat /\ I \subseteq J
      /\ \A i \in 1 .. n : g[i] \in I
      /\ \A i \in 1 .. m : h[i] \in J
      /\ \A i, j \in 1 .. n : i < j => <<g[i], g[j]>> \in R
      /\ \A i, j \in 1 .. m : i < j => <<h[i], h[j]>> \in R
      /\ \A k \in I : \E i \in 1 .. n : g[i] = k
      /\ \A k \in J : \E i \in 1 .. m : h[i] = k
  BY DEF Trail, Opens
<1>2. \A i, j \in J : ~(<<i, j>> \in R /\ <<j, i>> \in R)
  BY DEF Orders
<1> DEFINE Differ == {k \in 1 .. n : ~(k \in 1 .. m /\ g[k] = h[k])}
<1> SUFFICES ASSUME Differ # {} PROVE FALSE
  OBVIOUS
<1>3. Differ \in SUBSET Nat /\ \A k \in Differ : k \in 1 .. n /\ ~(k \in 1 .. m /\ g[k] = h[k])
  BY <1>1
<1>4. \A k \in 1 .. n : k \notin Differ => k \in 1 .. m /\ g[k] = h[k]
  OBVIOUS
<1> HIDE DEF Differ
<1>5. PICK k \in Differ : \A i \in Differ : k <= i
  BY <1>3, LeastIsOne
<1>6. k \in 1 .. n /\ ~(k \in 1 .. m /\ g[k] = h[k])
  BY <1>3
<1>7. ASSUME NEW i \in 1 .. n, i < k PROVE i \in 1 .. m /\ g[i] = h[i]
  <2>1. ~(k <= i)
    BY <1>1, <1>6, <1>7
  <2> QED BY <1>4, <1>5, <2>1
<1>8. PICK j \in 1 .. m : h[j] = g[k]
  BY <1>1, <1>6
<1>9. ~(j < k)
  <2> SUFFICES ASSUME j < k PROVE FALSE
    OBVIOUS
  <2>1. j \in 1 .. n
    BY <1>1, <1>6
  <2>2. <<g[j], g[k]>> \in R /\ g[j] = g[k]
    BY <1>1, <1>6, <1>7, <1>8, <2>1
  <2> QED BY <1>1, <1>2, <1>6, <2>1, <2>2
<1>10. k \in 1 .. m /\ k < j
  BY <1>1, <1>6, <1>8, <1>9
<1>11. <<h[k], g[k]>> \in R /\ h[k] \in J /\ g[k] \in J
  BY <1>1, <1>8, <1>10
<1>12. h[k] \in I
  BY <1>1, <1>2, <1>6, <1>11 DEF Opens
<1>13. PICK i \in 1 .. n : g[i] = h[k]
  BY <1>1, <1>12
<1>14. CASE i < k
  <2>1. i \in 1 .. m /\ g[i] = h[i]
    BY <1>7, <1>14
  <2>2. <<h[i], h[k]>> \in R /\ h[i] = h[k]
    BY <1>1, <1>10, <1>13, <1>14, <2>1
  <2> QED BY <1>2, <1>11, <2>2
<1>15. CASE k < i
  <2>1. <<g[k], h[k]>> \in R
    BY <1>1, <1>6, <1>13, <1>15
  <2> QED BY <1>2, <1>11, <2>1
<1>16. i # k
  BY <1>6, <1>10, <1>13
<1> QED BY <1>1, <1>6, <1>14, <1>15, <1>16

\* b begins with a, and each branch of a tree with the one before.
Begins(a, b) == DOMAIN a \subseteq DOMAIN b /\ \A n \in DOMAIN a : b[n] = a[n]
Grows(tree, wide) == DOMAIN tree \subseteq DOMAIN wide /\ \A i \in DOMAIN tree : Begins(tree[i], wide[i])

\* What is picked out of a playlist that grew begins with what was picked before, ...
LEMMA PickedBegins ==
    ASSUME NEW S, NEW a \in Seq(S), NEW b \in Seq(S), Begins(a, b),
           NEW pos, NEW wide \in SUBSET (DOMAIN b), pos = wide \cap DOMAIN a
    PROVE  Begins(Picked(a, pos), Picked(b, wide))
<1> DEFINE R == {p \in Nat \X Nat : p[1] < p[2]}
           x == Picked(a, pos)
           y == Picked(b, wide)
           n == Cardinality(pos)
           m == Cardinality(wide)
<1>1. /\ DOMAIN a = 1 .. Len(a) /\ Len(a) \in Nat /\ DOMAIN b \subseteq Nat
      /\ \A i \in DOMAIN a : i \in DOMAIN b /\ b[i] = a[i]
  BY DEF Begins
<1>2. x \in Seq(S) /\ \E g : Runs(g, x, a, pos)
  BY PickedRuns
<1>3. y \in Seq(S) /\ \E h : Runs(h, y, b, wide)
  BY PickedRuns
<1>4. PICK g : Runs(g, x, a, pos)
  BY <1>2
<1>5. PICK h : Runs(h, y, b, wide)
  BY <1>3
<1>6. \A i, j \in Nat : <<i, j>> \in R <=> i < j
  OBVIOUS
<1> HIDE DEF R, x, y
<1>7. Orders(R, wide)
  <2>1. wide \subseteq Nat
    BY <1>1
  <2>2. \A i, j \in Nat : i = j \/ i < j \/ j < i
    OBVIOUS
  <2>3. \A i, j, k \in Nat : i < j /\ j < k => i < k
    OBVIOUS
  <2>4. \A i \in Nat : ~(i < i)
    OBVIOUS
  <2> QED BY <1>6, <2>1, <2>2, <2>3, <2>4 DEF Orders
<1>8. Opens(pos, wide, R)
  <2>1. ASSUME NEW i \in pos, NEW j \in wide \ pos PROVE <<i, j>> \in R
    <3>1. i \in 1 .. Len(a) /\ j \in 1 .. Len(b) /\ j \notin 1 .. Len(a)
      BY <1>1
    <3> QED BY <1>1, <1>6, <3>1
  <2> QED BY <2>1 DEF Opens
<1>9. /\ Len(x) = n /\ n \in Nat /\ g \in [1 .. n -> pos]
      /\ \A i \in 1 .. n : x[i] = a[g[i]]
      /\ \A i, j \in 1 .. n : i < j => g[i] < g[j]
      /\ \A i \in pos : \E k \in 1 .. n : g[k] = i
  BY <1>4 DEF Runs
<1>10. /\ Len(y) = m /\ m \in Nat /\ h \in [1 .. m -> wide]
       /\ \A i \in 1 .. m : y[i] = b[h[i]]
       /\ \A i, j \in 1 .. m : i < j => h[i] < h[j]
       /\ \A i \in wide : \E k \in 1 .. m : h[k] = i
  BY <1>5 DEF Runs
<1> HIDE DEF n, m
<1>11. Trail(g, n, R, pos) /\ Trail(h, m, R, wide)
  <2>1. /\ \A i \in 1 .. n : g[i] \in pos /\ g[i] \in Nat
        /\ \A i \in 1 .. m : h[i] \in wide /\ h[i] \in Nat
    BY <1>1, <1>9, <1>10
  <2> QED BY <1>6, <1>9, <1>10, <2>1 DEF Trail
<1>12. \A k \in 1 .. n : k \in 1 .. m /\ g[k] = h[k]
  BY <1>7, <1>8, <1>11, SameStart
<1>13. DOMAIN x = 1 .. n /\ DOMAIN y = 1 .. m
  BY <1>2, <1>3, <1>9, <1>10
<1>14. \A k \in 1 .. n : y[k] = x[k]
  BY <1>1, <1>9, <1>10, <1>12
<1> QED BY <1>12, <1>13, <1>14 DEF Begins, x, y

\* ... and so do the files of a label, ...
LEMMA FolderBegins ==
    ASSUME NEW S, NEW a \in Seq(S), NEW b \in Seq(S), Begins(a, b), NEW field, NEW label
    PROVE  Begins(Folder(a, field, label), Folder(b, field, label))
<1> DEFINE pos == {i \in DOMAIN a : a[i][field] = label}
           wide == {i \in DOMAIN b : b[i][field] = label}
<1>1. pos = wide \cap DOMAIN a
  BY DEF Begins
<1>2. Folder(a, field, label) = Picked(a, pos) /\ Folder(b, field, label) = Picked(b, wide)
  BY DEF Folder, Those
<1>3. wide \in SUBSET (DOMAIN b)
  OBVIOUS
<1> HIDE DEF pos, wide
<1> QED BY <1>1, <1>2, <1>3, PickedBegins

\* ... and the labels themselves.
LEMMA LabelsBegins ==
    ASSUME NEW S, NEW a \in Seq(S), NEW b \in Seq(S), Begins(a, b), NEW field
    PROVE  Begins(Labels(a, field), Labels(b, field))
<1> DEFINE pos == Firsts(a, field)
           wide == Firsts(b, field)
           x == Picked(a, pos)
           y == Picked(b, wide)
<1>0. /\ DOMAIN a = 1 .. Len(a) /\ Len(a) \in Nat /\ DOMAIN b = 1 .. Len(b) /\ Len(b) \in Nat
      /\ \A i \in DOMAIN a : i \in DOMAIN b /\ b[i] = a[i]
  BY DEF Begins
<1>1. pos = wide \cap DOMAIN a
  <2>1. \A i \in DOMAIN a, j \in DOMAIN b : j < i => j \in DOMAIN a
    BY <1>0
  <2> QED BY <1>0, <2>1 DEF Firsts
<1>2. wide \in SUBSET (DOMAIN b)
  BY DEF Firsts
<1>3. Labels(a, field) = [n \in DOMAIN x |-> x[n][field]] /\ Labels(b, field) = [n \in DOMAIN y |-> y[n][field]]
  BY DEF Labels
<1> HIDE DEF pos, wide
<1>4. Begins(x, y)
  BY <1>1, <1>2, PickedBegins
<1> HIDE DEF x, y
<1> QED BY <1>3, <1>4 DEF Begins

\* The folders of a playlist that grew are its folders, grown.
LEMMA FoldersBegin ==
    ASSUME NEW S, NEW a \in Seq(S), NEW b \in Seq(S), Begins(a, b), NEW field
    PROVE  Grows(Folders(a, field), Folders(b, field))
<1> DEFINE l == Labels(a, field)
           k == Labels(b, field)
<1>1. Begins(l, k)
  BY LabelsBegins
<1>2. Folders(a, field) = [i \in DOMAIN l |-> Folder(a, field, l[i])]
  BY DEF Folders
<1>3. Folders(b, field) = [i \in DOMAIN k |-> Folder(b, field, k[i])]
  BY DEF Folders
<1> HIDE DEF l, k
<1>4. \A v : Begins(Folder(a, field, v), Folder(b, field, v))
  BY FolderBegins
<1> QED BY <1>1, <1>2, <1>3, <1>4 DEF Begins, Grows

-----------------------------------------------------------------------------
(* The title after a change of the upstream.                               *)

\* What Publish and Withdraw make of a title.
Grown(s, t) ==
    /\ s.series /\ s.payload = "list"
    /\ \E f \in ToSet(s.files), n \in Nat :
          /\ \A g \in ToSet(s.files) : g.s = f.s /\ g.d = f.d => g.e <= n
          /\ t = [s EXCEPT !.files = Append(@, [f EXCEPT !.e = n + 1])]

Shrunk(s, t) ==
    /\ s.series /\ s.payload = "list"
    /\ \E i \in DOMAIN s.files : t = [s EXCEPT !.files = RemoveAt(@, i)]

\* What neither touches.
Kept(s, t) ==
    /\ t.titled = s.titled /\ t.series = s.series /\ t.player = s.player /\ t.payload = s.payload
    /\ t.shape = s.shape /\ t.linked = s.linked /\ t.removed = s.removed

\* An added episode is the last file, numbered behind all of its season and dub.
LEMMA GrownFacts ==
    ASSUME NEW l, NEW s, Possible(l, s), NEW t, Grown(s, t)
    PROVE  /\ Possible(l, t) /\ Kept(s, t) /\ s.series /\ s.payload = "list"
           /\ s.files \in Seq(File) /\ t.files \in Seq(File) /\ Begins(s.files, t.files)
           /\ s.files # <<>> /\ t.files # <<>> /\ Head(t.files) = Head(s.files)
           /\ ToSet(s.files) \subseteq ToSet(t.files)
           /\ DubsOf(s.files) \subseteq DubsOf(t.files)
           /\ \E f \in ToSet(s.files) : \E new \in File :
                 /\ new.s = f.s /\ new.d = f.d /\ t.files = Append(s.files, new)
                 /\ \A g \in ToSet(s.files) : g.s = new.s /\ g.d = new.d => g.e < new.e
<1>1. PICK f \in ToSet(s.files), n \in Nat :
         /\ \A g \in ToSet(s.files) : g.s = f.s /\ g.d = f.d => g.e <= n
         /\ t = [s EXCEPT !.files = Append(@, [f EXCEPT !.e = n + 1])]
  BY DEF Grown
<1>2. s.series /\ s.payload = "list"
  BY DEF Grown
<1>3. Possible(l, t)
  BY <1>1, <1>2, PossibleGrown
<1>4. s \in Title /\ s.files \in Seq(File)
  BY DEF Possible, Title
<1> DEFINE new == [f EXCEPT !.e = n + 1]
<1>5. f \in File /\ \A g \in ToSet(s.files) : g \in File
  BY <1>4 DEF ToSet
<1>6. new \in File /\ new.s = f.s /\ new.d = f.d /\ new.e = n + 1
  BY <1>5 DEF File
<1>7. t = [s EXCEPT !.files = Append(s.files, new)]
  BY <1>1
<1> HIDE DEF new
<1>8. t.files = Append(s.files, new) /\ Kept(s, t)
  BY <1>4, <1>7 DEF Title, Kept
<1>9. \A g \in ToSet(s.files) : g.s = new.s /\ g.d = new.d => g.e < new.e
  <2> SUFFICES ASSUME NEW g \in ToSet(s.files), g.s = new.s, g.d = new.d PROVE g.e < new.e
    OBVIOUS
  <2>1. g.e \in Nat /\ g.e <= n
    BY <1>1, <1>5, <1>6 DEF File
  <2> QED BY <1>6, <2>1
<1>10. s.files # <<>>
  BY <1>4 DEF ToSet
<1> DEFINE a == s.files
           b == t.files
<1>11. a \in Seq(File) /\ a # <<>> /\ b = Append(a, new)
  BY <1>4, <1>8, <1>10
<1> HIDE DEF a, b
<1>12. b \in Seq(File) /\ b # <<>> /\ Begins(a, b) /\ Head(b) = Head(a)
  BY <1>6, <1>11 DEF Begins
<1>13. ToSet(a) \subseteq ToSet(b)
  BY <1>12 DEF Begins, ToSet
<1>14. DubsOf(a) \subseteq DubsOf(b)
  BY <1>13 DEF DubsOf
<1> QED BY <1>2, <1>3, <1>6, <1>8, <1>9, <1>11, <1>12, <1>13, <1>14 DEF a, b

\* A row that a listing still has, as it was.
Found(row, rows) == \E r \in rows : r.at = row.at /\ r.says = row.says /\ row.dubs \subseteq r.dubs

\* What the rows keep the listing keeps.
LEMMA DetailFound ==
    ASSUME NEW code, NEW rows, NEW more, NEW row \in Detail(code, rows).rows, Found(row, more)
    PROVE  Found(row, Detail(code, more).rows)
BY DEF Detail, Found

\* A row that only offers more dubs is still listed.
LEMMA RowStays ==
    ASSUME NEW row, NEW pos, NEW file, NEW dubs, row = Row(pos, file, dubs), NEW more, dubs \subseteq more,
           NEW rows, Row(pos, file, more) \in rows
    PROVE  Found(row, rows)
BY DEF Found, Row

\* A position names the same file in a playlist that grew.
LEMMA PlaceStays ==
    ASSUME NEW tree, NEW wide, Grows(tree, wide), NEW i \in DOMAIN tree, NEW j \in DOMAIN tree[i]
    PROVE  i \in DOMAIN wide /\ j \in DOMAIN wide[i] /\ wide[i][j] = tree[i][j]
BY DEF Grows, Begins

\* The dub whose folder comes first stays it.
LEMMA LeadGrows ==
    ASSUME NEW a \in Seq(File), NEW b \in Seq(File), Begins(a, b), a # <<>>, b # <<>>, Head(b) = Head(a)
    PROVE  /\ Begins(DubFolder(a, 0), DubFolder(b, 0))
           /\ Grows(Folders(DubFolder(a, 0), "s"), Folders(DubFolder(b, 0), "s"))
<1> DEFINE x == DubFolder(a, 0)
           y == DubFolder(b, 0)
<1>1. x = Folder(a, "d", Head(a).d) /\ y = Folder(b, "d", Head(a).d) /\ x \in Seq(File) /\ y \in Seq(File)
  BY DubFolderFacts
<1>2. Begins(x, y)
  BY <1>1, FolderBegins
<1> HIDE DEF x, y
<1> QED BY <1>1, <1>2, FoldersBegin DEF x, y

-----------------------------------------------------------------------------
(* The providers whose rows name positions: what was listed is listed still.*)

LEMMA SerialnoStays ==
    ASSUME NEW s, Possible("serialno", s), NEW t, Grown(s, t), NEW listed,
           NEW row \in SerialnoContent(s, listed).rows
    PROVE  Found(row, SerialnoContent(t, listed).rows)
<1> DEFINE tree == NormalizeSeasons(s)
           wide == NormalizeSeasons(t)
<1>1. /\ Kept(s, t) /\ s.files \in Seq(File) /\ t.files \in Seq(File) /\ Begins(s.files, t.files)
      /\ s.files # <<>> /\ t.files # <<>> /\ Head(t.files) = Head(s.files)
      /\ DubsOf(s.files) \subseteq DubsOf(t.files)
  BY GrownFacts
<1>2. Grows(tree, wide)
  <2>1. Grows(Folders(s.files, "s"), Folders(t.files, "s"))
    BY <1>1, FoldersBegin
  <2>2. Grows(Folders(DubFolder(s.files, 0), "s"), Folders(DubFolder(t.files, 0), "s"))
    BY <1>1, LeadGrows
  <2> QED BY <1>1, <2>1, <2>2 DEF Kept, NormalizeSeasons
<1>3. row \in SerialnoSeasons(s)
  BY DetailFacts DEF SerialnoContent
<1>4. Found(row, SerialnoSeasons(t))
  <2> DEFINE D(f) == IF s.shape = "flat" /\ f.d # 0 THEN {f.d} ELSE DubsOf(s.files)
             E(f) == IF t.shape = "flat" /\ f.d # 0 THEN {f.d} ELSE DubsOf(t.files)
  <2>1. PICK i \in DOMAIN tree : \E j \in DOMAIN tree[i] : row = Row(<<i, j>>, tree[i][j], D(tree[i][j]))
    BY <1>3 DEF SerialnoSeasons, RowsOf
  <2>2. PICK j \in DOMAIN tree[i] : row = Row(<<i, j>>, tree[i][j], D(tree[i][j]))
    BY <2>1
  <2>3. i \in DOMAIN wide /\ j \in DOMAIN wide[i] /\ wide[i][j] = tree[i][j]
    BY <1>2, PlaceStays
  <2>4. D(tree[i][j]) \subseteq E(wide[i][j])
    BY <1>1, <2>3 DEF Kept
  <2>5. SerialnoSeasons(t) =
           UNION {{Row(<<p, q>>, wide[p][q], E(wide[p][q])) : q \in DOMAIN wide[p]} : p \in DOMAIN wide}
    BY Zenon DEF SerialnoSeasons, RowsOf
  <2> HIDE DEF tree, wide, D, E
  <2>6. Row(<<i, j>>, wide[i][j], E(wide[i][j])) \in SerialnoSeasons(t)
    BY <2>3, <2>5
  <2> QED BY <2>2, <2>3, <2>4, <2>6, RowStays
<1>5. SerialnoPage(t, listed) = SerialnoPage(s, listed) /\ t.titled = s.titled
  BY <1>1 DEF Kept, SerialnoPage
<1> DEFINE code == Refusal(<<Lenient(listed.page), Unless(s.titled, "parse_failed")>>
                           \o SerialnoPage(s, listed))
<1>6. /\ row \in Detail(code, SerialnoSeasons(s)).rows
      /\ SerialnoContent(t, listed) = Detail(code, SerialnoSeasons(t))
  BY <1>5 DEF SerialnoContent
<1> QED BY <1>4, <1>6, DetailFound

LEMMA KinovezhaStays ==
    ASSUME NEW s, Possible("kinovezha", s), NEW t, Grown(s, t), NEW listed,
           NEW row \in KinovezhaContent(s, listed).rows
    PROVE  Found(row, KinovezhaContent(t, listed).rows)
<1> DEFINE tree == Folders(s.files, "s")
           wide == Folders(t.files, "s")
           D(f) == {f.d} \ {0}
           code == Refusal(<<Lenient(listed.page), Unless(s.titled, "parse_failed")>>
                           \o <<Lenient(listed.player), Unless(s.payload = "list", "parse_failed")>>)
<1>1. /\ Kept(s, t) /\ s.series /\ s.files \in Seq(File) /\ t.files \in Seq(File)
      /\ Begins(s.files, t.files)
  BY GrownFacts
<1>2. Grows(tree, wide)
  BY <1>1, FoldersBegin
<1>3. s.player # "none"
  BY DEF KinovezhaContent, Detail
<1>4. /\ row \in Detail(code, KinovezhaSeasons(s)).rows
      /\ KinovezhaContent(t, listed) = Detail(code, KinovezhaSeasons(t))
  BY <1>1, <1>3 DEF KinovezhaContent, Kept
<1>5. row \in KinovezhaSeasons(s)
  BY <1>4, DetailFacts
<1>6. PICK i \in DOMAIN tree : \E j \in DOMAIN tree[i] : row = Row(<<i, j>>, tree[i][j], D(tree[i][j]))
  BY <1>5 DEF KinovezhaSeasons, RowsOf
<1>7. PICK j \in DOMAIN tree[i] : row = Row(<<i, j>>, tree[i][j], D(tree[i][j]))
  BY <1>6
<1>8. KinovezhaSeasons(t) =
         UNION {{Row(<<p, q>>, wide[p][q], D(wide[p][q])) : q \in DOMAIN wide[p]} : p \in DOMAIN wide}
  BY Zenon DEF KinovezhaSeasons, RowsOf
<1> HIDE DEF tree, wide, D, code
<1>9. i \in DOMAIN wide /\ j \in DOMAIN wide[i] /\ wide[i][j] = tree[i][j]
  BY <1>2, PlaceStays
<1>10. Row(<<i, j>>, wide[i][j], D(wide[i][j])) \in KinovezhaSeasons(t)
  BY <1>8, <1>9
<1>11. Found(row, KinovezhaSeasons(t))
  BY <1>7, <1>9, <1>10, RowStays
<1> QED BY <1>4, <1>11, DetailFound

LEMMA UaserialsproStays ==
    ASSUME NEW s, Possible("uaserialspro", s), NEW t, Grown(s, t), NEW listed,
           NEW row \in UaserialsproContent(s, listed).rows
    PROVE  Found(row, UaserialsproContent(t, listed).rows)
<1> DEFINE tree == Folders(s.files, "s")
           wide == Folders(t.files, "s")
           D(f) == {f.d} \ {0}
           code == Refusal(<<Lenient(listed.page), Unless(s.titled, "parse_failed")>>
                           \o UaserialsproPage(s, listed))
<1>1. /\ Kept(s, t) /\ s.payload = "list" /\ s.files \in Seq(File) /\ t.files \in Seq(File)
      /\ Begins(s.files, t.files)
  BY GrownFacts
<1>2. Grows(tree, wide)
  BY <1>1, FoldersBegin
<1>3. UaserialsproPage(t, listed) = UaserialsproPage(s, listed) /\ t.titled = s.titled /\ t.payload = "list"
  BY <1>1 DEF Kept, UaserialsproPage
<1>4. /\ row \in Detail(code, UaserialsproSeasons(s)).rows
      /\ UaserialsproContent(t, listed) = Detail(code, UaserialsproSeasons(t))
  BY <1>3 DEF UaserialsproContent
<1>5. row \in UaserialsproSeasons(s)
  BY <1>4, DetailFacts
<1>6. PICK i \in DOMAIN tree : \E j \in DOMAIN tree[i] : row = Row(<<i, j>>, tree[i][j], D(tree[i][j]))
  BY <1>1, <1>5 DEF UaserialsproSeasons, RowsOf
<1>7. PICK j \in DOMAIN tree[i] : row = Row(<<i, j>>, tree[i][j], D(tree[i][j]))
  BY <1>6
<1>8. UaserialsproSeasons(t) =
         UNION {{Row(<<p, q>>, wide[p][q], D(wide[p][q])) : q \in DOMAIN wide[p]} : p \in DOMAIN wide}
  BY <1>3, Zenon DEF UaserialsproSeasons, RowsOf
<1> HIDE DEF tree, wide, D, code
<1>9. i \in DOMAIN wide /\ j \in DOMAIN wide[i] /\ wide[i][j] = tree[i][j]
  BY <1>2, PlaceStays
<1>10. Row(<<i, j>>, wide[i][j], D(wide[i][j])) \in UaserialsproSeasons(t)
  BY <1>8, <1>9
<1>11. Found(row, UaserialsproSeasons(t))
  BY <1>7, <1>9, <1>10, RowStays
<1> QED BY <1>4, <1>11, DetailFound

\* Rows that all offer the same dubs.
Shows(rows, tree, dubs) ==
    rows = UNION {{Row(<<i, j>>, tree[i][j], dubs) : j \in DOMAIN tree[i]} : i \in DOMAIN tree}

\* Rows of a playlist that grew are still listed.
LEMMA ShownStay ==
    ASSUME NEW tree, NEW wide, Grows(tree, wide), NEW dubs, NEW more, dubs \subseteq more,
           NEW rows, NEW after, Shows(rows, tree, dubs), Shows(after, wide, more), NEW row \in rows
    PROVE  Found(row, after)
<1>1. PICK i \in DOMAIN tree : \E j \in DOMAIN tree[i] : row = Row(<<i, j>>, tree[i][j], dubs)
  BY DEF Shows
<1>2. PICK j \in DOMAIN tree[i] : row = Row(<<i, j>>, tree[i][j], dubs)
  BY <1>1
<1>3. i \in DOMAIN wide /\ j \in DOMAIN wide[i] /\ wide[i][j] = tree[i][j]
  BY PlaceStays
<1>4. Row(<<i, j>>, wide[i][j], more) \in after
  BY <1>3 DEF Shows
<1> QED BY <1>2, <1>3, <1>4, RowStays

LEMMA KlontvStays ==
    ASSUME NEW s, Possible("klontv", s), NEW t, Grown(s, t), NEW listed,
           NEW row \in KlontvContent(s, listed).rows
    PROVE  Found(row, KlontvContent(t, listed).rows)
<1> DEFINE code == Refusal(<<Lenient(listed.page), Unless(s.titled, "parse_failed"),
                             Unless(s.player # "none", "parse_failed")>>)
           rows == KlontvSeasons(s, listed)
           after == KlontvSeasons(t, listed)
<1>1. /\ Kept(s, t) /\ s.series /\ s.files \in Seq(File) /\ t.files \in Seq(File)
      /\ Begins(s.files, t.files) /\ s.files # <<>> /\ t.files # <<>> /\ Head(t.files) = Head(s.files)
      /\ DubsOf(s.files) \subseteq DubsOf(t.files)
  BY GrownFacts
<1>2. row \in Detail(code, rows).rows /\ KlontvContent(t, listed) = Detail(code, after)
  BY <1>1 DEF KlontvContent, Kept
<1>3. row \in rows
  BY <1>2, DetailFacts
<1>4. /\ listed.player = "page" /\ s.payload = "list" /\ t.payload = "list" /\ t.shape = s.shape
      /\ s.shape \in {"dubbed", "tracks"}
  BY <1>1, <1>3 DEF KlontvSeasons, Kept
<1>5. CASE s.shape = "dubbed"
  <2> DEFINE tree == Folders(DubFolder(s.files, 0), "s")
             wide == Folders(DubFolder(t.files, 0), "s")
  <2>1. Grows(tree, wide)
    BY <1>1, LeadGrows
  <2>2. Shows(rows, tree, DubsOf(s.files)) /\ Shows(after, wide, DubsOf(t.files))
    BY <1>4, <1>5, Zenon DEF KlontvSeasons, RowsOf, Shows
  <2> HIDE DEF tree, wide, rows, after
  <2>3. Found(row, after)
    BY <1>1, <1>3, <2>1, <2>2, ShownStay
  <2> QED BY <1>2, <2>3, DetailFound
<1>6. CASE s.shape = "tracks"
  <2> DEFINE tree == Folders(s.files, "d")
             wide == Folders(t.files, "d")
  <2>1. Grows(tree, wide)
    BY <1>1, FoldersBegin
  <2>2. s.shape # "dubbed"
    BY <1>6
  <2>3. Shows(rows, tree, {Uk}) /\ Shows(after, wide, {Uk})
    BY <1>4, <1>6, <2>2, Zenon DEF KlontvSeasons, RowsOf, Shows
  <2> HIDE DEF tree, wide, rows, after
  <2>4. Found(row, after)
    BY <1>3, <2>1, <2>3, ShownStay
  <2> QED BY <1>2, <2>4, DetailFound
<1> QED BY <1>4, <1>5, <1>6

LEMMA DoramyStays ==
    ASSUME NEW s, Possible("doramyworld", s), NEW t, Grown(s, t), NEW listed,
           NEW row \in DoramyContent(s, listed).rows
    PROVE  Found(row, DoramyContent(t, listed).rows)
<1> DEFINE code == Refusal(<<Lenient(listed.page), Unless(s.titled, "parse_failed"),
                             Unless(s.player # "none", "gated")>>)
           tree == Folders(DubFolder(s.files, 0), "s")
           wide == Folders(DubFolder(t.files, 0), "s")
           dubs == {TranslationId(g.d) : g \in ToSet(s.files)}
           more == {TranslationId(g.d) : g \in ToSet(t.files)}
           rows == RowsOf(tree, LAMBDA f : dubs)
           after == RowsOf(wide, LAMBDA f : more)
<1>1. /\ Kept(s, t) /\ s.files \in Seq(File) /\ t.files \in Seq(File)
      /\ Begins(s.files, t.files) /\ s.files # <<>> /\ t.files # <<>> /\ Head(t.files) = Head(s.files)
      /\ ToSet(s.files) \subseteq ToSet(t.files)
  BY GrownFacts
<1>2. DoramyContent(s, listed) = Detail(code, rows) /\ DoramyContent(t, listed) = Detail(code, after)
  BY <1>1 DEF DoramyContent, Kept
<1>3. Shows(rows, tree, dubs) /\ Shows(after, wide, more)
  BY Zenon DEF RowsOf, Shows
<1>4. Grows(tree, wide)
  BY <1>1, LeadGrows
<1>5. dubs \subseteq more
  BY <1>1
<1> HIDE DEF tree, wide, rows, after, dubs, more, code
<1>6. row \in rows
  BY <1>2, DetailFacts
<1>7. Found(row, after)
  BY <1>3, <1>4, <1>5, <1>6, ShownStay
<1> QED BY <1>2, <1>7, DetailFound

LEMMA HentaiukrStays ==
    ASSUME NEW s, Possible("hentaiukr", s), NEW t, Grown(s, t), NEW listed,
           NEW row \in HentaiukrContent(s, listed).rows
    PROVE  Found(row, HentaiukrContent(t, listed).rows)
<1> DEFINE code == Refusal(HentaiukrTitle(s, listed) \o
                   <<Lenient(listed.page), Unless(s.titled, "parse_failed"), Posted(listed.player)>>)
           rows == RowsOf(<<s.files>>, LAMBDA f : {})
           after == RowsOf(<<t.files>>, LAMBDA f : {})
<1>1. Kept(s, t) /\ s.payload = "list" /\ Begins(s.files, t.files)
  BY GrownFacts
<1>2. HentaiukrTitle(t, listed) = HentaiukrTitle(s, listed) /\ t.titled = s.titled /\ t.payload = "list"
  BY <1>1 DEF HentaiukrTitle, Kept
<1>3. HentaiukrContent(s, listed) = Detail(code, rows) /\ HentaiukrContent(t, listed) = Detail(code, after)
  BY <1>1, <1>2 DEF HentaiukrContent
<1>4. Shows(rows, <<s.files>>, {}) /\ Shows(after, <<t.files>>, {})
  BY Zenon DEF RowsOf, Shows
<1>5. Grows(<<s.files>>, <<t.files>>)
  BY <1>1 DEF Grows
<1> HIDE DEF rows, after, code
<1>6. row \in rows
  BY <1>3, DetailFacts
<1>7. Found(row, after)
  BY <1>4, <1>5, <1>6, ShownStay
<1> QED BY <1>3, <1>7, DetailFound

LEMMA UfdubStays ==
    ASSUME NEW s, Possible("ufdub", s), NEW t, Grown(s, t), NEW listed,
           NEW row \in UfdubContent(s, listed).rows
    PROVE  Found(row, UfdubContent(t, listed).rows)
<1> DEFINE code == Refusal(<<Lenient(listed.page), Unless(s.titled, "parse_failed"),
                             Unless(s.player # "none", "gated"), Lenient(listed.player),
                             Unless(TRUE, "gated")>>)
           rows == RowsOf(<<s.files>>, LAMBDA f : {})
           after == RowsOf(<<t.files>>, LAMBDA f : {})
<1>1. /\ Kept(s, t) /\ s.series /\ Begins(s.files, t.files)
      /\ (s.files # <<>>) = TRUE /\ (t.files # <<>>) = TRUE
  BY GrownFacts
<1>2. UfdubContent(s, listed) = Detail(code, rows) /\ UfdubContent(t, listed) = Detail(code, after)
  BY <1>1 DEF UfdubContent, Kept
<1>3. Shows(rows, <<s.files>>, {}) /\ Shows(after, <<t.files>>, {})
  BY Zenon DEF RowsOf, Shows
<1>4. Grows(<<s.files>>, <<t.files>>)
  BY <1>1 DEF Grows
<1> HIDE DEF rows, after, code
<1>5. row \in rows
  BY <1>2, DetailFacts
<1>6. Found(row, after)
  BY <1>3, <1>4, <1>5, ShownStay
<1> QED BY <1>2, <1>6, DetailFound

LEMMA UaflixStays ==
    ASSUME NEW s, Possible("uaflix", s), NEW t, Grown(s, t), NEW listed,
           NEW row \in UaflixContent(s, listed).rows
    PROVE  Found(row, UaflixContent(t, listed).rows)
<1> DEFINE rows == UaflixSeasons(s, listed)
           after == UaflixSeasons(t, listed)
           code(any) == Refusal(<<Lenient(listed.page), Unless(s.titled, "parse_failed"),
                                  Unless(any \/ s.player = "vod", "gated")>>)
           tree == Folders(DubFolder(s.files, 0), "s")
           wide == Folders(DubFolder(t.files, 0), "s")
<1>1. /\ Kept(s, t) /\ s.series /\ s.files \in Seq(File) /\ t.files \in Seq(File)
      /\ Begins(s.files, t.files) /\ s.files # <<>> /\ t.files # <<>> /\ Head(t.files) = Head(s.files)
      /\ ToSet(s.files) \subseteq ToSet(t.files)
  BY GrownFacts
<1>2. /\ t.series = s.series /\ t.linked = s.linked /\ t.player = s.player /\ t.payload = s.payload
      /\ t.titled = s.titled
  BY <1>1 DEF Kept
<1>3. UaflixContent(s, listed) = Detail(code(rows # {}), rows)
  BY Zenon DEF UaflixContent
<1>4. UaflixContent(t, listed) = Detail(code(after # {}), after)
  BY <1>2 DEF UaflixContent
<1>5. row \in rows
  BY <1>3, DetailFacts
<1>6. Found(row, after)
  <2>1. CASE s.linked
    <3>1. PICK f \in ToSet(s.files) : row = Row(<<f.s, f.e>>, f, {})
      BY <1>1, <1>5, <2>1 DEF UaflixSeasons
    <3>2. f \in ToSet(t.files)
      BY <1>1
    <3>3. Row(<<f.s, f.e>>, f, {}) \in after
      BY <1>1, <1>2, <2>1, <3>2 DEF UaflixSeasons
    <3> HIDE DEF after
    <3> QED BY <3>1, <3>3, RowStays
  <2>2. CASE ~s.linked
    <3>1. rows = UaflixProbe(s, listed) /\ after = UaflixProbe(t, listed)
      BY <1>1, <1>2, <2>2 DEF UaflixSeasons
    <3>2. s.player = "serial" /\ listed.player = "page" /\ s.payload = "list"
      BY <1>5, <3>1 DEF UaflixProbe
    <3>3. Shows(rows, tree, {}) /\ Shows(after, wide, {})
      BY <1>2, <3>1, <3>2, Zenon DEF UaflixProbe, RowsOf, Shows
    <3>4. Grows(tree, wide)
      BY <1>1, LeadGrows
    <3> HIDE DEF rows, after, tree, wide
    <3> QED BY <1>5, <3>3, <3>4, ShownStay
  <2> QED BY <2>1, <2>2
<1> HIDE DEF rows, after, code
<1>7. (rows # {}) = TRUE /\ (after # {}) = TRUE
  BY <1>5, <1>6 DEF Found
<1>8. row \in Detail(code(TRUE), rows).rows /\ UaflixContent(t, listed) = Detail(code(TRUE), after)
  BY <1>3, <1>4, <1>7
<1> QED BY <1>6, <1>8, DetailFound

LEMMA UnimayStays ==
    ASSUME NEW s, Possible("unimay", s), NEW t, Grown(s, t), NEW listed,
           NEW row \in UnimayContent(s, listed).rows
    PROVE  Found(row, UnimayContent(t, listed).rows)
<1> DEFINE Pos(f, i) == <<1, IF f.e = 0 THEN i ELSE f.e>>
           rows == {Row(Pos(s.files[i], i), s.files[i], {}) :
                      i \in {j \in DOMAIN s.files : s.files[j].d # Premium}}
           after == {Row(Pos(t.files[i], i), t.files[i], {}) :
                      i \in {j \in DOMAIN t.files : t.files[j].d # Premium}}
           code == Refusal(UnimayRelease(s, listed))
<1>1. Kept(s, t) /\ s.series /\ Begins(s.files, t.files)
  BY GrownFacts
<1>2. t.series /\ UnimayRelease(t, listed) = UnimayRelease(s, listed)
  BY <1>1 DEF Kept, UnimayRelease
<1>3. UnimayContent(s, listed) = Detail(code, rows) /\ UnimayContent(t, listed) = Detail(code, after)
  BY <1>1, <1>2, Zenon DEF UnimayContent
<1>4. row \in rows
  <2> HIDE DEF rows, code
  <2> QED BY <1>3, DetailFacts
<1>5. PICK i \in DOMAIN s.files : s.files[i].d # Premium /\ row = Row(Pos(s.files[i], i), s.files[i], {})
  BY <1>4
<1>6. i \in DOMAIN t.files /\ t.files[i] = s.files[i]
  BY <1>1 DEF Begins
<1>7. Row(Pos(s.files[i], i), s.files[i], {}) \in after
  BY <1>5, <1>6
<1> HIDE DEF rows, after, code, Pos
<1>8. Found(row, after)
  BY <1>5, <1>7, RowStays
<1> QED BY <1>3, <1>8, DetailFound

\* Unless it is the lone row of files that bear no number.
LEMMA BambooStays ==
    ASSUME NEW s, Possible("bambooua", s), NEW t, Grown(s, t), NEW listed,
           NEW row \in BambooContent(s, listed).rows
    PROVE  \/ Found(row, BambooContent(t, listed).rows)
           \/ row.at = <<>> /\ row.says = Head(s.files) /\ row.dubs = {}
<1> DEFINE where == {i \in DOMAIN s.files : s.files[i].e # 0}
           there == {i \in DOMAIN t.files : t.files[i].e # 0}
           tree == Folders(Those(s.files, LAMBDA f : f.e # 0), "s")
           wide == Folders(Those(t.files, LAMBDA f : f.e # 0), "s")
           rows == RowsOf(tree, LAMBDA f : {})
           after == RowsOf(wide, LAMBDA f : {})
           code == Refusal(<<Lenient(listed.page), Unless(s.titled, "parse_failed")>> \o BambooGate(s, listed)
                           \o <<Unless({f.d : f \in ToSet(s.files)} # {Sponsor}, "gated")>>)
<1>1. /\ Kept(s, t) /\ s.series /\ s.files \in Seq(File) /\ t.files \in Seq(File)
      /\ Begins(s.files, t.files) /\ s.files # <<>> /\ t.files # <<>>
  BY GrownFacts
<1>2. PICK f \in ToSet(s.files), new \in File : new.d = f.d /\ t.files = Append(s.files, new)
  BY GrownFacts
<1>3. {g.d : g \in ToSet(t.files)} = {g.d : g \in ToSet(s.files)}
  <2> DEFINE a == s.files
             b == t.files
  <2>1. a \in Seq(File) /\ b = Append(a, new)
    BY <1>1, <1>2
  <2> HIDE DEF a, b
  <2>2. \A g : g \in ToSet(b) <=> g \in ToSet(a) \/ g = new
    BY <2>1 DEF ToSet
  <2> QED BY <1>2, <2>2 DEF a, b
<1>4. BambooGate(t, listed) = BambooGate(s, listed) /\ t.titled = s.titled /\ t.series
  BY <1>1 DEF Kept, BambooGate
<1>5. /\ BambooContent(s, listed) = Detail(code, BambooSeasons(s))
      /\ BambooContent(t, listed) = Detail(code, BambooSeasons(t))
  BY <1>3, <1>4, Zenon DEF BambooContent
<1>6. Begins(Picked(s.files, where), Picked(t.files, there))
  <2>1. where = there \cap DOMAIN s.files /\ there \in SUBSET (DOMAIN t.files)
    BY <1>1 DEF Begins
  <2> HIDE DEF where, there
  <2> QED BY <1>1, <2>1, PickedBegins
<1>7. /\ Picked(s.files, where) \in Seq(File) /\ Picked(t.files, there) \in Seq(File)
      /\ tree = Folders(Picked(s.files, where), "s") /\ wide = Folders(Picked(t.files, there), "s")
  <2>1. where \in SUBSET (DOMAIN s.files) /\ there \in SUBSET (DOMAIN t.files)
    OBVIOUS
  <2>2. tree = Folders(Picked(s.files, where), "s") /\ wide = Folders(Picked(t.files, there), "s")
    BY DEF Those
  <2> HIDE DEF where, there
  <2> QED BY <1>1, <2>1, <2>2, ThoseFacts
<1>8. Grows(tree, wide)
  <2> HIDE DEF where, there, tree, wide
  <2> QED BY <1>6, <1>7, FoldersBegin
<1>9. Shows(rows, tree, {}) /\ Shows(after, wide, {})
  BY Zenon DEF RowsOf, Shows
<1>10. BambooSeasons(s) = IF rows = {} THEN FilmRow(s.files, {}) ELSE rows
  BY <1>1 DEF BambooSeasons
<1>11. BambooSeasons(t) = IF after = {} THEN FilmRow(t.files, {}) ELSE after
  BY <1>4 DEF BambooSeasons
<1> HIDE DEF rows, after, tree, wide, code
<1>12. row \in BambooSeasons(s)
  BY <1>5, DetailFacts
<1>13. CASE rows = {}
  BY <1>10, <1>12, <1>13, FilmRowFacts
<1>14. CASE rows # {}
  <2>1. row \in rows
    BY <1>10, <1>12, <1>14
  <2>2. Found(row, after)
    BY <1>8, <1>9, <2>1, ShownStay
  <2>3. BambooSeasons(t) = after
    BY <1>11, <2>2 DEF Found
  <2> QED BY <1>5, <2>2, <2>3, DetailFound
<1> QED BY <1>13, <1>14

\* The rows of eneyida by the shape of its playlist: the dub or the season is a folder, ...
LEMMA EneyidaShows ==
    ASSUME NEW s, NEW listed, s.payload = "list", listed.player = "page"
    PROVE  LET rows == EneyidaSeasons(s, listed)
               tree == Folders(s.files, "s")
           IN  /\ s.shape = "tracks" => Shows(rows, <<DubFolder(s.files, 0)>>, DubsOf(s.files))
               /\ s.shape = "dubbed" => Shows(rows, Folders(DubFolder(s.files, 0), "s"), {Uk})
               /\ s.shape = "plain" => Shows(rows, tree, {Uk})
<1>1. CASE s.shape = "tracks"
  <2>1. s.shape # "flat" /\ s.shape # "dubbed" /\ s.shape # "plain"
    BY <1>1
  <2> QED BY <1>1, <2>1, Zenon DEF EneyidaSeasons, RowsOf, Shows
<1>2. CASE s.shape = "dubbed"
  <2>1. s.shape # "tracks" /\ s.shape \notin {"season", "wrapped"} /\ s.shape # "flat" /\ s.shape # "plain"
    BY <1>2
  <2> QED BY <1>2, <2>1, Zenon DEF EneyidaSeasons, RowsOf, Shows
<1>3. CASE s.shape = "plain"
  <2>1. /\ s.shape # "tracks" /\ s.shape # "dubbed" /\ s.shape \notin {"season", "wrapped"}
        /\ s.shape # "flat"
    BY <1>3
  <2> QED BY <1>3, <2>1, Zenon DEF EneyidaSeasons, RowsOf, Shows
<1> QED BY <1>1, <1>2, <1>3

\* A flat list has no rows.
LEMMA EneyidaNests ==
    ASSUME NEW s, Possible("eneyida", s), NEW listed, EneyidaSeasons(s, listed) # {}
    PROVE  s.shape \in {"tracks", "dubbed", "plain", "season", "wrapped"}
<1>1. s.shape # "flat"
  BY DEF EneyidaSeasons
<1>2. s \in Title
  BY SiteFacts
<1>3. s.shape \in {"flat", "plain", "season", "dubbed", "tracks", "wrapped"}
  BY <1>2 DEF Title
<1> QED BY <1>1, <1>3

\* The first dub of every season.
Leads(files) == [i \in DOMAIN Folders(files, "s") |-> DubFolder(Folders(files, "s")[i], 0)]

\* ... or the dubs of each season are.
LEMMA EneyidaDubs ==
    ASSUME NEW s, NEW listed, s.payload = "list", listed.player = "page", s.shape \in {"season", "wrapped"}
    PROVE  EneyidaSeasons(s, listed) =
               UNION {{Row(<<i, j>>, Leads(s.files)[i][j], DubsOf(Folder(s.files, "s", Leads(s.files)[i][j].s)))
                         : j \in DOMAIN Leads(s.files)[i]} : i \in DOMAIN Leads(s.files)}
<1>1. s.shape # "tracks" /\ s.shape # "flat"
  OBVIOUS
<1>2. EneyidaSeasons(s, listed) = RowsOf(Leads(s.files), LAMBDA f : DubsOf(Folder(s.files, "s", f.s)))
  BY <1>1, Zenon DEF EneyidaSeasons, Leads
<1> QED BY <1>2, Zenon DEF RowsOf

LEMMA EneyidaStays ==
    ASSUME NEW s, Possible("eneyida", s), NEW t, Grown(s, t), NEW listed,
           NEW row \in EneyidaContent(s, listed).rows
    PROVE  Found(row, EneyidaContent(t, listed).rows)
<1> DEFINE rows == EneyidaSeasons(s, listed)
           after == EneyidaSeasons(t, listed)
           code == Refusal(<<Lenient(listed.page), Unless(s.titled, "parse_failed"),
                             Unless(s.player # "none", "parse_failed"),
                             Unless(listed.player # "page" \/ ~s.removed, "gated")>>)
           seasons == Folders(s.files, "s")
           later == Folders(t.files, "s")
<1>1. /\ Kept(s, t) /\ s.series /\ s.payload = "list" /\ s.files \in Seq(File) /\ t.files \in Seq(File)
      /\ Begins(s.files, t.files) /\ s.files # <<>> /\ t.files # <<>> /\ Head(t.files) = Head(s.files)
      /\ DubsOf(s.files) \subseteq DubsOf(t.files) /\ ToSet(s.files) \subseteq ToSet(t.files)
  BY GrownFacts
<1>2. /\ t.series = s.series /\ t.titled = s.titled /\ t.player = s.player /\ t.removed = s.removed
      /\ t.shape = s.shape /\ t.payload = "list"
  BY <1>1 DEF Kept
<1>3. EneyidaContent(s, listed) = Detail(code, rows) /\ EneyidaContent(t, listed) = Detail(code, after)
  BY <1>1, <1>2 DEF EneyidaContent
<1>4. row \in rows
  <2> HIDE DEF rows, code
  <2> QED BY <1>3, DetailFacts
<1>5. listed.player = "page" /\ s.payload = "list" /\ t.payload = "list" /\ t.shape = s.shape
  BY <1>1, <1>2, <1>4 DEF EneyidaSeasons
<1>6. Grows(seasons, later)
  BY <1>1, FoldersBegin
<1>7. ASSUME NEW tree, NEW wide, NEW dubs, NEW more, Grows(tree, wide), dubs \subseteq more,
             Shows(rows, tree, dubs), Shows(after, wide, more)
      PROVE  Found(row, after)
  <2> HIDE DEF rows, after
  <2> QED BY <1>4, <1>7, ShownStay
<1>8. ASSUME s.shape = "tracks"
      PROVE  Found(row, after)
  <2> DEFINE tree == <<DubFolder(s.files, 0)>>
             wide == <<DubFolder(t.files, 0)>>
  <2>1. Grows(tree, wide)
    BY <1>1, LeadGrows DEF Grows
  <2>2. Shows(rows, tree, DubsOf(s.files)) /\ Shows(after, wide, DubsOf(t.files))
    BY <1>5, <1>8, EneyidaShows
  <2> QED BY <1>1, <1>7, <2>1, <2>2
<1>9. ASSUME s.shape = "dubbed"
      PROVE  Found(row, after)
  <2> DEFINE tree == Folders(DubFolder(s.files, 0), "s")
             wide == Folders(DubFolder(t.files, 0), "s")
  <2>1. Grows(tree, wide)
    BY <1>1, LeadGrows
  <2>2. s.shape # "tracks" /\ s.shape \notin {"season", "wrapped"}
    BY <1>9
  <2>3. Shows(rows, tree, {Uk}) /\ Shows(after, wide, {Uk})
    BY <1>5, <1>9, EneyidaShows
  <2> QED BY <1>7, <2>1, <2>3
<1>10. ASSUME s.shape = "plain"
      PROVE  Found(row, after)
  <2>2. Shows(rows, seasons, {Uk}) /\ Shows(after, later, {Uk})
    BY <1>5, <1>10, EneyidaShows
  <2> QED BY <1>6, <1>7, <2>2
<1>11. ASSUME s.shape \in {"season", "wrapped"}
      PROVE  Found(row, after)
  <2> DEFINE tree == Leads(s.files)
             wide == Leads(t.files)
             D(f) == DubsOf(Folder(s.files, "s", f.s))
             E(f) == DubsOf(Folder(t.files, "s", f.s))
  <2>1. Grows(tree, wide)
    <3>1. \A i \in DOMAIN seasons : seasons[i] # <<>> /\ seasons[i] \in Seq(File)
      BY <1>1, FoldersFacts
    <3>2. \A i \in DOMAIN later : later[i] # <<>> /\ later[i] \in Seq(File)
      BY <1>1, FoldersFacts
    <3>4. /\ tree = [i \in DOMAIN seasons |-> DubFolder(seasons[i], 0)]
          /\ wide = [i \in DOMAIN later |-> DubFolder(later[i], 0)]
      BY DEF Leads
    <3> HIDE DEF seasons, later, tree, wide
    <3>3. ASSUME NEW i \in DOMAIN seasons
          PROVE  i \in DOMAIN later /\ Begins(DubFolder(seasons[i], 0), DubFolder(later[i], 0))
      <4> DEFINE a == seasons[i]
                 b == later[i]
      <4>1. i \in DOMAIN later /\ Begins(a, b)
        BY <1>6 DEF Grows
      <4>2. a \in Seq(File) /\ b \in Seq(File) /\ a # <<>> /\ b # <<>>
        BY <3>1, <3>2, <4>1
      <4> HIDE DEF a, b
      <4>3. Head(b) = Head(a)
        <5>1. 1 \in DOMAIN a /\ Head(a) = a[1] /\ Head(b) = b[1]
          BY <4>2
        <5> QED BY <4>1, <5>1 DEF Begins
      <4> QED BY <4>1, <4>2, <4>3, LeadGrows DEF a, b
    <3> QED BY <3>3, <3>4 DEF Grows
  <2>2. s.shape # "tracks" /\ t.shape # "tracks" /\ t.shape \in {"season", "wrapped"}
    BY <1>2, <1>11
  <2>3. rows = UNION {{Row(<<p, q>>, tree[p][q], D(tree[p][q])) : q \in DOMAIN tree[p]} : p \in DOMAIN tree}
    BY <1>5, <1>11, EneyidaDubs
  <2>4. after = UNION {{Row(<<p, q>>, wide[p][q], E(wide[p][q])) : q \in DOMAIN wide[p]} : p \in DOMAIN wide}
    BY <1>5, <2>2, EneyidaDubs
  <2>5. \A f : D(f) \subseteq E(f)
    <3>1. \A v : Begins(Folder(s.files, "s", v), Folder(t.files, "s", v))
      BY <1>1, FolderBegins
    <3> QED BY <3>1 DEF Begins, DubsOf, ToSet
  <2> HIDE DEF rows, after, tree, wide, D, E
  <2>6. PICK i \in DOMAIN tree : \E j \in DOMAIN tree[i] : row = Row(<<i, j>>, tree[i][j], D(tree[i][j]))
    BY <1>4, <2>3
  <2>7. PICK j \in DOMAIN tree[i] : row = Row(<<i, j>>, tree[i][j], D(tree[i][j]))
    BY <2>6
  <2>8. i \in DOMAIN wide /\ j \in DOMAIN wide[i] /\ wide[i][j] = tree[i][j]
    BY <2>1, PlaceStays
  <2>9. Row(<<i, j>>, wide[i][j], E(wide[i][j])) \in after
    BY <2>4, <2>8
  <2> QED BY <2>5, <2>7, <2>8, <2>9, RowStays
<1>12. Found(row, after)
  <2>1. s.shape \in {"tracks", "dubbed", "plain", "season", "wrapped"}
    BY <1>4, EneyidaNests
  <2> QED BY <1>8, <1>9, <1>10, <1>11, <2>1
<1> HIDE DEF rows, after, code
<1> QED BY <1>3, <1>12, DetailFound

-----------------------------------------------------------------------------
(* Playlists that are sorted, or arranged by dub.                          *)

\* q is what is found at the members of I, taken in the order of R.
Along(q, files, R, I) ==
    \E h, n : Trail(h, n, R, I) /\ DOMAIN q = 1 .. n /\ \A k \in 1 .. n : q[k] = files[h[k]]

\* What runs in an order begins with what ran in it before all that was added came behind.
LEMMA AlongBegins ==
    ASSUME NEW a, NEW b, Begins(a, b), NEW R, NEW I \in SUBSET (DOMAIN a), NEW J, Orders(R, J), Opens(I, J, R),
           NEW x, Along(x, a, R, I), NEW y, Along(y, b, R, J)
    PROVE  Begins(x, y)
<1>1. PICK g, n : Trail(g, n, R, I) /\ DOMAIN x = 1 .. n /\ \A k \in 1 .. n : x[k] = a[g[k]]
  BY DEF Along
<1>2. PICK h, m : Trail(h, m, R, J) /\ DOMAIN y = 1 .. m /\ \A k \in 1 .. m : y[k] = b[h[k]]
  BY DEF Along
<1>3. \A k \in 1 .. n : k \in 1 .. m /\ g[k] = h[k]
  BY <1>1, <1>2, SameStart
<1>4. \A k \in 1 .. n : g[k] \in DOMAIN a
  BY <1>1 DEF Trail
<1> QED BY <1>1, <1>2, <1>3, <1>4 DEF Begins

\* Arranging takes all of a playlist in its order.
LEMMA ArrangedTrail ==
    ASSUME NEW S, NEW files \in Seq(S), NEW ahead, Orders(ahead, DOMAIN files)
    PROVE  /\ Arranged(files, ahead) \in Seq(S)
           /\ \E g : /\ Trail(g, Len(files), ahead, DOMAIN files)
                     /\ DOMAIN Arranged(files, ahead) = 1 .. Len(files)
                     /\ \A n \in 1 .. Len(files) : Arranged(files, ahead)[n] = files[g[n]]
<1> DEFINE L == Len(files)
           I == DOMAIN files
           Nth(n) == CHOOSE i \in I : Cardinality({j \in I : j = i \/ <<j, i>> \in ahead}) = n
           q == Arranged(files, ahead)
           g == [n \in 1 .. L |-> Nth(n)]
<1>1. I = 1 .. L /\ L \in Nat
  OBVIOUS
<1>2. IsFiniteSet(I) /\ Cardinality(I) = L
  <2>1. IsFiniteSet(1 .. L) /\ Cardinality(1 .. L) = IF 1 > L THEN 0 ELSE L - 1 + 1
    BY <1>1, FS_Interval
  <2> QED BY <1>1, <2>1
<1>3. Orders(ahead, I)
  OBVIOUS
<1> HIDE DEF I, L
<1>4. /\ \A i \in I : Rank(ahead, I, i) \in 1 .. L
      /\ \A i, j \in I : <<i, j>> \in ahead => Rank(ahead, I, i) < Rank(ahead, I, j)
      /\ \A i, j \in I : Rank(ahead, I, i) = Rank(ahead, I, j) => i = j
      /\ \A n \in 1 .. L : \E i \in I : Rank(ahead, I, i) = n
  BY <1>2, <1>3, Ranked
<1>5. \A n \in 1 .. L : Nth(n) \in I /\ Rank(ahead, I, Nth(n)) = n
  BY <1>4, Zenon DEF Rank
<1>6. q = [n \in I |-> files[Nth(n)]]
  BY Zenon DEF Arranged, I
<1> HIDE DEF Nth, q
<1>7. \A n \in 1 .. L : g[n] = Nth(n) /\ g[n] \in I /\ Rank(ahead, I, g[n]) = n
  BY <1>5
<1> HIDE DEF g
<1>8. DOMAIN q = 1 .. L /\ \A n \in 1 .. L : q[n] = files[g[n]]
  BY <1>1, <1>6, <1>7
<1>9. ASSUME NEW i \in 1 .. L, NEW j \in 1 .. L, i < j PROVE <<g[i], g[j]>> \in ahead
  <2>1. g[i] # g[j]
    BY <1>1, <1>7, <1>9
  <2>2. <<g[j], g[i]>> \notin ahead
    <3> SUFFICES ASSUME <<g[j], g[i]>> \in ahead PROVE FALSE
      OBVIOUS
    <3>1. j < i
      BY <1>4, <1>7
    <3> QED BY <1>1, <1>9, <3>1
  <2> QED BY <1>3, <1>7, <2>1, <2>2 DEF Orders
<1>10. \A k \in I : \E i \in 1 .. L : g[i] = k
  <2> SUFFICES ASSUME NEW k \in I PROVE \E i \in 1 .. L : g[i] = k
    OBVIOUS
  <2>1. Rank(ahead, I, k) \in 1 .. L
    BY <1>4
  <2>2. g[Rank(ahead, I, k)] = k
    BY <1>4, <1>7, <2>1
  <2> QED BY <2>1, <2>2
<1>11. Trail(g, L, ahead, I)
  BY <1>1, <1>7, <1>9, <1>10 DEF Trail
<1>12. q \in Seq(S)
  BY <1>3, ArrangedFacts DEF q, I
<1> QED BY <1>8, <1>11, <1>12 DEF q, I, L

\* What is picked out of it still follows the order.
LEMMA PickedAlong ==
    ASSUME NEW S, NEW q \in Seq(S), NEW files, NEW R, NEW D, NEW g, Trail(g, Len(q), R, D),
           \A n \in 1 .. Len(q) : q[n] = files[g[n]],
           NEW pos \in SUBSET (DOMAIN q), NEW I, I \subseteq D,
           \A i \in 1 .. Len(q) : i \in pos <=> g[i] \in I
    PROVE  Along(Picked(q, pos), files, R, I)
<1> DEFINE x == Picked(q, pos)
           n == Cardinality(pos)
<1>1. x \in Seq(S) /\ \E p : Runs(p, x, q, pos)
  BY PickedRuns
<1>2. PICK p : Runs(p, x, q, pos)
  BY <1>1
<1>3. DOMAIN q = 1 .. Len(q) /\ Len(q) \in Nat
  OBVIOUS
<1>4. /\ \A i \in 1 .. Len(q) : g[i] \in D
      /\ \A i, j \in 1 .. Len(q) : i < j => <<g[i], g[j]>> \in R
      /\ \A k \in D : \E i \in 1 .. Len(q) : g[i] = k
  BY DEF Trail
<1> HIDE DEF x
<1>5. /\ Len(x) = n /\ n \in Nat /\ p \in [1 .. n -> pos]
      /\ \A i \in 1 .. n : x[i] = q[p[i]]
      /\ \A i, j \in 1 .. n : i < j => p[i] < p[j]
      /\ \A i \in pos : \E k \in 1 .. n : p[k] = i
  BY <1>2 DEF Runs
<1> HIDE DEF n
<1> DEFINE h == [k \in 1 .. n |-> g[p[k]]]
<1>6. \A k \in 1 .. n : p[k] \in pos /\ p[k] \in 1 .. Len(q) /\ h[k] = g[p[k]]
  BY <1>3, <1>5
<1> HIDE DEF h
<1>7. ASSUME NEW k \in 1 .. n PROVE h[k] \in I /\ x[k] = files[h[k]]
  <2>1. p[k] \in pos /\ p[k] \in 1 .. Len(q) /\ h[k] = g[p[k]] /\ x[k] = q[p[k]]
    BY <1>5, <1>6
  <2> QED BY <2>1
<1>8. ASSUME NEW i \in 1 .. n, NEW j \in 1 .. n, i < j PROVE <<h[i], h[j]>> \in R
  <2>1. p[i] \in 1 .. Len(q) /\ p[j] \in 1 .. Len(q) /\ h[i] = g[p[i]] /\ h[j] = g[p[j]]
    BY <1>6
  <2>2. p[i] < p[j]
    BY <1>5, <1>8
  <2> QED BY <1>4, <2>1, <2>2
<1>9. \A k \in I : \E i \in 1 .. n : h[i] = k
  <2> SUFFICES ASSUME NEW k \in I PROVE \E i \in 1 .. n : h[i] = k
    OBVIOUS
  <2>1. PICK i \in 1 .. Len(q) : g[i] = k
    BY <1>4
  <2>2. i \in pos
    BY <2>1
  <2>3. PICK m \in 1 .. n : p[m] = i
    BY <1>5, <2>2
  <2>4. h[m] = k
    BY <1>6, <2>1, <2>3
  <2> QED BY <2>4
<1>10. Trail(h, n, R, I)
  BY <1>5, <1>7, <1>8, <1>9 DEF Trail
<1>11. DOMAIN x = 1 .. n
  BY <1>1, <1>5 DEF x
<1> QED BY <1>7, <1>10, <1>11 DEF Along, x

\* The files of a label, and the first file of every label, in an order.
Marked(files, field, label) == {i \in DOMAIN files : files[i][field] = label}
Leaders(files, field, R) ==
    {i \in DOMAIN files : \A j \in DOMAIN files : <<j, i>> \in R => files[j][field] # files[i][field]}

\* The files of a label and the labels of an arranged playlist follow its order.
LEMMA ArrangedAlong ==
    ASSUME NEW S, NEW files \in Seq(S), NEW ahead, Orders(ahead, DOMAIN files), NEW field
    PROVE  LET q == Arranged(files, ahead)
           IN  /\ q \in Seq(S)
               /\ \A label : Along(Folder(q, field, label), files, ahead, Marked(files, field, label))
               /\ Along(Picked(q, Firsts(q, field)), files, ahead, Leaders(files, field, ahead))
<1> DEFINE q == Arranged(files, ahead)
           D == DOMAIN files
           leaders == Leaders(files, field, ahead)
           firsts == Firsts(q, field)
<1>1. q \in Seq(S) /\ \E g : Trail(g, Len(files), ahead, D) /\ DOMAIN q = 1 .. Len(files)
                                /\ \A n \in 1 .. Len(files) : q[n] = files[g[n]]
  BY ArrangedTrail
<1>2. PICK g : Trail(g, Len(files), ahead, D) /\ DOMAIN q = 1 .. Len(files)
               /\ \A n \in 1 .. Len(files) : q[n] = files[g[n]]
  BY <1>1
<1>3. Len(files) \in Nat
  OBVIOUS
<1>0. Orders(ahead, D)
  OBVIOUS
<1> HIDE DEF q, D
<1>4. Len(q) = Len(files) /\ DOMAIN q = 1 .. Len(q) /\ Len(q) \in Nat
  <2>1. DOMAIN q = 1 .. Len(q) /\ Len(q) \in Nat
    BY <1>1
  <2> QED BY <1>2, <1>3, <2>1
<1>5. /\ Trail(g, Len(q), ahead, D) /\ \A n \in 1 .. Len(q) : q[n] = files[g[n]] /\ g[n] \in D
      /\ \A i, j \in 1 .. Len(q) : i < j => <<g[i], g[j]>> \in ahead
      /\ \A k \in D : \E i \in 1 .. Len(q) : g[i] = k
  BY <1>2, <1>4 DEF Trail
<1>6. ASSUME NEW label PROVE Along(Folder(q, field, label), files, ahead, Marked(files, field, label))
  <2> DEFINE pos == {i \in DOMAIN q : q[i][field] = label}
             I == Marked(files, field, label)
  <2>1. Folder(q, field, label) = Picked(q, pos)
    BY DEF Folder, Those
  <2>2. I \subseteq D /\ \A k \in D : k \in I <=> files[k][field] = label
    BY DEF Marked, D
  <2>3. pos \in SUBSET (DOMAIN q) /\ \A i \in 1 .. Len(q) : i \in pos <=> g[i] \in I
    BY <1>4, <1>5, <2>2
  <2> HIDE DEF pos, I
  <2>4. Along(Picked(q, pos), files, ahead, I)
    BY <1>1, <1>5, <2>2, <2>3, PickedAlong
  <2> QED BY <2>1, <2>4 DEF I
<1>7. Along(Picked(q, firsts), files, ahead, leaders)
  <2>1. /\ leaders \subseteq D
        /\ \A k \in D : k \in leaders <=> \A j \in D : <<j, k>> \in ahead => files[j][field] # files[k][field]
    BY DEF Leaders, D
  <2>2. firsts \in SUBSET (DOMAIN q)
        /\ \A i \in DOMAIN q : i \in firsts <=> \A j \in DOMAIN q : j < i => q[j][field] # q[i][field]
    BY DEF Firsts
  <2> HIDE DEF firsts, leaders
  <2>3. \A i, j \in 1 .. Len(q) : j < i <=> <<g[j], g[i]>> \in ahead
    <3> SUFFICES ASSUME NEW i \in 1 .. Len(q), NEW j \in 1 .. Len(q)
                 PROVE  j < i <=> <<g[j], g[i]>> \in ahead
      OBVIOUS
    <3>1. <<g[i], g[i]>> \notin ahead /\ ~(<<g[i], g[j]>> \in ahead /\ <<g[j], g[i]>> \in ahead)
      BY <1>0, <1>5 DEF Orders
    <3>2. j < i \/ i = j \/ i < j
      BY <1>4
    <3> QED BY <1>5, <3>1, <3>2
  <2>4. ASSUME NEW i \in 1 .. Len(q) PROVE i \in firsts <=> g[i] \in leaders
    <3>0. \A j \in 1 .. Len(q) : q[j][field] = files[g[j]][field]
      BY <1>5
    <3>1. i \in firsts <=>
             \A j \in 1 .. Len(q) : <<g[j], g[i]>> \in ahead => files[g[j]][field] # files[g[i]][field]
      <4>1. i \in firsts <=> \A j \in 1 .. Len(q) : j < i => q[j][field] # q[i][field]
        BY <1>4, <2>2
      <4> QED BY <2>3, <3>0, <4>1
    <3>2. g[i] \in leaders <=> \A k \in D : <<k, g[i]>> \in ahead => files[k][field] # files[g[i]][field]
      BY <1>5, <2>1
    <3> QED BY <1>5, <3>1, <3>2
  <2> QED BY <1>1, <1>5, <2>1, <2>2, <2>4, PickedAlong
<1> QED BY <1>1, <1>6, <1>7 DEF q

\* An arranged playlist that grew behind what each label had keeps its folders.
LEMMA ArrangedGrows ==
    ASSUME NEW S, NEW a \in Seq(S), NEW b \in Seq(S), Begins(a, b), NEW field,
           NEW A, Orders(A, DOMAIN a), NEW B, Orders(B, DOMAIN b),
           \A i, j \in DOMAIN a : <<i, j>> \in A <=> <<i, j>> \in B,
           \A i \in DOMAIN a, k \in DOMAIN b \ DOMAIN a : a[i][field] = b[k][field] => <<i, k>> \in B,
           \A k \in DOMAIN b \ DOMAIN a : \E i \in DOMAIN a : a[i][field] = b[k][field]
    PROVE  Grows(Folders(Arranged(a, A), field), Folders(Arranged(b, B), field))
<1> DEFINE x == Arranged(a, A)
           y == Arranged(b, B)
           l == Labels(x, field)
           k == Labels(y, field)
<1>1. /\ x \in Seq(S)
      /\ \A label : Along(Folder(x, field, label), a, A, Marked(a, field, label))
      /\ Along(Picked(x, Firsts(x, field)), a, A, Leaders(a, field, A))
  BY ArrangedAlong
<1>2. /\ y \in Seq(S)
      /\ \A label : Along(Folder(y, field, label), b, B, Marked(b, field, label))
      /\ Along(Picked(y, Firsts(y, field)), b, B, Leaders(b, field, B))
  BY ArrangedAlong
<1>3. \A i \in DOMAIN a : i \in DOMAIN b /\ b[i] = a[i]
  BY DEF Begins
<1>4. ASSUME NEW q, NEW I \in SUBSET (DOMAIN a), Along(q, a, A, I) PROVE Along(q, a, B, I)
  <2>1. PICK h, n : Trail(h, n, A, I) /\ DOMAIN q = 1 .. n /\ \A i \in 1 .. n : q[i] = a[h[i]]
    BY <1>4 DEF Along
  <2>2. Trail(h, n, B, I)
    BY <2>1 DEF Trail
  <2> QED BY <2>1, <2>2 DEF Along
<1>5. \A J \in SUBSET (DOMAIN b) : Orders(B, J)
  <2> SUFFICES ASSUME NEW J \in SUBSET (DOMAIN b) PROVE Orders(B, J)
    OBVIOUS
  <2>1. \A j \in J : j \in DOMAIN b
    OBVIOUS
  <2> QED BY <2>1 DEF Orders
<1>6. ASSUME NEW label PROVE Begins(Folder(x, field, label), Folder(y, field, label))
  <2> DEFINE I == Marked(a, field, label)
             J == Marked(b, field, label)
  <2>1. I \in SUBSET (DOMAIN a) /\ J \in SUBSET (DOMAIN b) /\ Opens(I, J, B)
    BY <1>3 DEF Marked, Opens
  <2>2. Along(Folder(x, field, label), a, A, I) /\ Along(Folder(y, field, label), b, B, J)
    BY <1>1, <1>2
  <2> HIDE DEF I, J
  <2>3. Along(Folder(x, field, label), a, B, I)
    BY <1>4, <2>1, <2>2
  <2> QED BY <1>5, <2>1, <2>2, <2>3, AlongBegins
<1>7. Leaders(b, field, B) = Leaders(a, field, A)
  <2>1. ASSUME NEW i \in Leaders(a, field, A) PROVE i \in Leaders(b, field, B)
    <3>1. i \in DOMAIN a /\ \A j \in DOMAIN a : <<j, i>> \in A => a[j][field] # a[i][field]
      BY DEF Leaders
    <3>2. ASSUME NEW j \in DOMAIN b, <<j, i>> \in B PROVE b[j][field] # b[i][field]
      <4>1. CASE j \in DOMAIN a
        BY <1>3, <3>1, <3>2, <4>1
      <4>2. CASE j \notin DOMAIN a
        <5> SUFFICES ASSUME b[j][field] = b[i][field] PROVE FALSE
          OBVIOUS
        <5>1. <<i, j>> \in B
          BY <1>3, <3>1, <4>2
        <5> QED BY <1>3, <3>1, <3>2, <5>1 DEF Orders
      <4> QED BY <4>1, <4>2
    <3> QED BY <1>3, <3>1, <3>2 DEF Leaders
  <2>2. ASSUME NEW i \in Leaders(b, field, B) PROVE i \in Leaders(a, field, A)
    <3>1. i \in DOMAIN b /\ \A j \in DOMAIN b : <<j, i>> \in B => b[j][field] # b[i][field]
      BY DEF Leaders
    <3>2. i \in DOMAIN a
      <4> SUFFICES ASSUME i \notin DOMAIN a PROVE FALSE
        OBVIOUS
      <4>1. PICK j \in DOMAIN a : a[j][field] = b[i][field]
        BY <3>1
      <4> QED BY <1>3, <3>1, <4>1
    <3> QED BY <1>3, <3>1, <3>2 DEF Leaders
  <2> QED BY <2>1, <2>2
<1>8. Begins(Picked(x, Firsts(x, field)), Picked(y, Firsts(y, field)))
  <2> DEFINE I == Leaders(a, field, A)
  <2>1. I \in SUBSET (DOMAIN a) /\ I \in SUBSET (DOMAIN b) /\ Opens(I, I, B)
    BY <1>3 DEF Leaders, Opens
  <2>2. Along(Picked(x, Firsts(x, field)), a, A, I) /\ Along(Picked(y, Firsts(y, field)), b, B, I)
    BY <1>1, <1>2, <1>7
  <2> HIDE DEF I, x, y
  <2>3. Along(Picked(x, Firsts(x, field)), a, B, I)
    BY <1>4, <2>1, <2>2
  <2> QED BY <1>5, <2>1, <2>2, <2>3, AlongBegins
<1>9. Begins(l, k)
  <2> DEFINE p == Picked(x, Firsts(x, field))
             r == Picked(y, Firsts(y, field))
  <2>1. l = [n \in DOMAIN p |-> p[n][field]] /\ k = [n \in DOMAIN r |-> r[n][field]]
    BY DEF Labels
  <2> HIDE DEF p, r, l, k
  <2> QED BY <1>8, <2>1 DEF Begins, p, r
<1>10. /\ Folders(x, field) = [i \in DOMAIN l |-> Folder(x, field, l[i])]
       /\ Folders(y, field) = [i \in DOMAIN k |-> Folder(y, field, k[i])]
  BY DEF Folders
<1> HIDE DEF x, y, l, k
<1>11. Grows(Folders(x, field), Folders(y, field))
  BY <1>6, <1>9, <1>10 DEF Begins, Grows
<1> QED BY <1>11 DEF x, y

\* The tree of cikavaideya grows, sorted as it is.
LEMMA CikavaGrows ==
    ASSUME NEW s, Possible("cikavaideya", s), NEW t, Grown(s, t)
    PROVE  Grows(CikavaTree(s), CikavaTree(t))
<1> DEFINE a == s.files
           b == t.files
           A == CikavaAhead(a)
           B == CikavaAhead(b)
           Ahead(f, g) == f.s < g.s \/ (f.s = g.s /\ f.e < g.e)
<1>1. /\ a \in Seq(File) /\ b \in Seq(File) /\ Begins(a, b) /\ Possible("cikavaideya", t)
      /\ \E f \in ToSet(a) : \E new \in File :
            /\ new.s = f.s /\ new.d = f.d /\ b = Append(a, new)
            /\ \A g \in ToSet(a) : g.s = new.s /\ g.d = new.d => g.e < new.e
  BY GrownFacts
<1>2. Orders(A, DOMAIN a) /\ Orders(B, DOMAIN b)
  BY <1>1, CikavaOrders
<1>3. /\ CikavaTree(s) = Folders(Arranged(a, A), "s")
      /\ CikavaTree(t) = Folders(Arranged(b, B), "s")
  BY <1>1, CikavaArranged
<1>4. /\ \A i, j \in DOMAIN a : <<i, j>> \in A <=> (Ahead(a[i], a[j]) \/ (~Ahead(a[j], a[i]) /\ i < j))
      /\ \A i, j \in DOMAIN b : <<i, j>> \in B <=> (Ahead(b[i], b[j]) \/ (~Ahead(b[j], b[i]) /\ i < j))
  BY DEF CikavaAhead
<1>5. PICK new \in File : /\ \E f \in ToSet(a) : new.s = f.s /\ new.d = f.d
                          /\ b = Append(a, new)
                          /\ \A g \in ToSet(a) : g.s = new.s /\ g.d = new.d => g.e < new.e
  BY <1>1
<1>6. \A f, g \in ToSet(b) : f.d = g.d
  BY <1>1 DEF Possible
<1> HIDE DEF a, b, A, B
<1>7. /\ DOMAIN a = 1 .. Len(a) /\ Len(a) \in Nat /\ DOMAIN b = 1 .. Len(a) + 1
      /\ \A i \in DOMAIN a : i \in DOMAIN b /\ b[i] = a[i] /\ a[i] \in ToSet(a) /\ a[i] \in ToSet(b)
      /\ b[Len(a) + 1] = new /\ new \in ToSet(b)
  BY <1>1, <1>5 DEF ToSet
<1>8. \A k \in DOMAIN b \ DOMAIN a : k = Len(a) + 1 /\ b[k] = new
  BY <1>7
<1>9. \A i, j \in DOMAIN a : <<i, j>> \in A <=> <<i, j>> \in B
  <2> SUFFICES ASSUME NEW i \in DOMAIN a, NEW j \in DOMAIN a PROVE <<i, j>> \in A <=> <<i, j>> \in B
    OBVIOUS
  <2>1. b[i] = a[i] /\ b[j] = a[j] /\ i \in DOMAIN b /\ j \in DOMAIN b
    BY <1>7
  <2> QED BY <1>4, <2>1
<1>10. ASSUME NEW i \in DOMAIN a, NEW k \in DOMAIN b \ DOMAIN a, a[i]["s"] = b[k]["s"]
       PROVE  <<i, k>> \in B
  <2>1. b[i] = a[i] /\ i \in DOMAIN b /\ k \in DOMAIN b /\ b[k] = new /\ a[i] \in ToSet(a)
    BY <1>7, <1>8
  <2>2. a[i].s = new.s /\ a[i].d = new.d
    BY <1>6, <1>7, <1>10, <2>1
  <2>3. a[i].e < new.e
    BY <1>5, <2>1, <2>2
  <2> HIDE DEF Ahead
  <2>4. Ahead(b[i], b[k])
    BY <2>1, <2>2, <2>3 DEF Ahead
  <2> QED BY <1>4, <2>1, <2>4
<1>11. ASSUME NEW k \in DOMAIN b \ DOMAIN a PROVE \E i \in DOMAIN a : a[i]["s"] = b[k]["s"]
  <2>1. PICK f \in ToSet(a) : new.s = f.s
    BY <1>5
  <2>2. PICK i \in DOMAIN a : a[i] = f
    BY <2>1 DEF ToSet
  <2> QED BY <1>8, <2>1, <2>2
<1>12. Grows(Folders(Arranged(a, A), "s"), Folders(Arranged(b, B), "s"))
  BY <1>1, <1>2, <1>9, <1>10, <1>11, ArrangedGrows
<1> QED BY <1>3, <1>12

LEMMA CikavaStays ==
    ASSUME NEW s, Possible("cikavaideya", s), NEW t, Grown(s, t), NEW listed,
           NEW row \in CikavaContent(s, listed).rows
    PROVE  Found(row, CikavaContent(t, listed).rows)
<1> DEFINE code == Refusal(<<Lenient(listed.page), Unless(s.titled, "parse_failed"),
                             CikavaPlayer(s), CikavaProbe(s, listed)>>)
           tree == CikavaTree(s)
           wide == CikavaTree(t)
           rows == RowsOf(tree, LAMBDA f : {})
           after == RowsOf(wide, LAMBDA f : {})
<1>1. Kept(s, t) /\ s.payload = "list"
  BY GrownFacts
<1>2. /\ t.payload = "list" /\ t.titled = s.titled
      /\ CikavaPlayer(t) = CikavaPlayer(s) /\ CikavaProbe(t, listed) = CikavaProbe(s, listed)
  BY <1>1 DEF Kept, CikavaPlayer, CikavaProbe
<1>3. CikavaContent(s, listed) = Detail(code, rows) /\ CikavaContent(t, listed) = Detail(code, after)
  BY <1>1, <1>2 DEF CikavaContent
<1>4. Shows(rows, tree, {}) /\ Shows(after, wide, {})
  BY Zenon DEF RowsOf, Shows
<1>5. Grows(tree, wide)
  BY CikavaGrows
<1> HIDE DEF rows, after, code, tree, wide
<1>6. row \in rows
  BY <1>3, DetailFacts
<1>7. Found(row, after)
  BY <1>4, <1>5, <1>6, ShownStay
<1> QED BY <1>3, <1>7, DetailFound

\* The least of a set is the least of what it is the beginning of.
Precedes(X, Y) == X \subseteq Y /\ Y \subseteq Nat /\ X # {} /\ \A x \in X, y \in Y : y <= x => y \in X

\* A set that is the beginning of another has its least member.
LEMMA LeastStays ==
    ASSUME NEW X, NEW Y, Precedes(X, Y)
    PROVE  Min(X) = Min(Y)
<1>0. X \in SUBSET Nat /\ Y \in SUBSET Nat /\ X # {} /\ Y # {}
  BY DEF Precedes
<1>1. Min(X) \in X /\ \A y \in X : Min(X) <= y
  BY <1>0, LeastIsOne
<1>2. Min(Y) \in Y /\ \A y \in Y : Min(Y) <= y
  BY <1>0, LeastIsOne
<1> DEFINE k == Min(X)
           m == Min(Y)
<1> HIDE DEF k, m
<1>3. k \in X /\ (\A y \in X : k <= y) /\ m \in Y /\ (\A y \in Y : m <= y)
  BY <1>1, <1>2 DEF k, m
<1>4. m <= k /\ m \in Nat /\ k \in Nat
  BY <1>0, <1>3 DEF Precedes
<1>5. m \in X
  BY <1>3, <1>4 DEF Precedes
<1>6. k = m
  BY <1>3, <1>4, <1>5
<1> QED BY <1>6 DEF k, m

\* One dub arranged by season grows with its playlist.
LEMMA DubMajorGrows ==
    ASSUME NEW a \in Seq(File), NEW b \in Seq(File), Begins(a, b), \A f, g \in ToSet(b) : f.d = g.d,
           \A f \in ToSet(b) : \E g \in ToSet(a) : g.s = f.s
    PROVE  Grows(Folders(DubMajor(a), "s"), Folders(DubMajor(b), "s"))
<1> DEFINE A == DubThenSeason(a)
           B == DubThenSeason(b)
           Da(i) == {j \in DOMAIN a : a[j].d = a[i].d}
           Sa(i) == {j \in DOMAIN a : a[j].d = a[i].d /\ a[j].s = a[i].s}
           Db(i) == {j \in DOMAIN b : b[j].d = b[i].d}
           Sb(i) == {j \in DOMAIN b : b[j].d = b[i].d /\ b[j].s = b[i].s}
<1>1. Orders(A, DOMAIN a) /\ Orders(B, DOMAIN b)
  BY DubOrders
<1>2. DubMajor(a) = Arranged(a, A) /\ DubMajor(b) = Arranged(b, B)
  BY DubMajorFacts
<1>3. /\ \A i, j \in DOMAIN a : <<i, j>> \in A <=>
            \/ Min(Da(i)) < Min(Da(j))
            \/ Min(Da(i)) = Min(Da(j)) /\ Min(Sa(i)) < Min(Sa(j))
            \/ Min(Sa(i)) = Min(Sa(j)) /\ i < j
      /\ \A i, j \in DOMAIN b : <<i, j>> \in B <=>
            \/ Min(Db(i)) < Min(Db(j))
            \/ Min(Db(i)) = Min(Db(j)) /\ Min(Sb(i)) < Min(Sb(j))
            \/ Min(Sb(i)) = Min(Sb(j)) /\ i < j
  BY DEF DubThenSeason
<1>4. /\ DOMAIN a = 1 .. Len(a) /\ Len(a) \in Nat /\ DOMAIN b = 1 .. Len(b) /\ Len(b) \in Nat
      /\ \A i \in DOMAIN a : i \in DOMAIN b /\ b[i] = a[i]
      /\ \A i \in DOMAIN b : b[i] \in ToSet(b)
  BY DEF Begins, ToSet
<1> HIDE DEF A, B
<1>5. ASSUME NEW i \in DOMAIN a PROVE Min(Da(i)) = Min(Db(i)) /\ Min(Sa(i)) = Min(Sb(i))
  <2> DEFINE U == Da(i)
             V == Db(i)
             X == Sa(i)
             Y == Sb(i)
  <2>1. Precedes(U, V) /\ Precedes(X, Y)
    BY <1>4 DEF Precedes
  <2> HIDE DEF U, V, X, Y
  <2>2. Min(U) = Min(V) /\ Min(X) = Min(Y)
    BY <2>1, LeastStays
  <2> QED BY <2>2 DEF U, V, X, Y
<1>6. \A i \in DOMAIN a, k \in DOMAIN b : a[i].s = b[k].s => Sb(i) = Sb(k)
  BY <1>4
<1> HIDE DEF Da, Db, Sa, Sb
<1>7. ASSUME NEW i \in DOMAIN a, NEW j \in DOMAIN a PROVE <<i, j>> \in A <=> <<i, j>> \in B
  <2>1. /\ Min(Da(i)) = Min(Db(i)) /\ Min(Sa(i)) = Min(Sb(i)) /\ i \in DOMAIN b
        /\ Min(Da(j)) = Min(Db(j)) /\ Min(Sa(j)) = Min(Sb(j)) /\ j \in DOMAIN b
    BY <1>4, <1>5
  <2>2. <<i, j>> \in A <=> \/ Min(Db(i)) < Min(Db(j))
                           \/ Min(Db(i)) = Min(Db(j)) /\ Min(Sb(i)) < Min(Sb(j))
                           \/ Min(Sb(i)) = Min(Sb(j)) /\ i < j
    BY <1>3, <2>1
  <2> QED BY <1>3, <2>1, <2>2
<1>8. ASSUME NEW i \in DOMAIN a, NEW k \in DOMAIN b \ DOMAIN a, a[i]["s"] = b[k]["s"]
      PROVE  <<i, k>> \in B
  <2>1. i < k /\ i \in DOMAIN b
    BY <1>4
  <2>2. Sb(i) = Sb(k)
    BY <1>6, <1>8
  <2> QED BY <1>3, <2>1, <2>2
<1>9. ASSUME NEW k \in DOMAIN b \ DOMAIN a PROVE \E i \in DOMAIN a : a[i]["s"] = b[k]["s"]
  <2>1. PICK g \in ToSet(a) : g.s = b[k].s
    BY <1>4
  <2>2. PICK i \in DOMAIN a : a[i] = g
    BY DEF ToSet
  <2> QED BY <2>1, <2>2
<1>10. Grows(Folders(Arranged(a, A), "s"), Folders(Arranged(b, B), "s"))
  BY <1>1, <1>7, <1>8, <1>9, ArrangedGrows
<1> QED BY <1>2, <1>10

\* Each season of groups grows with its season.
Spreads(groups, more) == \A i \in DOMAIN groups : i \in DOMAIN more /\ Grows(groups[i], more[i])

\* The groups of equal names grow with their seasons.
LEMMA TitlesSpread ==
    ASSUME NEW x \in Seq(File), NEW y \in Seq(File), Grows(Folders(x, "s"), Folders(y, "s"))
    PROVE  Spreads(TitleGroups(x), TitleGroups(y))
<1> DEFINE tree == Folders(x, "s")
           wide == Folders(y, "s")
<1>1. /\ \A i \in DOMAIN tree : tree[i] \in Seq(File)
      /\ \A i \in DOMAIN wide : wide[i] \in Seq(File)
  BY FoldersFacts
<1>2. /\ TitleGroups(x) = [i \in DOMAIN tree |-> Folders(tree[i], "e")]
      /\ TitleGroups(y) = [i \in DOMAIN wide |-> Folders(wide[i], "e")]
  BY DEF TitleGroups
<1>3. Grows(tree, wide)
  OBVIOUS
<1> HIDE DEF tree, wide
<1>4. ASSUME NEW i \in DOMAIN tree
      PROVE  i \in DOMAIN wide /\ Grows(Folders(tree[i], "e"), Folders(wide[i], "e"))
  <2>1. i \in DOMAIN wide /\ Begins(tree[i], wide[i])
    BY <1>3 DEF Grows
  <2> QED BY <1>1, <2>1, FoldersBegin
<1> QED BY <1>2, <1>4 DEF Spreads

-----------------------------------------------------------------------------
(* The providers that merge their dubs or follow the fullest one, where there*)
(* is only one.                                                            *)

\* A title that is out in one dub only.
Lone(t) == \A f, g \in ToSet(t.files) : f.d = g.d

\* A title of one dub keeps its seasons and groups while it grows.
LEMMA LoneGrows ==
    ASSUME NEW l, NEW s, Possible(l, s), NEW t, Grown(s, t), Lone(t)
    PROVE  /\ Grows(Folders(DubMajor(s.files), "s"), Folders(DubMajor(t.files), "s"))
           /\ Spreads(TitleGroups(DubMajor(s.files)), TitleGroups(DubMajor(t.files)))
<1> DEFINE a == s.files
           b == t.files
<1>1. /\ a \in Seq(File) /\ b \in Seq(File) /\ Begins(a, b)
      /\ \E f \in ToSet(a) : \E new \in File :
            /\ new.s = f.s /\ new.d = f.d /\ b = Append(a, new)
            /\ \A g \in ToSet(a) : g.s = new.s /\ g.d = new.d => g.e < new.e
  BY GrownFacts
<1>2. PICK f \in ToSet(a) : \E new \in File : new.s = f.s /\ b = Append(a, new)
  BY <1>1
<1>3. PICK new \in File : new.s = f.s /\ b = Append(a, new)
  BY <1>2
<1>4. \A g, h \in ToSet(b) : g.d = h.d
  BY DEF Lone
<1> HIDE DEF a, b
<1>5. \A g \in ToSet(b) : g \in ToSet(a) \/ g = new
  BY <1>1, <1>3 DEF ToSet
<1>6. \A g \in ToSet(b) : \E h \in ToSet(a) : h.s = g.s
  BY <1>2, <1>3, <1>5
<1>7. Grows(Folders(DubMajor(a), "s"), Folders(DubMajor(b), "s"))
  BY <1>1, <1>4, <1>6, DubMajorGrows
<1>8. DubMajor(a) \in Seq(File) /\ DubMajor(b) \in Seq(File)
  BY <1>1, DubMajorFacts
<1>9. Spreads(TitleGroups(DubMajor(a)), TitleGroups(DubMajor(b)))
  BY <1>7, <1>8, TitlesSpread
<1> QED BY <1>7, <1>9 DEF a, b

\* animeua groups the files that bear a label: of one dub these are all or none.
LEMMA AnimeuaWhole ==
    ASSUME NEW s, s.files \in Seq(File)
    PROVE  /\ AnimeuaGroups(s) = TitleGroups(AnimeuaTitled(s))
           /\ (\A f \in ToSet(s.files) : f.d # 0) => AnimeuaTitled(s) = DubMajor(s.files)
           /\ (\A f \in ToSet(s.files) : f.d = 0) => DOMAIN TitleGroups(AnimeuaTitled(s)) = {}
<1> DEFINE all == DubMajor(s.files)
           where == {i \in DOMAIN all : all[i].d # 0}
           files == AnimeuaTitled(s)
<1>1. all \in Seq(File) /\ ToSet(all) = ToSet(s.files)
  BY DubMajorFacts
<1>2. files = Picked(all, where) /\ where \in SUBSET (DOMAIN all)
  BY DEF AnimeuaTitled, Those
<1>3. AnimeuaGroups(s) = TitleGroups(files)
  BY Zenon DEF AnimeuaGroups, AnimeuaTitled, TitleGroups
<1>4. /\ \A i \in DOMAIN all : all[i] \in ToSet(s.files)
      /\ \A i \in where : i \in DOMAIN all /\ all[i].d # 0
      /\ (\A i \in DOMAIN all : all[i].d # 0) => where = DOMAIN all
  BY <1>1 DEF ToSet
<1> HIDE DEF all, where, files
<1>5. ASSUME \A f \in ToSet(s.files) : f.d # 0 PROVE files = all
  <2>1. where = DOMAIN all
    BY <1>4, <1>5
  <2> QED BY <1>1, <1>2, <2>1, PickedWhole
<1>6. ASSUME \A f \in ToSet(s.files) : f.d = 0 PROVE DOMAIN TitleGroups(files) = {}
  <2>1. where = {}
    BY <1>4, <1>6
  <2>2. files \in Seq(File) /\ \A f \in ToSet(files) : \E i \in where : f = all[i]
    BY <1>1, <1>2, ThoseFacts
  <2>3. ToSet(files) = {}
    BY <2>1, <2>2
  <2>4. /\ \A i \in DOMAIN Folders(files, "s") :
              Folders(files, "s")[i] # <<>> /\ Folders(files, "s")[i] \in Seq(File)
        /\ \A i \in DOMAIN Folders(files, "s") : ToSet(Folders(files, "s")[i]) \subseteq ToSet(files)
    BY <2>2, FoldersFacts
  <2>5. \A q \in Seq(File) : q # <<>> => ToSet(q) # {}
    BY DEF ToSet
  <2>6. DOMAIN Folders(files, "s") = {}
    BY <2>3, <2>4, <2>5
  <2> QED BY <2>2, <2>6, TitleGroupsFacts
<1> QED BY <1>3, <1>5, <1>6 DEF all, files

\* The group of an episode grows at its end.
LEMMA GroupStays ==
    ASSUME NEW groups, NEW more, Spreads(groups, more), NEW i \in DOMAIN groups, NEW j \in DOMAIN groups[i],
           groups[i][j] \in Seq(File), groups[i][j] # <<>>, more[i][j] \in Seq(File)
    PROVE  /\ i \in DOMAIN more /\ j \in DOMAIN more[i]
           /\ ToSet(groups[i][j]) \subseteq ToSet(more[i][j])
           /\ Head(more[i][j]) = Head(groups[i][j]) /\ DubsOf(groups[i][j]) \subseteq DubsOf(more[i][j])
<1> DEFINE a == groups[i][j]
           b == more[i][j]
<1>1. i \in DOMAIN more /\ j \in DOMAIN more[i] /\ Begins(a, b)
  BY DEF Spreads, Grows
<1>2. a \in Seq(File) /\ a # <<>> /\ b \in Seq(File)
  OBVIOUS
<1> HIDE DEF a, b
<1>3. 1 \in DOMAIN a /\ b[1] = a[1] /\ Head(a) = a[1] /\ b # <<>> /\ Head(b) = b[1]
  BY <1>1, <1>2 DEF Begins
<1>4. ToSet(a) \subseteq ToSet(b)
  BY <1>1 DEF Begins, ToSet
<1>5. DubsOf(a) \subseteq DubsOf(b)
  BY <1>4 DEF DubsOf
<1> QED BY <1>1, <1>3, <1>4, <1>5 DEF a, b

LEMMA AnimeuaSeasonsStay ==
    ASSUME NEW s, Possible("animeua", s), NEW t, Grown(s, t), Lone(t), NEW row \in AnimeuaSeasons(s)
    PROVE  Found(row, AnimeuaSeasons(t))
<1> DEFINE groups == AnimeuaGroups(s)
           more == AnimeuaGroups(t)
<1>1. s.files \in Seq(File) /\ t.files \in Seq(File) /\ ToSet(s.files) \subseteq ToSet(t.files)
  BY GrownFacts
<1>2. PICK i \in DOMAIN groups : \E j \in DOMAIN groups[i] :
         row = Row(<<i, j>>, Head(groups[i][j]), DubsOf(groups[i][j]))
  BY DEF AnimeuaSeasons
<1>3. PICK j \in DOMAIN groups[i] : row = Row(<<i, j>>, Head(groups[i][j]), DubsOf(groups[i][j]))
  BY <1>2
<1>4. /\ groups = TitleGroups(AnimeuaTitled(s))
      /\ (\A f \in ToSet(s.files) : f.d # 0) => AnimeuaTitled(s) = DubMajor(s.files)
      /\ (\A f \in ToSet(s.files) : f.d = 0) => DOMAIN TitleGroups(AnimeuaTitled(s)) = {}
  BY <1>1, AnimeuaWhole
<1>5. /\ more = TitleGroups(AnimeuaTitled(t))
      /\ (\A f \in ToSet(t.files) : f.d # 0) => AnimeuaTitled(t) = DubMajor(t.files)
  BY <1>1, AnimeuaWhole
<1>6. \A f, g \in ToSet(t.files) : f.d = g.d
  BY DEF Lone
<1>7. PICK f \in ToSet(s.files) : f.d # 0
  BY <1>2, <1>4
<1>8. /\ \A g \in ToSet(t.files) : g.d # 0
      /\ \A g \in ToSet(s.files) : g.d # 0
  BY <1>1, <1>6, <1>7
<1>9. Spreads(groups, more)
  <2>1. Spreads(TitleGroups(DubMajor(s.files)), TitleGroups(DubMajor(t.files)))
    BY LoneGrows
  <2> QED BY <1>4, <1>5, <1>8, <2>1
<1>10. groups[i][j] \in Seq(File) /\ groups[i][j] # <<>>
  BY <1>1, <1>2, <1>3, AnimeuaGroupFacts
<1>11. i \in DOMAIN more /\ j \in DOMAIN more[i]
  BY <1>2, <1>3, <1>9 DEF Spreads, Grows
<1>12. more[i][j] \in Seq(File)
  BY <1>1, <1>11, AnimeuaGroupFacts
<1>13. AnimeuaSeasons(t) = UNION {{Row(<<p, q>>, Head(more[p][q]), DubsOf(more[p][q])) : q \in DOMAIN more[p]}
                                      : p \in DOMAIN more}
  BY Zenon DEF AnimeuaSeasons
<1> HIDE DEF groups, more
<1>14. Head(more[i][j]) = Head(groups[i][j]) /\ DubsOf(groups[i][j]) \subseteq DubsOf(more[i][j])
  BY <1>2, <1>3, <1>9, <1>10, <1>12, GroupStays
<1>15. Row(<<i, j>>, Head(groups[i][j]), DubsOf(more[i][j])) \in AnimeuaSeasons(t)
  BY <1>11, <1>13, <1>14
<1> QED BY <1>3, <1>14, <1>15, RowStays

\* The row of a film stays that of the first file.
LEMMA FilmStays ==
    ASSUME NEW a, NEW b, b # <<>>, Head(b) = Head(a), NEW dubs, NEW row \in FilmRow(a, dubs)
    PROVE  Found(row, FilmRow(b, dubs))
BY DEF FilmRow, Found

LEMMA AnimeuaStays ==
    ASSUME NEW s, Possible("animeua", s), NEW t, Grown(s, t), Lone(t), NEW listed,
           NEW row \in AnimeuaContent(s, listed).rows
    PROVE  Found(row, AnimeuaContent(t, listed).rows)
<1> DEFINE page == <<Lenient(listed.page), Unless(s.titled, "parse_failed")>>
           code == IF s.player # "none" THEN Refusal(page \o <<Lenient(listed.player)>>) ELSE Refusal(page)
           rows == IF s.player # "none" THEN AnimeuaSeasons(s) ELSE FilmRow(s.files, {})
           after == IF s.player # "none" THEN AnimeuaSeasons(t) ELSE FilmRow(t.files, {})
<1>1. /\ Kept(s, t) /\ s.series /\ s.payload = "list" /\ t.files # <<>> /\ Head(t.files) = Head(s.files)
  BY GrownFacts
<1>2. AnimeuaContent(s, listed) = Detail(code, rows)
  BY <1>1 DEF AnimeuaContent
<1>3. AnimeuaContent(t, listed) = Detail(code, after)
  BY <1>1 DEF AnimeuaContent, Kept
<1> HIDE DEF code
<1>4. row \in rows
  BY <1>2, DetailFacts
<1>5. Found(row, after)
  BY <1>1, <1>4, AnimeuaSeasonsStay, FilmStays
<1> HIDE DEF rows, after
<1> QED BY <1>2, <1>3, <1>5, DetailFound

\* A season of one dub is listed as it is.
LEMMA LoneCanon ==
    ASSUME NEW season \in Seq(File), season # <<>>, \A f, g \in ToSet(season) : f.d = g.d
    PROVE  CanonicalStudio(season) = season
<1> DEFINE studios == Folders(season, "d")
           First1(k) == \E i \in DOMAIN studios :
                           /\ studios[i] = k
                           /\ \A j \in DOMAIN studios :
                                 Len(studios[j]) < Len(k) \/ (Len(studios[j]) = Len(k) /\ i <= j)
<1>1. /\ studios \in Seq(Seq(File)) /\ 1 \in DOMAIN studios
      /\ \A i \in DOMAIN studios : studios[i] # <<>> /\ studios[i] \in Seq(File)
      /\ \A i \in DOMAIN studios : ToSet(studios[i]) \subseteq ToSet(season)
      /\ \A i \in DOMAIN studios, f \in ToSet(season) :
            f \in ToSet(studios[i]) <=> studios[i] = Folder(season, "d", f["d"])
  BY FoldersFacts
<1>2. CanonicalStudio(season) = CHOOSE k \in ToSet(studios) : First1(k)
  BY Zenon DEF CanonicalStudio
<1>3. \A i \in DOMAIN studios : Head(studios[i]) \in ToSet(studios[i])
  <2> HIDE DEF studios
  <2> QED BY <1>1, HeadFacts
<1> HIDE DEF studios
<1>4. ASSUME NEW i \in DOMAIN studios PROVE studios[i] = season
  <2> DEFINE h == Head(studios[i])
  <2>1. h \in ToSet(season) /\ h \in ToSet(studios[i])
    BY <1>1, <1>3
  <2> HIDE DEF h
  <2>2. studios[i] = Folder(season, "d", h["d"])
    BY <1>1, <2>1
  <2>3. \A f \in ToSet(season) : f["d"] = h["d"]
    BY <2>1
  <2> QED BY <2>2, <2>3, FolderFacts
<1>5. \A k : k \in ToSet(studios) <=> k = season
  BY <1>1, <1>4 DEF ToSet
<1>6. First1(season)
  <2>1. DOMAIN studios \subseteq Nat /\ \A j \in DOMAIN studios : 1 <= j
    BY <1>1
  <2> QED BY <1>1, <1>4, <2>1
<1> HIDE DEF First1
<1>7. CanonicalStudio(season) = season
  BY <1>2, <1>5, <1>6, Zenon
<1> QED BY <1>7

\* Where an episode is among the files, and the dubs it is out in.
Copies(files, f) == {i \in DOMAIN files : files[i].s = f.s /\ files[i].e = f.e}
Offers(files, f) == DubsOf(Picked(files, Copies(files, f)))

\* An episode is out in no fewer dubs after one was added.
LEMMA OffersGrow ==
    ASSUME NEW a \in Seq(File), NEW b \in Seq(File), Begins(a, b), NEW f
    PROVE  Offers(a, f) \subseteq Offers(b, f)
<1> DEFINE x == Copies(a, f)
           y == Copies(b, f)
<1>1. x \in SUBSET (DOMAIN a) /\ y \in SUBSET (DOMAIN b)
  BY DEF Copies
<1>2. \A i \in x : i \in y /\ a[i] = b[i]
  BY DEF Copies, Begins
<1> HIDE DEF x, y
<1>3. \A g \in ToSet(Picked(a, x)) : \E i \in x : g = a[i]
  BY <1>1, ThoseFacts
<1>4. \A i \in y : b[i] \in ToSet(Picked(b, y))
  BY <1>1, ThoseFacts
<1>5. ToSet(Picked(a, x)) \subseteq ToSet(Picked(b, y))
  BY <1>2, <1>3, <1>4
<1>6. DubsOf(Picked(a, x)) \subseteq DubsOf(Picked(b, y))
  BY <1>5 DEF DubsOf
<1> QED BY <1>6 DEF Offers, x, y

\* The rows of anitubeinua where there is one dub.
LEMMA AnitubeLone ==
    ASSUME NEW s, s.files \in Seq(File), Lone(s)
    PROVE  LET tree == Folders(s.files, "s")
           IN  AnitubeSeasons(s) = UNION {{Row(<<i, j>>, tree[i][j], Offers(s.files, tree[i][j]))
                                              : j \in DOMAIN tree[i]} : i \in DOMAIN tree}
<1> DEFINE tree == Folders(s.files, "s")
           canon == [i \in DOMAIN tree |-> CanonicalStudio(tree[i])]
<1>1. AnitubeSeasons(s) = UNION {{Row(<<i, j>>, canon[i][j], Offers(s.files, canon[i][j]))
                                     : j \in DOMAIN canon[i]} : i \in DOMAIN canon}
  BY Zenon DEF AnitubeSeasons, RowsOf, Those, Offers, Copies
<1>2. /\ tree \in Seq(Seq(File)) /\ \A i \in DOMAIN tree : tree[i] # <<>> /\ tree[i] \in Seq(File)
      /\ \A i \in DOMAIN tree : ToSet(tree[i]) \subseteq ToSet(s.files)
  BY FoldersFacts
<1>3. \A f, g \in ToSet(s.files) : f.d = g.d
  BY DEF Lone
<1> HIDE DEF tree
<1>4. ASSUME NEW i \in DOMAIN tree PROVE canon[i] = tree[i]
  <2>1. \A f, g \in ToSet(tree[i]) : f.d = g.d
    BY <1>2, <1>3
  <2> QED BY <1>2, <2>1, LoneCanon
<1>5. canon = tree
  <2>1. tree = [i \in DOMAIN tree |-> tree[i]]
    BY <1>2
  <2>2. DOMAIN canon = DOMAIN tree
    OBVIOUS
  <2> QED BY <1>4, <2>1, <2>2
<1> HIDE DEF canon
<1>6. AnitubeSeasons(s) = UNION {{Row(<<i, j>>, tree[i][j], Offers(s.files, tree[i][j]))
                                     : j \in DOMAIN tree[i]} : i \in DOMAIN tree}
  BY <1>1, <1>5
<1> QED BY <1>6, Zenon DEF tree

LEMMA AnitubeSeasonsStay ==
    ASSUME NEW s, Possible("anitubeinua", s), NEW t, Grown(s, t), Lone(t), NEW row \in AnitubeSeasons(s)
    PROVE  Found(row, AnitubeSeasons(t))
<1> DEFINE tree == Folders(s.files, "s")
           wide == Folders(t.files, "s")
<1>1. /\ s.files \in Seq(File) /\ t.files \in Seq(File) /\ ToSet(s.files) \subseteq ToSet(t.files)
      /\ Begins(s.files, t.files)
  BY GrownFacts
<1>2. Lone(s)
  BY <1>1 DEF Lone
<1>3. AnitubeSeasons(s) = UNION {{Row(<<i, j>>, tree[i][j], Offers(s.files, tree[i][j]))
                                     : j \in DOMAIN tree[i]} : i \in DOMAIN tree}
  BY <1>1, <1>2, AnitubeLone
<1>4. AnitubeSeasons(t) = UNION {{Row(<<i, j>>, wide[i][j], Offers(t.files, wide[i][j]))
                                     : j \in DOMAIN wide[i]} : i \in DOMAIN wide}
  BY <1>1, AnitubeLone
<1>5. Grows(tree, wide)
  BY <1>1, FoldersBegin
<1> HIDE DEF tree, wide
<1>6. PICK i \in DOMAIN tree : \E j \in DOMAIN tree[i] :
         row = Row(<<i, j>>, tree[i][j], Offers(s.files, tree[i][j]))
  BY <1>3
<1>7. PICK j \in DOMAIN tree[i] : row = Row(<<i, j>>, tree[i][j], Offers(s.files, tree[i][j]))
  BY <1>6
<1>8. i \in DOMAIN wide /\ j \in DOMAIN wide[i] /\ wide[i][j] = tree[i][j]
  BY <1>5, PlaceStays
<1>9. Offers(s.files, tree[i][j]) \subseteq Offers(t.files, tree[i][j])
  BY <1>1, OffersGrow
<1>10. Row(<<i, j>>, tree[i][j], Offers(t.files, tree[i][j])) \in AnitubeSeasons(t)
  BY <1>4, <1>8
<1> QED BY <1>7, <1>9, <1>10, RowStays

LEMMA AnitubeStays ==
    ASSUME NEW s, Possible("anitubeinua", s), NEW t, Grown(s, t), Lone(t), NEW listed,
           NEW row \in AnitubeContent(s, listed).rows
    PROVE  Found(row, AnitubeContent(t, listed).rows)
<1> DEFINE call == Refusal(AnitubePlaylist(s, listed))
           code == Refusal(<<Strict(listed.page), Unless(s.titled, "parse_failed")>> \o
                              <<Unless(call \notin {"unreachable", "upstream_unreachable"}, call)>>)
           rows == IF call = "ok" THEN AnitubeSeasons(s) ELSE {}
           after == IF call = "ok" THEN AnitubeSeasons(t) ELSE {}
<1>1. Kept(s, t)
  BY GrownFacts
<1>2. AnitubePlaylist(t, listed) = AnitubePlaylist(s, listed)
  BY <1>1 DEF AnitubePlaylist, Kept
<1>3. AnitubeContent(s, listed) = Detail(code, rows)
  BY DEF AnitubeContent
<1>4. AnitubeContent(t, listed) = Detail(code, after)
  BY <1>1, <1>2 DEF AnitubeContent, Kept
<1> HIDE DEF code, call
<1>5. row \in rows
  BY <1>3, DetailFacts
<1>6. Found(row, after)
  BY <1>5, AnitubeSeasonsStay
<1> HIDE DEF rows, after
<1> QED BY <1>3, <1>4, <1>6, DetailFound

\* What kinotron plays for a row whose episode was listed before one was added.
LEMMA KinotronStays ==
    ASSUME NEW s, Possible("kinotron", s), NEW t, Grown(s, t), Lone(t), ~PartlyNamed(t), NEW listed,
           NEW row \in KinotronContent(s, listed).rows, NEW dub \in row.dubs \cup {0}, NEW ans,
           KinotronStream(t, row.at, dub, ans).code = "ok"
    PROVE  Meant(t, row, dub, KinotronStream(t, row.at, dub, ans).file)
<1> DEFINE a == KinotronFiles(s)
           b == KinotronFiles(t)
           pick == KinotronSelect(b, row.at, dub)
<1>1. /\ Kept(s, t) /\ s.series /\ s.payload = "list" /\ Possible("kinotron", t)
      /\ ToSet(s.files) \subseteq ToSet(t.files)
  BY GrownFacts
<1>2. a = DubMajor(s.files) /\ b = DubMajor(t.files)
  BY <1>1 DEF KinotronFiles, Kept
<1>3. Spreads(TitleGroups(a), TitleGroups(b))
  BY <1>2, LoneGrows
<1>4. ~PartlyNamed(s)
  BY <1>1 DEF PartlyNamed
<1>5. row \in KinotronSeasons(s)
  BY <1>1, DetailFacts DEF KinotronContent
<1>6. /\ a \in Seq(File) /\ b \in Seq(File) /\ ToSet(b) = ToSet(t.files)
      /\ \A f \in ToSet(b) : f.d # Uk
  BY <1>1, KinotronFilesFacts DEF Kept
<1>7. PICK i \in DOMAIN TitleGroups(a) : \E j \in DOMAIN TitleGroups(a)[i] :
         LET group == TitleGroups(a)[i][j]
         IN  /\ row.at = <<i, j>>
             /\ \E g \in ToSet(group) : row.says.s = g.s /\ row.says.e = g.e
             /\ \A d \in row.dubs : d = Uk \/ \E g \in ToSet(group) : g.d = d
  BY <1>4, <1>5, KinotronRow
<1>8. KinotronStream(t, row.at, dub, ans).file = pick
  <2> DEFINE code == Refusal(<<Lenient(ans.page), Unless(t.player \notin {"none", "youtube"}, "parse_failed"),
                               Lenient(ans.player), Unless(b # <<>>, "parse_failed")>>)
             media == KinotronStream(t, row.at, dub, ans)
  <2>1. media = IF code # "ok" THEN Media(code, NoFile)
                ELSE IF pick = NoFile THEN Media("not_found", NoFile) ELSE Media("ok", pick)
    BY Zenon DEF KinotronStream
  <2>2. media.code = "ok"
    OBVIOUS
  <2> HIDE DEF code, media, pick, b
  <2>3. /\ Media(code, NoFile).code # "ok" /\ Media("not_found", NoFile).code # "ok"
        /\ Media("ok", pick).code = "ok" => Media("ok", pick).file = pick
    BY MediaFacts
  <2> QED BY <2>1, <2>2, <2>3 DEF media
<1> HIDE DEF a, b
<1>9. PICK j \in DOMAIN TitleGroups(a)[i] :
         /\ row.at = <<i, j>>
         /\ \E g \in ToSet(TitleGroups(a)[i][j]) : row.says.s = g.s /\ row.says.e = g.e
         /\ \A d \in row.dubs : d = Uk \/ \E g \in ToSet(TitleGroups(a)[i][j]) : g.d = d
  BY <1>7
<1>10. TitleGroups(a)[i][j] \in Seq(File) /\ TitleGroups(a)[i][j] # <<>>
  BY <1>6, <1>9, TitleGroupsFacts
<1>11. i \in DOMAIN TitleGroups(b) /\ j \in DOMAIN TitleGroups(b)[i]
  BY <1>3, <1>9 DEF Spreads, Grows
<1> DEFINE group == TitleGroups(a)[i][j]
           more == TitleGroups(b)[i][j]
<1>12. /\ more \in Seq(File) /\ ToSet(more) \subseteq ToSet(b)
       /\ \A f, g \in ToSet(more) : f.s = g.s /\ f.e = g.e
  BY <1>6, <1>11, TitleGroupsFacts
<1>13. ToSet(group) \subseteq ToSet(more)
  BY <1>3, <1>9, <1>10, <1>12, GroupStays
<1>14. /\ pick \in ToSet(more)
       /\ dub # 0 /\ (\E f \in ToSet(more) : f.d = dub) => pick.d = dub
  BY <1>6, <1>9, <1>11, KinotronTitle DEF pick
<1> HIDE DEF more, pick
<1>15. dub = 0 \/ dub = Uk \/ pick.d = dub
  BY <1>9, <1>13, <1>14 DEF group
<1>16. pick.s = row.says.s /\ pick.e = row.says.e
  BY <1>9, <1>12, <1>13, <1>14 DEF group
<1>17. dub = Uk => \A f \in ToSet(t.files) : f.d # dub
  BY <1>6
<1>18. Meant(t, row, dub, pick)
  BY <1>15, <1>16, <1>17 DEF Meant
<1> QED BY <1>8, <1>18

-----------------------------------------------------------------------------
(* The providers whose rows name the upstream's own numbers.               *)

\* A file taken down leaves only files that were there.
LEMMA ShrunkFacts ==
    ASSUME NEW l, NEW s, Possible(l, s), NEW t, Shrunk(s, t)
    PROVE  /\ Possible(l, t) /\ Kept(s, t)
           /\ s.files \in Seq(File) /\ t.files \in Seq(File) /\ ToSet(t.files) \subseteq ToSet(s.files)
<1>1. PICK i \in DOMAIN s.files : t = [s EXCEPT !.files = RemoveAt(@, i)]
  BY DEF Shrunk
<1>2. s \in Title /\ s.files \in Seq(File) /\ i \in 1 .. Len(s.files)
  BY DEF Possible, Title
<1> DEFINE files == RemoveAt(s.files, i)
           p == SubSeq(s.files, 1, i - 1)
           q == SubSeq(s.files, i + 1, Len(s.files))
<1>3. files = p \o q
  BY DEF RemoveAt
<1>4. /\ p \in Seq(File) /\ \A j \in 1 .. Len(p) : p[j] \in ToSet(s.files)
      /\ q \in Seq(File) /\ \A j \in 1 .. Len(q) : q[j] \in ToSet(s.files)
  BY <1>2 DEF ToSet
<1>5. t = [s EXCEPT !.files = files]
  BY <1>1
<1> HIDE DEF files, p, q
<1>6. files \in Seq(File) /\ \A j \in 1 .. Len(files) : files[j] \in ToSet(s.files)
  BY <1>3, <1>4
<1>7. t.files = files /\ Kept(s, t)
  BY <1>2, <1>5 DEF Title, Kept
<1>8. ToSet(files) \subseteq ToSet(s.files)
  BY <1>6 DEF ToSet
<1>9. Possible(l, t)
  BY <1>1, PossibleShrunk
<1> QED BY <1>2, <1>6, <1>7, <1>8, <1>9

\* What any change leaves: the season of a title that has one, and its first file
\* unless that is gone.
Changed(l, s, t) ==
    /\ Possible(l, s) /\ Possible(l, t) /\ Kept(s, t)
    /\ \A f \in ToSet(s.files), g \in ToSet(t.files) : l \in Seasonless => f.s = g.s
    /\ First(t.files) = NoFile \/ First(t.files) \in ToSet(s.files)

\* An added episode and a file taken down are such changes.
LEMMA ChangedFacts ==
    ASSUME NEW l, NEW s, Possible(l, s), NEW t, Grown(s, t) \/ Shrunk(s, t)
    PROVE  Changed(l, s, t)
<1>1. CASE Grown(s, t)
  <2>1. /\ Possible(l, t) /\ Kept(s, t) /\ s.files \in Seq(File) /\ ToSet(s.files) \subseteq ToSet(t.files)
        /\ s.files # <<>> /\ t.files # <<>> /\ Head(t.files) = Head(s.files)
    BY <1>1, GrownFacts
  <2>2. \A f, g \in ToSet(t.files) : l \in Seasonless => f.s = g.s
    BY <2>1 DEF Possible
  <2>3. First(t.files) \in ToSet(s.files)
    BY <2>1, HeadFacts DEF First
  <2> QED BY <2>1, <2>2, <2>3 DEF Changed
<1>2. CASE Shrunk(s, t)
  <2>1. /\ Possible(l, t) /\ Kept(s, t) /\ ToSet(t.files) \subseteq ToSet(s.files)
    BY <1>2, ShrunkFacts
  <2>2. \A f, g \in ToSet(s.files) : l \in Seasonless => f.s = g.s
    BY DEF Possible
  <2>3. First(t.files) = NoFile \/ First(t.files) \in ToSet(s.files)
    BY <2>1, SiteFacts
  <2> QED BY <2>1, <2>2, <2>3 DEF Changed
<1> QED BY <1>1, <1>2

LEMMA CoaninetStays ==
    ASSUME NEW s, NEW t, Changed("coaninet", s, t), NEW listed,
           NEW row \in CoaninetContent(s, listed).rows, NEW dub, NEW ans,
           CoaninetStream(t, row.at, dub, ans).code = "ok"
    PROVE  Meant(t, row, dub, CoaninetStream(t, row.at, dub, ans).file)
<1> DEFINE media == CoaninetStream(t, row.at, dub, ans)
           found == Numbered(t.files, row.at[2])
           pick == DubOrFirst(found, dub)
           mine(n) == Numbered(s.files, n)
<1>1. /\ Possible("coaninet", s) /\ Possible("coaninet", t)
      /\ \A f \in ToSet(s.files), g \in ToSet(t.files) : f.s = g.s
  BY DEF Changed, Seasonless
<1>2. s.files \in Seq(File) /\ t.files \in Seq(File)
  BY <1>1, SiteFacts
<1>3. PICK e \in Numbers(s.files) : row = Row(<<1, e>>, Head(mine(e)), DubsOf(mine(e)))
  BY DetailFacts DEF CoaninetContent, NumberRows
<1>4. mine(e) \in Seq(File) /\ mine(e) # <<>> /\ \A f : f \in ToSet(mine(e)) <=> f \in ToSet(s.files) /\ f.e = e
  BY <1>2, NumberedFacts DEF Numbered, Numbers
<1> HIDE DEF mine
<1>5. row.at = <<1, e>> /\ row.says = Head(mine(e))
  BY <1>3, RowFacts
<1>6. row.at # <<>> /\ row.at[2] = e /\ row.says \in ToSet(s.files) /\ row.says.e = e
  BY <1>4, <1>5, HeadFacts
<1>7. media = Media(Refusal(CoaninetSeason(t, ans) \o <<Unless(found # <<>>, "not_found")>>), pick)
  BY <1>6 DEF CoaninetStream
<1>8. found = Numbered(t.files, e)
  BY <1>6
<1>9. found \in Seq(File) /\ \A f : f \in ToSet(found) <=> f \in ToSet(t.files) /\ f.e = e
  BY <1>2, <1>8, NumberedFacts DEF Numbered
<1>10. media.code = "ok"
  OBVIOUS
<1> HIDE DEF media, found, pick
<1>11. media.file = pick /\ pick # NoFile
  BY <1>7, <1>10, MediaFacts
<1>12. pick \in ToSet(found) /\ (dub # 0 /\ (\E f \in ToSet(found) : f.d = dub) => pick.d = dub)
  BY <1>9, <1>11, DubOrFirstFacts DEF pick
<1>13. Meant(t, row, dub, pick)
  BY <1>1, <1>6, <1>9, <1>12 DEF Meant
<1> QED BY <1>11, <1>13 DEF media

LEMMA SimpsonsStays ==
    ASSUME NEW s, NEW t, Changed("simpsonsuatv", s, t), NEW listed,
           NEW row \in SimpsonsContent(s, listed).rows, NEW dub \in row.dubs \cup {0}, NEW ans,
           SimpsonsStream(t, row.at, dub, ans).code = "ok"
    PROVE  Meant(t, row, dub, SimpsonsStream(t, row.at, dub, ans).file)
<1> DEFINE page == SimpsonsPage(t, row.at)
<1>1. t.files \in Seq(File)
  BY SiteFacts DEF Changed
<1>2. PICK f \in ToSet(s.files) : row = Row(<<f.s, f.e>>, f, {})
  <2> DEFINE seasons == IF s.shape = "season" THEN SimpsonsShow(s, listed) ELSE {f.s : f \in ToSet(s.files)}
  <2>1. row \in {Row(<<f.s, f.e>>, f, {}) : f \in {g \in ToSet(s.files) : g.s \in seasons}}
    BY DetailFacts DEF SimpsonsContent
  <2> HIDE DEF seasons
  <2> QED BY <2>1
<1>3. row.at = <<f.s, f.e>> /\ row.says = f /\ dub = 0
  BY <1>2, RowFacts
<1>4. page # <<>> /\ SimpsonsStream(t, row.at, dub, ans).file = Head(page)
  BY SimpsonsMedia
<1>5. row.at = <<Head(page).s, Head(page).e>>
  BY <1>1, <1>4, SimpsonsPageFacts
<1> HIDE DEF page
<1>6. Meant(t, row, dub, Head(page))
  BY <1>3, <1>5 DEF Meant
<1> QED BY <1>4, <1>6

\* An episode of animeon is played from what it was listed from.
LEMMA AnimeonStays ==
    ASSUME NEW s, Possible("animeon", s), s.series, NEW t, NEW listed,
           NEW row \in AnimeonContent(s, listed).rows, NEW dub \in row.dubs \cup {0}, NEW ans
    PROVE  /\ row.at # <<>>
           /\ AnimeonStream(s, row.at, dub, ans).code = "ok" =>
                 Meant(t, row, dub, AnimeonStream(s, row.at, dub, ans).file)
<1> DEFINE media == AnimeonStream(s, row.at, dub, ans)
           chosen == AnimeonChosen(s, row.at, dub)
           sources == Numbered(s.files, row.at[2])
<1>1. s.files \in Seq(File)
  BY SiteFacts
<1>2. row \in NumberRows(AnimeonPairs(s, listed))
  BY DetailFacts DEF AnimeonContent, AnimeonEpisodes
<1>3. row.at # <<>> /\ chosen # <<>> /\ Head(chosen) # NoFile /\ Meant(s, row, dub, Head(chosen))
  BY <1>2, AnimeonEpisode
<1>4. media.code = "ok" => media.file = Head(chosen)
  BY <1>1, <1>3, AnimeonMedia
<1>5. sources \in Seq(File)
  BY <1>1, NumberedFacts DEF Numbered
<1>6. chosen = IF dub = 0 THEN sources ELSE Folder(sources, "d", dub)
  BY DEF AnimeonChosen
<1> HIDE DEF sources, chosen, media
<1>7. dub # 0 => Head(chosen).d = dub
  BY <1>3, <1>5, <1>6, DubbedFacts
<1>8. Meant(t, row, dub, Head(chosen))
  BY <1>3, <1>7 DEF Meant
<1> QED BY <1>3, <1>4, <1>8 DEF media

LEMMA UakinoStays ==
    ASSUME NEW s, NEW t, Changed("uakino", s, t), s.payload = "list", NEW listed,
           NEW row \in UakinoContent(s, listed).rows, NEW dub, NEW ans,
           UakinoStream(t, row.at, dub, ans).code = "ok"
    PROVE  Meant(t, row, dub, UakinoStream(t, row.at, dub, ans).file)
<1> DEFINE items == UakinoItems(s)
           episodes == Those(items, LAMBDA f : f.e # 0)
           where == {i \in DOMAIN items : items[i].e # 0}
           dubs == IF DubsOf(items) = {} THEN {Uk} ELSE DubsOf(items)
           mine(e) == Folder(episodes, "e", e)
           number == IF row.at = <<>> THEN 0 ELSE row.at[2]
           found == UakinoFound(t, row.at)
           pick == PickVoice(found, dub)
           media == UakinoStream(t, row.at, dub, ans)
<1>1. /\ Possible("uakino", s) /\ Possible("uakino", t)
      /\ \A f \in ToSet(s.files), g \in ToSet(t.files) : f.s = g.s
      /\ t.payload = "list" /\ (First(t.files) = NoFile \/ First(t.files) \in ToSet(s.files))
  BY DEF Changed, Kept, Seasonless
<1>2. /\ s.files \in Seq(File) /\ t.files \in Seq(File)
      /\ First(t.files) \in ToSet(t.files) \cup {NoFile}
  BY <1>1, SiteFacts
<1>3. items = s.files /\ UakinoItems(t) = t.files
  BY <1>1 DEF UakinoItems
<1>4. \/ /\ episodes # <<>>
         /\ row \in {Row(<<1, e>>, Head(mine(e)), DubsOf(mine(e))) : e \in {f.e : f \in ToSet(episodes)}}
      \/ episodes = <<>> /\ row \in FilmRow(s.files, dubs)
  <2>1. row \in IF episodes # <<>>
                THEN {Row(<<1, e>>, Head(mine(e)), DubsOf(mine(e))) : e \in {f.e : f \in ToSet(episodes)}}
                ELSE FilmRow(s.files, dubs)
    BY DetailFacts DEF UakinoContent
  <2> HIDE DEF items, episodes, mine, dubs
  <2> QED BY <2>1
<1>5. episodes = Picked(items, where) /\ where \in SUBSET (DOMAIN items)
  BY DEF Those
<1>6. /\ \A i \in where : items[i].e # 0
      /\ \A i \in DOMAIN items : items[i].e # 0 => i \in where
  OBVIOUS
<1> HIDE DEF where, episodes, items, dubs
<1>7. /\ episodes \in Seq(File) /\ ToSet(episodes) \subseteq ToSet(s.files)
      /\ \A i \in where : s.files[i] \in ToSet(episodes)
  BY <1>2, <1>3, <1>5, ThoseFacts
<1>8. /\ row.says \in ToSet(s.files) /\ row.says.e = number
      /\ row.at = <<>> => \A f \in ToSet(s.files) : f.e = 0
  <2>1. ASSUME episodes # <<>> PROVE row.says \in ToSet(s.files) /\ row.says.e = number /\ row.at # <<>>
    <3>1. PICK e \in {f.e : f \in ToSet(episodes)} : row = Row(<<1, e>>, Head(mine(e)), DubsOf(mine(e)))
      BY <1>4, <2>1
    <3>2. /\ mine(e) \in Seq(File) /\ mine(e) # <<>>
          /\ \A f : f \in ToSet(mine(e)) <=> f \in ToSet(episodes) /\ f.e = e
      BY <1>7, <3>1, NumberedFacts
    <3> HIDE DEF mine
    <3>3. row.at = <<1, e>> /\ row.says = Head(mine(e))
      BY <3>1, RowFacts
    <3>4. row.at # <<>> /\ row.at[2] = e
      BY <3>3
    <3> QED BY <1>7, <3>2, <3>3, <3>4, HeadFacts
  <2>2. ASSUME episodes = <<>>
        PROVE  row.says \in ToSet(s.files) /\ row.says.e = number /\ \A f \in ToSet(s.files) : f.e = 0
    <3>1. row.at = <<>> /\ s.files # <<>> /\ row.says = Head(s.files)
      BY <1>4, <2>2, FilmRowFacts
    <3>2. \A f \in ToSet(s.files) : f.e = 0
      <4> SUFFICES ASSUME NEW f \in ToSet(s.files), f.e # 0 PROVE FALSE
        OBVIOUS
      <4>1. PICK i \in DOMAIN s.files : s.files[i] = f
        BY DEF ToSet
      <4>2. f \in ToSet(episodes)
        BY <1>3, <1>6, <1>7, <4>1
      <4> QED BY <2>2, <4>2 DEF ToSet
    <3> QED BY <1>2, <3>1, <3>2, HeadFacts
  <2> QED BY <2>1, <2>2
<1>9. /\ found \in Seq(File)
      /\ \A f : f \in ToSet(found) <=> f \in ToSet(t.files) /\ f.e = number
  <2>1. /\ found \in Seq(File)
        /\ \A f : f \in ToSet(found) <=> f \in ToSet(UakinoItems(t)) /\ f.e = number
    BY <1>2, UakinoFoundFacts
  <2> HIDE DEF found, number
  <2> QED BY <1>3, <2>1
<1>10. \/ found # <<>> /\ media.file = pick /\ media.file # NoFile
       \/ found = <<>> /\ row.at = <<>> /\ media.file = First(t.files) /\ media.file # NoFile
  BY <1>2, UakinoMedia
<1> HIDE DEF found, pick, media, number
<1>11. found # <<>> /\ media.file = pick /\ pick # NoFile
  <2> SUFFICES ASSUME found = <<>>, row.at = <<>>, media.file = First(t.files), media.file # NoFile PROVE FALSE
    BY <1>10
  <2>1. First(t.files) \in ToSet(s.files) /\ First(t.files) \in ToSet(t.files)
    BY <1>1, <1>2
  <2>2. number = 0
    BY DEF number
  <2>3. First(t.files) \in ToSet(found)
    BY <1>8, <1>9, <2>1, <2>2
  <2> QED BY <2>3 DEF ToSet
<1>12. pick \in ToSet(found) /\ (dub # 0 /\ (\E f \in ToSet(found) : f.d = dub) => pick.d = dub)
  BY <1>9, <1>11, PickVoiceFacts DEF pick
<1>13. Meant(t, row, dub, pick)
  BY <1>1, <1>8, <1>9, <1>12 DEF Meant
<1> QED BY <1>11, <1>13 DEF media

-----------------------------------------------------------------------------
(* Every lane.                                                             *)

\* The rows of a tree name positions in it.
LEMMA ShownAt ==
    ASSUME NEW rows, NEW tree, NEW dubs, Shows(rows, tree, dubs), NEW row \in rows
    PROVE  row.at # <<>>
<1>1. PICK i \in DOMAIN tree : \E j \in DOMAIN tree[i] : row = Row(<<i, j>>, tree[i][j], dubs)
  BY DEF Shows
<1> QED BY <1>1 DEF Row

\* The rows of a playlist of uaserialspro name positions, ...
LEMMA UaserialsproPlaced ==
    ASSUME NEW s, s.payload = "list", NEW listed, NEW row \in UaserialsproContent(s, listed).rows
    PROVE  row.at # <<>>
<1> DEFINE tree == Folders(s.files, "s")
<1>1. row \in UaserialsproSeasons(s)
  BY DetailFacts DEF UaserialsproContent
<1>2. PICK i \in DOMAIN tree : \E j \in DOMAIN tree[i] : row.at = <<i, j>>
  BY <1>1 DEF UaserialsproSeasons, RowsOf, Row
<1> QED BY <1>2

\* ... and so do those of a series of eneyida.
LEMMA EneyidaPlaced ==
    ASSUME NEW s, Possible("eneyida", s), s.series, NEW listed, NEW row \in EneyidaContent(s, listed).rows
    PROVE  row.at # <<>>
<1> DEFINE rows == EneyidaSeasons(s, listed)
<1>1. row \in rows
  BY DetailFacts DEF EneyidaContent
<1>2. listed.player = "page" /\ s.payload = "list"
  BY <1>1 DEF EneyidaSeasons
<1>3. ASSUME NEW tree, NEW dubs, Shows(rows, tree, dubs) PROVE row.at # <<>>
  <2> HIDE DEF rows
  <2> QED BY <1>1, <1>3, ShownAt
<1>4. ASSUME s.shape \in {"season", "wrapped"} PROVE row.at # <<>>
  <2> DEFINE tree == Leads(s.files)
             D(f) == DubsOf(Folder(s.files, "s", f.s))
  <2>1. rows = UNION {{Row(<<p, q>>, tree[p][q], D(tree[p][q])) : q \in DOMAIN tree[p]} : p \in DOMAIN tree}
    BY <1>2, <1>4, EneyidaDubs
  <2> HIDE DEF rows, tree, D
  <2>2. PICK i \in DOMAIN tree : \E j \in DOMAIN tree[i] : row = Row(<<i, j>>, tree[i][j], D(tree[i][j]))
    BY <1>1, <2>1
  <2> QED BY <2>2 DEF Row
<1>6. s.shape \in {"tracks", "dubbed", "plain", "season", "wrapped"}
  BY <1>1, EneyidaNests
<1> HIDE DEF rows
<1>5. /\ s.shape = "tracks" => Shows(rows, <<DubFolder(s.files, 0)>>, DubsOf(s.files))
      /\ s.shape = "dubbed" => Shows(rows, Folders(DubFolder(s.files, 0), "s"), {Uk})
      /\ s.shape = "plain" => Shows(rows, Folders(s.files, "s"), {Uk})
  BY <1>2, EneyidaShows DEF rows
<1> QED BY <1>3, <1>4, <1>5, <1>6

\* A position in a playlist plays a file of it or nothing.
LEMMA EneyidaSelects ==
    ASSUME NEW s, Possible("eneyida", s), s.payload = "list", NEW pos, pos # <<>>, NEW dub
    PROVE  EneyidaSelect(s, pos, dub) \in ToSet(s.files) \cup {NoFile}
<1> DEFINE pick == EneyidaSelect(s, pos, dub)
           season == Item(Folders(s.files, "s"), pos[1])
           tracks == Item(Folders(s.files, "d"), pos[1])
           Here == ToSet(s.files) \cup {NoFile}
<1>1. s.files \in Seq(File)
  BY SiteFacts
<1>2. At(Folders(DubFolder(s.files, 0), "s"), pos) \in Here
  BY LeadFacts
<1>3. At(<<DubFolder(season, dub)>>, <<1, pos[2]>>) \in Here
  <2>1. season \in Seq(File) /\ ToSet(season) \subseteq ToSet(s.files)
    BY <1>1, ItemFacts
  <2> HIDE DEF season
  <2>2. DubFolder(season, dub) \in Seq(File) /\ ToSet(DubFolder(season, dub)) \subseteq ToSet(season)
    BY <2>1, DubFolderFacts
  <2>3. At(<<DubFolder(season, dub)>>, <<1, pos[2]>>) \in ToSet(DubFolder(season, dub)) \cup {NoFile}
    BY <2>2, SingleFacts
  <2> QED BY <2>1, <2>2, <2>3
<1>4. At(<<tracks>>, <<1, pos[2]>>) \in Here
  <2>1. tracks \in Seq(File) /\ ToSet(tracks) \subseteq ToSet(s.files)
    BY <1>1, ItemFacts
  <2> HIDE DEF tracks
  <2>2. At(<<tracks>>, <<1, pos[2]>>) \in ToSet(tracks) \cup {NoFile}
    BY <2>1, SingleFacts
  <2> QED BY <2>1, <2>2
<1>5. At(<<Folder(s.files, "d", dub)>>, <<1, pos[2]>>) \in Here
  <2> DEFINE mine == Folder(s.files, "d", dub)
  <2>1. mine \in Seq(File) /\ ToSet(mine) \subseteq ToSet(s.files)
    BY <1>1, FolderFacts
  <2> HIDE DEF mine
  <2>2. At(<<mine>>, <<1, pos[2]>>) \in ToSet(mine) \cup {NoFile}
    BY <2>1, SingleFacts
  <2>3. At(<<mine>>, <<1, pos[2]>>) \in Here
    BY <2>1, <2>2
  <2> QED BY <2>3 DEF mine
<1>6. NoFile \in Here
  OBVIOUS
<1> HIDE DEF Here, season, tracks
<1>7. pick \in Here
  BY <1>2, <1>3, <1>4, <1>5, <1>6 DEF EneyidaSelect, season, tracks
<1> QED BY <1>7 DEF Here

\* What plays of a playlist is a file of the title, for the trusting providers too.
LEMMA ListPlaysFiles ==
    ASSUME NEW l \in Lanes, l # "kinotron", NEW t, Possible(l, t), t.payload = "list", NEW pos,
           l \in {"uaserialspro", "eneyida"} => pos # <<>>, NEW dub, NEW ans,
           Stream(l, t, pos, dub, ans).code = "ok"
    PROVE  Stream(l, t, pos, dub, ans).file # RawText
<1> DEFINE media == Stream(l, t, pos, dub, ans)
<1>0. \A f \in ToSet(t.files) : f # RawText
  BY SiteFacts
<1>1. CASE l \notin Trusting
  <2>1. media.file \in ToSet(t.files)
    BY <1>1, LaneReal DEF Real
  <2> QED BY <1>0, <2>1
<1>2. RawText # NoFile
  BY DEF RawText, NoFile
<1>3. CASE l = "uaserialspro"
  <2>1. media.file = UaserialsproSelect(t, pos, dub) /\ media.file # NoFile
    <3>1. media = UaserialsproStream(t, pos, dub, ans)
      BY <1>3 DEF Stream
    <3> HIDE DEF media
    <3> QED BY <3>1, MediaFacts DEF UaserialsproStream, media
  <2>2. UaserialsproSelect(t, pos, dub) = LabelledPick(Folders(t.files, "s"), pos, dub)
    BY <1>3 DEF UaserialsproSelect
  <2>3. t.files \in Seq(File)
    BY SiteFacts
  <2>4. media.file \in ToSet(t.files)
    BY <2>1, <2>2, <2>3, LabelledPlays
  <2> QED BY <1>0, <2>4
<1>4. CASE l = "eneyida"
  <2>1. media.file = EneyidaSelect(t, pos, dub) /\ media.file # NoFile
    <3>1. media = EneyidaStream(t, pos, dub, ans)
      BY <1>4 DEF Stream
    <3> HIDE DEF media
    <3> QED BY <3>1, MediaFacts DEF EneyidaStream, media
  <2>2. EneyidaSelect(t, pos, dub) \in ToSet(t.files) \cup {NoFile}
    BY <1>4, EneyidaSelects
  <2> QED BY <1>0, <2>1, <2>2
<1>5. CASE l = "animeua"
  <2> DEFINE group == Item(Item(AnimeuaGroups(t), pos[1]), pos[2])
             played == DubOrFirst(group, dub)
  <2>1. media.file = AnimeuaPick(t, pos, dub) /\ media.file # NoFile
    <3>1. media = AnimeuaStream(t, pos, dub, ans)
      BY <1>5 DEF Stream
    <3> HIDE DEF media
    <3> QED BY <3>1, MediaFacts DEF AnimeuaStream, media
  <2>2. AnimeuaPick(t, pos, dub) \in {NoFile, played}
    BY DEF AnimeuaPick
  <2>3. group = <<>> \/ (group \in Seq(File) /\ ToSet(group) \subseteq ToSet(t.files))
    <3>1. t.files \in Seq(File)
      BY SiteFacts
    <3> QED BY <3>1, AnimeuaGroupFacts
  <2> HIDE DEF group
  <2>4. played = NoFile \/ played \in ToSet(t.files)
    <3>1. CASE group = <<>>
      BY <3>1 DEF DubOrFirst
    <3>2. CASE group # <<>>
      BY <2>3, <3>2, DubOrFirstFacts
    <3> QED BY <3>1, <3>2
  <2> HIDE DEF played
  <2> QED BY <1>0, <2>1, <2>2, <2>4
<1> QED BY <1>1, <1>3, <1>4, <1>5 DEF Trusting

\* A row that is still listed plays its episode.
LEMMA FoundPlays ==
    ASSUME NEW l \in Lanes, NEW t, Possible(l, t), NEW listed, NEW row, Found(row, Content(l, t, listed).rows),
           NEW dub \in row.dubs \cup {0}, NEW ans, Stream(l, t, row.at, dub, ans).code = "ok",
           Stream(l, t, row.at, dub, ans).file # RawText,
           ~Misnumbered(l, t), dub # 0 => DubsMatch(l, t)
    PROVE  Meant(t, row, dub, Stream(l, t, row.at, dub, ans).file)
<1>1. PICK r \in Content(l, t, listed).rows : r.at = row.at /\ r.says = row.says /\ row.dubs \subseteq r.dubs
  BY DEF Found
<1>2. dub \in r.dubs \cup {0}
  BY <1>1
<1> DEFINE media == Stream(l, t, r.at, dub, ans)
<1>3. Right(l, t, r, dub, media)
  BY <1>2, LanePlays
<1>4. media = Stream(l, t, row.at, dub, ans)
  BY <1>1
<1> HIDE DEF media
<1>5. Meant(t, r, dub, media.file)
  BY <1>3, <1>4 DEF Right
<1> QED BY <1>1, <1>4, <1>5 DEF Meant

\* Where positions are named, a row is still listed after an episode was added.
LEMMA LaneStays ==
    ASSUME NEW l \in Lanes \ (Numbering \cup {"kinotron", "bambooua"}), NEW s, Possible(l, s),
           NEW t, Grown(s, t), ~Merges(l, t), NEW listed, NEW row \in Content(l, s, listed).rows
    PROVE  Found(row, Content(l, t, listed).rows)
<1>0. l \in {"animeua", "anitubeinua"} => Lone(t)
  BY DEF Merges, Lone
<1>1. CASE l = "serialno"
  <2>1. row \in SerialnoContent(s, listed).rows /\ Possible("serialno", s)
    BY <1>0, <1>1 DEF Content
  <2>2. Found(row, SerialnoContent(t, listed).rows)
    BY <2>1, SerialnoStays
  <2> QED BY <1>1, <2>2 DEF Content
<1>2. CASE l = "kinovezha"
  <2>1. row \in KinovezhaContent(s, listed).rows /\ Possible("kinovezha", s)
    BY <1>0, <1>2 DEF Content
  <2>2. Found(row, KinovezhaContent(t, listed).rows)
    BY <2>1, KinovezhaStays
  <2> QED BY <1>2, <2>2 DEF Content
<1>3. CASE l = "uaserialspro"
  <2>1. row \in UaserialsproContent(s, listed).rows /\ Possible("uaserialspro", s)
    BY <1>0, <1>3 DEF Content
  <2>2. Found(row, UaserialsproContent(t, listed).rows)
    BY <2>1, UaserialsproStays
  <2> QED BY <1>3, <2>2 DEF Content
<1>4. CASE l = "klontv"
  <2>1. row \in KlontvContent(s, listed).rows /\ Possible("klontv", s)
    BY <1>0, <1>4 DEF Content
  <2>2. Found(row, KlontvContent(t, listed).rows)
    BY <2>1, KlontvStays
  <2> QED BY <1>4, <2>2 DEF Content
<1>5. CASE l = "eneyida"
  <2>1. row \in EneyidaContent(s, listed).rows /\ Possible("eneyida", s)
    BY <1>0, <1>5 DEF Content
  <2>2. Found(row, EneyidaContent(t, listed).rows)
    BY <2>1, EneyidaStays
  <2> QED BY <1>5, <2>2 DEF Content
<1>6. CASE l = "uaflix"
  <2>1. row \in UaflixContent(s, listed).rows /\ Possible("uaflix", s)
    BY <1>0, <1>6 DEF Content
  <2>2. Found(row, UaflixContent(t, listed).rows)
    BY <2>1, UaflixStays
  <2> QED BY <1>6, <2>2 DEF Content
<1>7. CASE l = "anitubeinua"
  <2>1. row \in AnitubeContent(s, listed).rows /\ Possible("anitubeinua", s) /\ Lone(t)
    BY <1>0, <1>7 DEF Content
  <2>2. Found(row, AnitubeContent(t, listed).rows)
    BY <2>1, AnitubeStays
  <2> QED BY <1>7, <2>2 DEF Content
<1>8. CASE l = "animeua"
  <2>1. row \in AnimeuaContent(s, listed).rows /\ Possible("animeua", s) /\ Lone(t)
    BY <1>0, <1>8 DEF Content
  <2>2. Found(row, AnimeuaContent(t, listed).rows)
    BY <2>1, AnimeuaStays
  <2> QED BY <1>8, <2>2 DEF Content
<1>9. CASE l = "unimay"
  <2>1. row \in UnimayContent(s, listed).rows /\ Possible("unimay", s)
    BY <1>0, <1>9 DEF Content
  <2>2. Found(row, UnimayContent(t, listed).rows)
    BY <2>1, UnimayStays
  <2> QED BY <1>9, <2>2 DEF Content
<1>10. CASE l = "hentaiukr"
  <2>1. row \in HentaiukrContent(s, listed).rows /\ Possible("hentaiukr", s)
    BY <1>0, <1>10 DEF Content
  <2>2. Found(row, HentaiukrContent(t, listed).rows)
    BY <2>1, HentaiukrStays
  <2> QED BY <1>10, <2>2 DEF Content
<1>11. CASE l = "cikavaideya"
  <2>1. row \in CikavaContent(s, listed).rows /\ Possible("cikavaideya", s)
    BY <1>0, <1>11 DEF Content
  <2>2. Found(row, CikavaContent(t, listed).rows)
    BY <2>1, CikavaStays
  <2> QED BY <1>11, <2>2 DEF Content
<1>12. CASE l = "ufdub"
  <2>1. row \in UfdubContent(s, listed).rows /\ Possible("ufdub", s)
    BY <1>0, <1>12 DEF Content
  <2>2. Found(row, UfdubContent(t, listed).rows)
    BY <2>1, UfdubStays
  <2> QED BY <1>12, <2>2 DEF Content
<1>13. CASE l = "doramyworld"
  <2>1. row \in DoramyContent(s, listed).rows /\ Possible("doramyworld", s)
    BY <1>0, <1>13 DEF Content
  <2>2. Found(row, DoramyContent(t, listed).rows)
    BY <2>1, DoramyStays
  <2> QED BY <1>13, <2>2 DEF Content
<1> QED BY <1>1, <1>2, <1>3, <1>4, <1>5, <1>6, <1>7, <1>8, <1>9, <1>10, <1>11, <1>12, <1>13 DEF Lanes, Numbering

\* What was listed before an episode was added plays the same after it.
LEMMA GrownPlays ==
    ASSUME NEW l \in Lanes \ Numbering, NEW s, Possible(l, s), NEW t, Grown(s, t), ~Merges(l, t),
           NEW listed, NEW row \in Content(l, s, listed).rows, NEW dub \in row.dubs \cup {0}, NEW ans,
           Stream(l, t, row.at, dub, ans).code = "ok",
           ~Misnumbered(l, t), dub # 0 => DubsMatch(l, t)
    PROVE  Meant(t, row, dub, Stream(l, t, row.at, dub, ans).file)
<1> DEFINE media == Stream(l, t, row.at, dub, ans)
<1>1. /\ Possible(l, t) /\ Kept(s, t) /\ s.series /\ s.payload = "list"
      /\ s.files # <<>> /\ t.files # <<>> /\ Head(t.files) = Head(s.files)
  BY GrownFacts
<1>2. t.payload = "list"
  BY <1>1 DEF Kept
<1>3. ASSUME l # "kinotron" PROVE media.file # RawText
  <2>1. l = "uaserialspro" => row.at # <<>>
    BY <1>1, UaserialsproPlaced DEF Content
  <2>2. l = "eneyida" => row.at # <<>>
    BY <1>1, EneyidaPlaced DEF Content
  <2> QED BY <1>1, <1>2, <1>3, <2>1, <2>2, ListPlaysFiles
<1>4. CASE l = "kinotron"
  <2>1. row \in KinotronContent(s, listed).rows /\ Possible("kinotron", s)
    BY <1>4 DEF Content
  <2>2. Lone(t) /\ ~PartlyNamed(t)
    BY <1>4 DEF Merges, Lone, Misnumbered
  <2>3. KinotronStream(t, row.at, dub, ans).code = "ok"
    BY <1>4 DEF Stream
  <2>4. Meant(t, row, dub, KinotronStream(t, row.at, dub, ans).file)
    BY <2>1, <2>2, <2>3, KinotronStays
  <2> QED BY <1>4, <2>4 DEF Stream
<1>5. CASE l = "bambooua"
  <2>1. row \in BambooContent(s, listed).rows /\ Possible("bambooua", s)
    BY <1>5 DEF Content
  <2>2. \/ Found(row, BambooContent(t, listed).rows)
        \/ row.at = <<>> /\ row.says = Head(s.files) /\ row.dubs = {}
    BY <2>1, BambooStays
  <2>3. ASSUME Found(row, BambooContent(t, listed).rows) PROVE Meant(t, row, dub, media.file)
    <3>1. Found(row, Content(l, t, listed).rows)
      BY <1>5, <2>3 DEF Content
    <3> QED BY <1>1, <1>3, <1>5, <3>1, FoundPlays
  <2>4. ASSUME row.at = <<>>, row.says = Head(s.files), row.dubs = {} PROVE Meant(t, row, dub, media.file)
    <3>1. media = BambooStream(t, row.at, dub, ans) /\ media.code = "ok"
      BY <1>5 DEF Stream
    <3> HIDE DEF media
    <3>3. media.file = First(t.files)
      BY <2>4, <3>1, MediaFacts DEF BambooStream, BambooSelect
    <3>4. First(t.files) = Head(t.files)
      BY <1>1, SiteFacts
    <3> QED BY <1>1, <2>4, <3>3, <3>4 DEF Meant
  <2> QED BY <2>2, <2>3, <2>4
<1>6. CASE l \notin {"kinotron", "bambooua"}
  <2>1. Found(row, Content(l, t, listed).rows)
    BY <1>6, LaneStays
  <2> QED BY <1>1, <1>3, <1>6, <2>1, FoundPlays
<1> QED BY <1>4, <1>5, <1>6

\* Where the upstream's own numbers are named, any change leaves them.
LEMMA NumberPlays ==
    ASSUME NEW l \in Numbering, NEW s, Possible(l, s), NEW t, Grown(s, t) \/ Shrunk(s, t),
           NEW listed, NEW row \in Content(l, s, listed).rows, NEW dub \in row.dubs \cup {0}, NEW ans
    PROVE  LET media == Stream(l, IF l = "animeon" /\ row.at # <<>> THEN s ELSE t, row.at, dub, ans)
           IN  media.code = "ok" => Meant(t, row, dub, media.file)
<1> DEFINE pressed == IF l = "animeon" /\ row.at # <<>> THEN s ELSE t
           media == Stream(l, pressed, row.at, dub, ans)
<1>1. Changed(l, s, t)
  BY ChangedFacts
<1>2. s.series /\ s.payload = "list"
  BY DEF Grown, Shrunk
<1>3. CASE l = "animeon"
  <2>1. row \in AnimeonContent(s, listed).rows /\ Possible("animeon", s)
    BY <1>3 DEF Content
  <2>2. row.at # <<>> /\ (AnimeonStream(s, row.at, dub, ans).code = "ok" =>
                             Meant(t, row, dub, AnimeonStream(s, row.at, dub, ans).file))
    BY <1>2, <2>1, AnimeonStays
  <2>3. media = AnimeonStream(s, row.at, dub, ans)
    BY <1>3, <2>2 DEF Stream
  <2> QED BY <2>2, <2>3
<1>4. CASE l = "coaninet"
  <2>1. row \in CoaninetContent(s, listed).rows /\ Changed("coaninet", s, t)
    BY <1>1, <1>4 DEF Content
  <2>2. media = CoaninetStream(t, row.at, dub, ans)
    BY <1>4 DEF Stream
  <2>3. CoaninetStream(t, row.at, dub, ans).code = "ok" =>
           Meant(t, row, dub, CoaninetStream(t, row.at, dub, ans).file)
    BY <1>2, <2>1, CoaninetStays
  <2> QED BY <2>2, <2>3
<1>5. CASE l = "simpsonsuatv"
  <2>1. row \in SimpsonsContent(s, listed).rows /\ Changed("simpsonsuatv", s, t)
    BY <1>1, <1>5 DEF Content
  <2>2. media = SimpsonsStream(t, row.at, dub, ans)
    BY <1>5 DEF Stream
  <2>3. SimpsonsStream(t, row.at, dub, ans).code = "ok" =>
           Meant(t, row, dub, SimpsonsStream(t, row.at, dub, ans).file)
    BY <1>2, <2>1, SimpsonsStays
  <2> QED BY <2>2, <2>3
<1>6. CASE l = "uakino"
  <2>1. row \in UakinoContent(s, listed).rows /\ Changed("uakino", s, t)
    BY <1>1, <1>6 DEF Content
  <2>2. media = UakinoStream(t, row.at, dub, ans)
    BY <1>6 DEF Stream
  <2>3. UakinoStream(t, row.at, dub, ans).code = "ok" =>
           Meant(t, row, dub, UakinoStream(t, row.at, dub, ans).file)
    BY <1>2, <2>1, UakinoStays
  <2> QED BY <2>2, <2>3
<1> QED BY <1>3, <1>4, <1>5, <1>6 DEF Numbering

-----------------------------------------------------------------------------
(* Step by step.                                                           *)

\* The title is the one that was listed but for the episode that was added to it
\* or the file that was taken from it.
Revised ==
    \/ held.change = "none"
    \/ held.change = "grown" /\ Grown(held.of, site)
    \/ held.change = "shrunk" /\ Shrunk(held.of, site)

\* Every step keeps it so.
LEMMA RevisedStep == ToldInv /\ PressInv /\ Revised /\ [ScrapersNext]_scraperVars => Revised'
<1> SUFFICES ASSUME ToldInv, PressInv, Revised, [ScrapersNext]_scraperVars PROVE Revised'
  OBVIOUS
<1>0. /\ HeldAsTold /\ Possible(lane, site)
      /\ held.change = "none" => held.of = site
  BY DEF PressInv, Followed, ToldInv
<1>1. CASE Find \/ Press \/ UNCHANGED scraperVars
  BY <1>1 DEF Find, Press, scraperVars, Revised
<1>2. CASE Open
  <2>1. held'.change = "none"
    BY <1>2 DEF Open
  <2> QED BY <2>1 DEF Revised
<1>3. CASE Publish
  <2>1. PICK f \in ToSet(site.files) :
           LET season == {g \in ToSet(site.files) : g.s = f.s /\ g.d = f.d}
               newest == CHOOSE e \in {g.e : g \in season} : \A g \in season : g.e <= e
           IN  site' = [site EXCEPT !.files = Append(@, [f EXCEPT !.e = newest + 1])]
    BY <1>3 DEF Publish
  <2>2. PICK n \in Nat : /\ \A g \in ToSet(site.files) : g.s = f.s /\ g.d = f.d => g.e <= n
                         /\ site' = [site EXCEPT !.files = Append(@, [f EXCEPT !.e = n + 1])]
    <3> DEFINE season == {g \in ToSet(site.files) : g.s = f.s /\ g.d = f.d}
               newest == CHOOSE e \in {g.e : g \in season} : \A g \in season : g.e <= e
    <3>1. site.files \in Seq(File)
      BY <1>0 DEF Possible, Title
    <3>2. newest \in Nat /\ \A g \in season : g.e <= newest
      BY <3>1, NewestFacts
    <3>3. site' = [site EXCEPT !.files = Append(@, [f EXCEPT !.e = newest + 1])]
      BY <2>1
    <3> HIDE DEF newest
    <3> QED BY <3>2, <3>3
  <2>3. /\ site.series /\ site.payload = "list" /\ held.of = site
        /\ held'.of = held.of /\ held'.change = "grown"
    BY <1>0, <1>3 DEF Publish, Unrevised, HeldAsTold
  <2>4. Grown(site, site')
    BY <2>2, <2>3 DEF Grown
  <2> QED BY <2>3, <2>4 DEF Revised
<1>4. CASE Withdraw
  <2>1. /\ site.series /\ site.payload = "list" /\ held.of = site
        /\ held'.of = held.of /\ held'.change = "shrunk"
    BY <1>0, <1>4 DEF Withdraw, Unrevised, HeldAsTold
  <2>2. \E i \in DOMAIN site.files : site' = [site EXCEPT !.files = RemoveAt(@, i)]
    BY <1>4 DEF Withdraw
  <2>3. Shrunk(site, site')
    BY <2>1, <2>2 DEF Shrunk
  <2> QED BY <2>1, <2>3 DEF Revised
<1> QED BY <1>1, <1>2, <1>3, <1>4 DEF ScrapersNext

\* What is pressed after a change plays what was listed before it.
LEMMA RevisedPlays == PressInv /\ Revised => AddressesSurviveChange
<1> SUFFICES ASSUME PressInv, Revised, Played, ~Misnumbered(lane, site),
                    got.dub # 0 => DubsMatch(lane, site), held.change # "none",
                    ~(held.change = "shrunk" /\ lane \notin Numbering),
                    ~(held.change = "grown" /\ Merges(lane, site))
             PROVE  Meant(site, got.row, got.dub, got.file)
  BY DEF AddressesSurviveChange
<1>1. got.code = "ok" /\ got.row # Bare /\ got # NoPress
  BY DEF Played, NoPress
<1>2. lane \in Lanes /\ Possible(lane, held.of)
  BY LanesAssumption DEF PressInv, Followed
<1>3. held.code = "ok" /\ got.row \in held.rows /\ got.dub \in got.row.dubs \cup {0}
  BY <1>1 DEF PressInv, GotWasPressed
<1>4. PICK listed : held.rows = Content(lane, held.of, listed).rows
  BY <1>3 DEF PressInv, HeldWasListed
<1>5. PICK ans : LET media == Stream(lane, Minted(got.row.at), got.row.at, got.dub, ans)
                 IN  got.code = media.code /\ got.file = media.file
  BY <1>1 DEF PressInv, GotWasPressed
<1>6. CASE lane \in Numbering
  <2> DEFINE media == Stream(lane, Minted(got.row.at), got.row.at, got.dub, ans)
  <2>1. Grown(held.of, site) \/ Shrunk(held.of, site)
    BY DEF Revised
  <2>2. media = Stream(lane, IF lane = "animeon" /\ got.row.at # <<>> THEN held.of ELSE site,
                       got.row.at, got.dub, ans)
    BY DEF Minted
  <2>3. got.row \in Content(lane, held.of, listed).rows
    BY <1>3, <1>4
  <2> HIDE DEF media
  <2>4. media.code = "ok" => Meant(site, got.row, got.dub, media.file)
    BY <1>2, <1>3, <1>6, <2>1, <2>2, <2>3, NumberPlays
  <2> QED BY <1>1, <1>5, <2>4 DEF media
<1>7. CASE lane \notin Numbering
  <2> DEFINE media == Stream(lane, site, got.row.at, got.dub, ans)
  <2>1. Grown(held.of, site) /\ ~Merges(lane, site)
    BY <1>7 DEF Revised
  <2>2. Minted(got.row.at) = site
    BY <1>7 DEF Minted, Numbering
  <2>3. media.code = "ok" /\ media.file = got.file
    BY <1>1, <1>5, <2>2
  <2>4. Meant(site, got.row, got.dub, media.file)
    BY <1>2, <1>3, <1>4, <1>7, <2>1, <2>3, GrownPlays
  <2> QED BY <2>3, <2>4
<1> QED BY <1>6, <1>7

\* The id of a row that was listed before the upstream changed plays the same
\* episode after it, in the dub it is asked in: after any change where the ids of
\* a provider name the upstream's own numbers, after an added episode where they
\* name positions that no other dub shifts.
THEOREM AddressesSurvive == ScrapersSpec => []AddressesSurviveChange
<1>1. ScrapersInit => Revised
  BY DEF ScrapersInit, NothingHeld, Revised
<1>2. ToldInv /\ PressInv /\ Revised /\ [ScrapersNext]_scraperVars => Revised'
  BY RevisedStep
<1>3. PressInv /\ Revised => AddressesSurviveChange
  BY RevisedPlays
<1>4. ScrapersSpec => []Revised
  BY <1>1, <1>2, ScrapersHold, PTL DEF ScrapersSpec
<1> QED BY <1>3, <1>4, ScrapersHold, PTL
=============================================================================
