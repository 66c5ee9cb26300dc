------------------------------- MODULE Scraper --------------------------------
(* What the scraping providers share: how an answer of the upstream becomes a  *)
(* code of the provider contract, how a player's playlist is laid out in       *)
(* folders, and what a detail page and a stream request give back.             *)
(*                                                                             *)
(* A title as the upstream publishes it is a record                            *)
(*   titled   the page carries the element the title is read from              *)
(*   series   the page (or its address) says it is episodic                    *)
(*   player   what the page embeds: "none", "youtube", "vod" or "serial"       *)
(*   payload  what the player page holds: "none" (no file), "url" (one media   *)
(*            address), "list" (a playlist), "garbled" (an unreadable list) or *)
(*            "hollow" (entries that name sources without an address)          *)
(*   shape    how the playlist nests: "flat" (untitled seasons), "plain"       *)
(*            (titled seasons), "season" (titled seasons of dubs), "dubbed"    *)
(*            (dubs of seasons), "tracks" (one wrapper of dubs) or "wrapped"   *)
(*            (one wrapper of seasons of dubs)                                 *)
(*   linked   the page links a page of its own for every episode               *)
(*   removed  the player answers that the content was taken down               *)
(*   files    the media files in upstream order, each naming its season, its   *)
(*            episode and its dub (0 when it carries no label)                 *)
(* and, told in CardLanes, how a card links to it (href) and what the card     *)
(* says of it (label).                                                         *)
EXTENDS Naturals, Sequences, FiniteSets, SequencesExt

File == [s : Nat, e : Nat, d : Nat]

Title ==
    [titled : BOOLEAN, series : BOOLEAN, linked : BOOLEAN, removed : BOOLEAN, label : BOOLEAN,
     player : {"none", "youtube", "vod", "serial"},
     payload : {"none", "url", "list", "garbled", "hollow"},
     shape : {"flat", "plain", "season", "dubbed", "tracks", "wrapped"},
     href : {"page", "upper", "hyphen", "aside", "foreign"},
     files : Seq(File)]

Answer == {"page", "missing", "error", "down"}

NoFile == [s |-> 0, e |-> 0, d |-> 0]

\* Text of the player page handed out as if it were a media address.
RawText == [s |-> 0, e |-> 0, d |-> 1]

\* The label a row without any dub of its own is offered under.
Uk == 9

-----------------------------------------------------------------------------
(* Codes. "down" is a transport error, "error" a 5xx status, "missing" any     *)
(* other status that is not 200: a 404, or a redirect the host allowlist of    *)
(* the provider refuses.                                                       *)

\* get_json and get_html, and the providers that tell a 5xx apart.
Strict(a) ==
    CASE a = "page" -> "ok"
      [] a = "down" -> "unreachable"
      [] a = "error" -> "upstream_unreachable"
      [] a = "missing" -> "not_found"

\* A fetch of a provider's own that treats every status but 200 alike.
Lenient(a) ==
    IF a = "page" THEN "ok"
    ELSE IF a = "down" THEN "unreachable"
    ELSE "not_found"

\* The search request of most providers.
Posted(a) ==
    IF a = "page" THEN "ok"
    ELSE IF a = "down" THEN "unreachable"
    ELSE "upstream_unreachable"

Unless(cond, code) == IF cond THEN "ok" ELSE code

\* Checks made in order: the first that refuses decides.
Refusal(codes) ==
    LET refusals == {i \in DOMAIN codes : codes[i] # "ok"}
    IN  IF refusals = {} THEN "ok" ELSE codes[Min(refusals)]

-----------------------------------------------------------------------------
(* Playlists.                                                                  *)

\* The elements at some positions of a sequence, in its order, ...
Picked(files, at) ==
    [n \in 1 .. Cardinality(at) |->
        files[CHOOSE i \in at : Cardinality({j \in at : j <= i}) = n]]

\* ... those that satisfy a condition, ...
Those(files, Test(_)) == Picked(files, {i \in DOMAIN files : Test(files[i])})

\* ... and all of them, arranged by the pairs of positions that say which goes
\* ahead of which.
Arranged(files, ahead) ==
    [n \in DOMAIN files |->
        files[CHOOSE i \in DOMAIN files :
                 Cardinality({j \in DOMAIN files : j = i \/ <<j, i>> \in ahead}) = n]]

\* The distinct values of one field, in the order they are first seen.
Firsts(files, field) ==
    {i \in DOMAIN files : \A j \in DOMAIN files : j < i => files[j][field] # files[i][field]}

Labels(files, field) ==
    LET firsts == Picked(files, Firsts(files, field))
    IN  [n \in DOMAIN firsts |-> firsts[n][field]]

Folder(files, field, label) == Those(files, LAMBDA f : f[field] = label)

\* The folders of one level, each holding the files of its label.
Folders(files, field) ==
    LET labels == Labels(files, field)
    IN  [i \in DOMAIN labels |-> Folder(files, field, labels[i])]

DubsOf(files) == {f.d : f \in ToSet(files)} \ {0}

\* The files in the order a walk dub by dub, season by season meets them.
DubMajor(files) ==
    LET Dub(i)    == Min({j \in DOMAIN files : files[j].d = files[i].d})
        Season(i) == Min({j \in DOMAIN files : files[j].d = files[i].d /\ files[j].s = files[i].s})
    IN  Arranged(files, {p \in (DOMAIN files) \X (DOMAIN files) :
                            LET i == p[1]
                                j == p[2]
                            IN  \/ Dub(i) < Dub(j)
                                \/ Dub(i) = Dub(j) /\ Season(i) < Season(j)
                                \/ Season(i) = Season(j) /\ i < j})

\* The dub folder titled `dub`, or the first.
DubFolder(files, dub) ==
    IF dub # 0 /\ Contains(Labels(files, "d"), dub) THEN Folder(files, "d", dub)
    ELSE IF files = <<>> THEN <<>> ELSE Folder(files, "d", Head(files).d)

First(files) == IF files = <<>> THEN NoFile ELSE Head(files)

Item(seq, i) == IF i \in DOMAIN seq THEN seq[i] ELSE <<>>

\* The file at a position <<season, episode>> of a tree of two levels.
At(tree, at) ==
    IF Len(at) = 2 /\ at[1] \in DOMAIN tree /\ at[2] \in DOMAIN tree[at[1]]
    THEN tree[at[1]][at[2]] ELSE NoFile

\* The dub picker on episodes labelled in their own file value. An unmatched
\* dub falls back to the row itself; a matched one is indexed by the row's
\* position AMONG the files of that dub, and past their end it is the first.
LabelledPick(tree, at, dub) ==
    LET same == Folder(Item(tree, at[1]), "d", dub)
    IN  IF At(tree, at) = NoFile THEN NoFile
        ELSE IF dub = 0 \/ same = <<>> THEN At(tree, at)
        ELSE IF at[2] \in DOMAIN same THEN same[at[2]]
        ELSE Head(same)

\* One listed row: the position its wire id names, the file its card is about
\* and the dubs offered for it.
Row(at, file, dubs) == [at |-> at, says |-> file, dubs |-> dubs]

RowsOf(tree, dubs(_)) ==
    UNION {{Row(<<i, j>>, tree[i][j], dubs(tree[i][j])) : j \in DOMAIN tree[i]}
              : i \in DOMAIN tree}

\* A film: one row, whose id carries no position.
FilmRow(files, dubs) == IF files = <<>> THEN {} ELSE {Row(<<>>, Head(files), dubs)}

-----------------------------------------------------------------------------
(* What a call gives back.                                                     *)

Detail(code, rows) == [code |-> code, rows |-> IF code = "ok" THEN rows ELSE {}]

\* A stream request that passed its refusals and found no file says parse_failed.
Media(code, file) ==
    [code |-> IF code = "ok" /\ file = NoFile THEN "parse_failed" ELSE code,
     file |-> IF code = "ok" THEN file ELSE NoFile]
=============================================================================
