----------------------------- MODULE MCPlayWalk -----------------------------
(* PlayWalk for TLC: two providers, one of them behind the torrent engine and *)
(* the other guarded, that carry a group; a facade stream of the group with a *)
(* pinned track beside a PlaybackInfo probe of it, a native play or a          *)
(* subtitle.                                                                  *)
EXTENDS PlayWalk, TLC

CONSTANTS p1, p2, r1, r2

MCOrders == {<<p1, p2>>, <<>>}

Stream == [family |-> "group", route |-> "facade", pinned |-> TRUE, hurried |-> FALSE]

MCPresses == {(r1 :> Stream) @@ (r2 :> other) : other \in {
    [family |-> "group", route |-> "facade", pinned |-> FALSE, hurried |-> TRUE],
    [family |-> "scoped", route |-> "native", pinned |-> TRUE, hurried |-> FALSE],
    [family |-> "scoped", route |-> "subtitle", pinned |-> FALSE, hurried |-> FALSE]}}
=============================================================================
