--------------------------- MODULE MCDriftMonitor ---------------------------
(* Small instances of the drift monitor: two probed providers on a rotation of
   two nights for the probe axis, one lane under playback for the other. *)
EXTENDS DriftMonitor

MCTwo == <<"p1", "p2">>
MCOne == <<"p1">>

Card(n, s) == [ok |-> TRUE, fields_ok |-> TRUE, count |-> n,
               share |-> [m \in Members |-> s]]
Unreachable == [ok |-> FALSE, fields_ok |-> TRUE, count |-> 0,
                share |-> [m \in Members |-> "gone"]]
MCShapes == {Unreachable, Card(3, "major"), Card(2, "gone")}
MCPlain == {Card(1, "major")}
=============================================================================
