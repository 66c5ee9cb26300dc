-------------------------------- MODULE Lines ---------------------------------
(* Lines in which everybody stands at most once: the queue of a lock, and the  *)
(* keys of a cache in the order of their use (an OrderedDict that is read with *)
(* move_to_end and cut with popitem).                                          *)
EXTENDS Integers, Sequences, SequencesExt

\* The line without the one who leaves it.
Without(q, x) ==
    LET here == {n \in DOMAIN q : q[n] = x}
    IN  IF here = {} THEN q ELSE RemoveAt(q, CHOOSE n \in here : TRUE)

\* The one used last stands at the end.
LastUsed(q, x) == Append(Without(q, x), x)

\* The n at the end of the line.
Latest(q, n) == IF Len(q) > n THEN SubSeq(q, Len(q) - n + 1, Len(q)) ELSE q
===============================================================================
