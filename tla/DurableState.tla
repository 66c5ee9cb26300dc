---------------------------- MODULE DurableState ----------------------------
(***************************************************************************)
(* What a persisted store promises, whatever it holds: a full-snapshot file *)
(* only ever takes the value the store has at that moment, a restart begins *)
(* from the file, and nothing else changes either.                          *)
(***************************************************************************)
CONSTANTS States,   \* what the store can hold
          Empty     \* what a missing file reads as

VARIABLES live,     \* the store in memory
          saved,    \* the store on disk
          on        \* the process runs

Init == live = Empty /\ saved = Empty /\ on = TRUE

\* A mutation, with or without its write.
Change ==
    /\ on
    /\ live' \in States
    /\ saved' \in {saved, live'}
    /\ UNCHANGED on

\* A deferred write, or the one of a clean shutdown.
Save ==
    /\ on
    /\ saved' = live
    /\ on' \in BOOLEAN
    /\ UNCHANGED live

Stop == on /\ on' = FALSE /\ UNCHANGED <<live, saved>>

Start == ~on /\ on' = TRUE /\ live' = saved /\ UNCHANGED saved

Next == Change \/ Save \/ Stop \/ Start

Spec == Init /\ [][Next]_<<live, saved, on>>
=============================================================================
