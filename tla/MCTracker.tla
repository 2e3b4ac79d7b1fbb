----------------------------- MODULE MCTracker -----------------------------
(***************************************************************************)
(* Two commands of any kinds (up to their order) meet up to three trackers *)
(* - one that may serve already, its replacement, and one more - with an   *)
(* update on disk and a killed tracker.                                    *)
(***************************************************************************)
EXTENDS Tracker

CONSTANTS c1, c2

MCCmds == {c1, c2}
MCTrackers == 1..3

\* The commands are interchangeable: one order of their kinds is enough.
Rank == [start |-> 1, stop |-> 2, commit |-> 3, agent |-> 4]

MCInit == Init /\ Rank[kind[c1]] <= Rank[kind[c2]]

MCSpec == MCInit /\ [][Next]_vars /\ Fairness
=============================================================================
