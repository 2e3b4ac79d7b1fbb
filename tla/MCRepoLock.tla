----------------------------- MODULE MCRepoLock -----------------------------
(***************************************************************************)
(* Two trackers and one interactive session compete for the lock while the *)
(* state directory comes and goes.  A file is opened only while its opener  *)
(* holds none, so as many files as processes are always enough.            *)
(***************************************************************************)
EXTENDS RepoLock

CONSTANTS p1, p2, p3

MCProcs == {p1, p2, p3}
MCTrackers == {p1, p2}
MCFiles == 1..3
=============================================================================
