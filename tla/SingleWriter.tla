---------------------------- MODULE SingleWriter ----------------------------
(***************************************************************************)
(* What the repository lock promises: at any moment at most one process is *)
(* the writer reachable through `.agitrack/lock`, and the role passes from *)
(* one process to another only through a moment in which nobody has it     *)
(* (a release, a crash, or the deletion of the state directory).           *)
(***************************************************************************)
CONSTANTS Procs, NoProc

VARIABLE owner

Init == owner = NoProc

Take(p) == owner = NoProc /\ owner' = p

Give == owner # NoProc /\ owner' = NoProc

Next == Give \/ \E p \in Procs : Take(p)

Spec == Init /\ [][Next]_owner
=============================================================================
