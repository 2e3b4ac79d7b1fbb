----------------------------- MODULE MCRouting -----------------------------
(* One conversation, started in app, that may also edit lib.                *)
EXTENDS Routing

CONSTANTS app, lib, talk

MCHomeOf == [c \in {talk} |-> app]

\* app has been routing for long and is tracked at first; whether lib is, or is routing, is open.
MCInit == Init /\ floor[app] # None /\ up[app] = "up"
MCSpec == MCInit /\ [][Next]_vars

\* The home's own stops and ends are met by plain turns only, to keep the run small.
MCApart == up'[app] = "up" \/ twists' = 0
=============================================================================
