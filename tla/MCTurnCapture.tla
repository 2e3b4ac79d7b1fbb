--------------------------- MODULE MCTurnCapture ---------------------------
(* Instances of TurnCapture: a budget of events per run. *)
EXTENDS TurnCapture

CONSTANTS c1, c2

NoEvents == [e \in Events |-> 0]

\* A stop, a start, an exit and a compaction while a commit captures turns mid-flight.
StopBudget ==
    [NoEvents EXCEPT !["prompts"] = 2, !["stops"] = 1, !["exits"] = 1, !["merges"] = 1]

\* Crashes between any two saves and a record that git refuses, with the tracker restarted.
CrashBudget == [NoEvents EXCEPT !["prompts"] = 2, !["crashes"] = 1, !["failures"] = 1]

\* Two conversations, and nothing but turns and commits.
TwoConvBudget == [NoEvents EXCEPT !["prompts"] = 2]

\* Asynchronous sub-agents, with commits only by the poll.
HelperBudget == [NoEvents EXCEPT !["prompts"] = 2, !["helpers"] = 1]

\* One turn, and a record that git refuses.
RefusedBudget == [NoEvents EXCEPT !["prompts"] = 1, !["failures"] = 1]

\* One turn, a stop and the tracker's exit.
FinalTurnBudget == [NoEvents EXCEPT !["prompts"] = 1, !["stops"] = 1, !["exits"] = 1]
=============================================================================
