---------------------------- MODULE MCLatentFold ----------------------------
(* Instances of LatentFold: two sessions, a few turns, a budget of events. *)
EXTENDS LatentFold

CONSTANTS s1, s2

NoEvents == [e \in Events |-> 0]

\* Commits by the user and by the tracker, a summary, work thrown away by a reset or a discard,
\* and the tracker ended by a stop or a crash.
FoldBudget ==
    [NoEvents EXCEPT !["commits"] = 2, !["folds"] = 1, !["drops"] = 1, !["ends"] = 1,
                     !["summaries"] = 1]

\* One user commit beside a tracker that nothing disturbs.
OneCommit == [NoEvents EXCEPT !["commits"] = 1]

\* A tracker stopped while the user writes a commit.
StopBudget == [NoEvents EXCEPT !["commits"] = 2, !["ends"] = 1]

\* Summaries of the turns arrive, on their own thread.
SummaryBudget == [NoEvents EXCEPT !["commits"] = 1, !["summaries"] = 1]
=============================================================================
