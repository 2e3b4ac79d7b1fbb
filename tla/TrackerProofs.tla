--------------------------- MODULE TrackerProofs ---------------------------
(***************************************************************************)
(* Proofs about Tracker, for every set of trackers and commands and every  *)
(* number of updates and crashes: the types, who may write, what a commit  *)
(* that was answered may rely on, and what a replaced tracker records.     *)
(***************************************************************************)
EXTENDS Tracker, TLAPS

\* The types, one part for each kind of step that changes them.
SharedOK ==
    /\ lock \in Trackers \cup Cmds \cup {None}
    /\ handshake \in Pids /\ replacing \in Pids
    /\ gap \in BOOLEAN /\ armed \in BOOLEAN /\ folds \in BOOLEAN

FlushOK == request \in Nonces /\ started \in Nonces /\ done \in Nonces

\* A tracker that serves a flush serves a command's.
TrackerOK ==
    /\ pc \in [Trackers -> States]
    /\ stop \in [Trackers -> [event : BOOLEAN, explicit : BOOLEAN, restart : BOOLEAN]]
    /\ child \in [Trackers -> Pids]
    /\ nonce \in [Trackers -> [last : Nonces, now : Nonces]]
    /\ \A t \in Trackers : pc[t] = "flushing" => nonce[t].now \in Cmds

CommandOK ==
    /\ kind \in [Cmds -> Kinds] /\ cpc \in [Cmds -> CmdStates]
    /\ seen \in [Cmds -> Pids \cup Cmds] /\ reply \in [Cmds -> Reports \cup {None}]

HistoryOK ==
    /\ budget \in [updates : 0..MaxUpdates, crashes : 0..MaxCrashes]
    /\ recorded \subseteq Cmds /\ raised \subseteq Cmds
    /\ told \in [Trackers -> SUBSET Fates]
    /\ final \in [Trackers -> {"nothing", "finished", "everything"}]

Parts == SharedOK /\ FlushOK /\ TrackerOK /\ CommandOK /\ HistoryOK

-----------------------------------------------------------------------------
(* The types.                                                              *)

\* The parts are the type invariant, and what a flush in progress adds to it.
LEMMA TypeParts == Parts => TypeOK
  BY DEF TypeOK, Parts, SharedOK, FlushOK, TrackerOK, CommandOK, HistoryOK

\* A command that moves on keeps the types.
LEMMA GoToTypes ==
    ASSUME CommandOK, NEW c \in Cmds, NEW s \in CmdStates, GoTo(c, s), kind' = kind
    PROVE  CommandOK'
  BY DEF GoTo, At, CommandOK

\* A command that ends keeps the types.
LEMMA FinishTypes ==
    ASSUME CommandOK, NEW c \in Cmds, NEW r \in Reports, Finish(c, r), kind' = kind
    PROVE  CommandOK'
  BY DEF Finish, At, CommandOK, CmdStates, Pids

\* The history of what trackers were told stays one.
LEMMA ToldTypes ==
    ASSUME Parts, NEW t, NEW why \in SUBSET Fates
    PROVE  /\ Unmarked \in [Trackers -> SUBSET Fates]
           /\ [Unmarked EXCEPT ![t] = @ \cup why] \in [Trackers -> SUBSET Fates]
<1>1. "unmarked" \in Fates
  BY DEF Fates
<1>2. \A u \in Trackers : told[u] \in SUBSET Fates
  BY DEF Parts, HistoryOK
<1>3. Unmarked \in [Trackers -> SUBSET Fates]
  BY <1>1, <1>2 DEF Unmarked
<1> QED BY <1>3

\* A signal keeps the types, whichever step `at` the sender takes along with it.
LEMMA SignalTypes ==
    ASSUME Parts, NEW t \in Trackers, NEW why \in Fates, NEW at \in [Trackers -> States],
           \A u \in Trackers : at[u] = "flushing" => pc[u] = "flushing",
           Signal(t, why, at)
    PROVE  /\ lock' \in Trackers \cup Cmds \cup {None}
           /\ TrackerOK'
           /\ told' \in [Trackers -> SUBSET Fates]
           /\ recorded' = recorded /\ raised' = raised /\ final' = final
<1>1. told' \in [Trackers -> SUBSET Fates]
  <2>1. "heard" \in Fates
    BY DEF Fates
  <2>2. told' = [Unmarked EXCEPT ![t] = @ \cup ({why} \cup (IF pc[t] \in Looping THEN {"heard"} ELSE {}))]
    <3>1. Unmarked \in [Trackers -> SUBSET Fates]
      BY ToldTypes
    <3> QED BY <3>1 DEF Signal
  <2> QED BY <2>1, <2>2, ToldTypes
<1>2. TrackerOK'
  <2>1. child' = child /\ nonce' = nonce
    BY DEF Signal
  <2>2. CASE pc[t] \in Deaf
    <3>1. pc' = [at EXCEPT ![t] = "dead"] /\ stop' = stop
      BY <2>2 DEF Signal
    <3>2. "dead" \in States
      BY DEF States
    <3> QED BY <2>1, <3>1, <3>2 DEF Parts, TrackerOK
  <2>3. CASE pc[t] \notin Deaf
    <3>1. pc' = at /\ stop' = [stop EXCEPT ![t].event = TRUE, ![t].explicit = TRUE]
      BY <2>3 DEF Signal
    <3>2. stop' \in [Trackers -> [event : BOOLEAN, explicit : BOOLEAN, restart : BOOLEAN]]
      BY <3>1 DEF Parts, TrackerOK
    <3> QED BY <2>1, <3>1, <3>2 DEF Parts, TrackerOK
  <2> QED BY <2>2, <2>3
<1> QED BY <1>1, <1>2 DEF Signal, Parts, SharedOK

\* Every step keeps the types.
LEMMA TypeStep == Parts /\ [Next]_vars => Parts'
<1> SUFFICES ASSUME Parts, [Next]_vars PROVE Parts'
  OBVIOUS
<1> USE PidsAssumption DEF Parts, files, flush, tracker, command, history
<1>1. ASSUME NEW t \in Trackers, Boot(t) PROVE Parts'
  <2>1. FlushOK' /\ CommandOK' /\ HistoryOK'
    BY <1>1 DEF Boot, FlushOK, CommandOK, HistoryOK
  <2>2. SharedOK'
    BY <1>1 DEF Boot, SharedOK, FlushOK, TrackerOK, HistoryOK, Pids
  <2>3. TrackerOK'
    BY <1>1 DEF Boot, SharedOK, FlushOK, TrackerOK, HistoryOK, Pids, Nonces, States, Writers,
       Looping
  <2> QED BY <2>1, <2>2, <2>3
<1>2. ASSUME NEW t \in Trackers, BootRefused(t) PROVE Parts'
  <2>1. SharedOK' /\ FlushOK' /\ CommandOK' /\ HistoryOK'
    BY <1>2 DEF BootRefused, SharedOK, FlushOK, CommandOK, HistoryOK
  <2>2. TrackerOK'
    BY <1>2 DEF BootRefused, SharedOK, FlushOK, TrackerOK, HistoryOK, Pids, Nonces, States,
       Writers, Looping
  <2> QED BY <2>1, <2>2
<1>3. ASSUME NEW t \in Trackers, Arm(t) PROVE Parts'
  <2>1. FlushOK' /\ CommandOK' /\ HistoryOK'
    BY <1>3 DEF Arm, FlushOK, CommandOK, HistoryOK
  <2>2. SharedOK'
    BY <1>3 DEF Arm, AlreadyAnswered, Nonces, SharedOK, FlushOK, TrackerOK, HistoryOK, Pids
  <2>3. TrackerOK'
    BY <1>3 DEF Arm, AlreadyAnswered, Nonces, SharedOK, FlushOK, TrackerOK, HistoryOK, Pids,
       States, Writers, Looping
  <2> QED BY <2>1, <2>2, <2>3
<1>4. ASSUME NEW t \in Trackers, InstallSignalHandlers(t) PROVE Parts'
  <2>1. SharedOK' /\ FlushOK' /\ CommandOK' /\ HistoryOK'
    BY <1>4 DEF InstallSignalHandlers, SharedOK, FlushOK, CommandOK, HistoryOK
  <2>2. TrackerOK'
    BY <1>4 DEF InstallSignalHandlers, SharedOK, FlushOK, TrackerOK, HistoryOK, Pids, Nonces,
       States, Writers, Looping
  <2> QED BY <2>1, <2>2
<1>5. ASSUME NEW t \in Trackers, BeginFlush(t) PROVE Parts'
  <2>1. SharedOK' /\ CommandOK' /\ HistoryOK'
    BY <1>5 DEF BeginFlush, SharedOK, CommandOK, HistoryOK
  <2>2. FlushOK'
    BY <1>5 DEF BeginFlush, SharedOK, FlushOK, TrackerOK, HistoryOK, Nonces
  <2>3. TrackerOK'
    BY <1>5 DEF BeginFlush, SharedOK, FlushOK, TrackerOK, HistoryOK, Pids, Nonces, States,
       Writers, Looping
  <2> QED BY <2>1, <2>2, <2>3
<1>6. ASSUME NEW t \in Trackers, EndFlush(t) PROVE Parts'
  <2>1. SharedOK' /\ CommandOK'
    BY <1>6 DEF EndFlush, SharedOK, CommandOK
  <2>2. FlushOK'
    BY <1>6 DEF EndFlush, SharedOK, FlushOK, TrackerOK, HistoryOK, Nonces
  <2>3. TrackerOK'
    BY <1>6 DEF EndFlush, SharedOK, FlushOK, TrackerOK, HistoryOK, Pids, Nonces, States, Writers,
       Looping
  <2>4. HistoryOK'
    BY <1>6 DEF EndFlush, FlushOutcome, TrackerOK, HistoryOK
  <2> QED BY <2>1, <2>2, <2>3, <2>4
<1>7. ASSUME NEW t \in Trackers, UpdateSeen(t) PROVE Parts'
  <2>1. SharedOK' /\ FlushOK' /\ CommandOK'
    BY <1>7 DEF UpdateSeen, SharedOK, FlushOK, CommandOK
  <2>2. TrackerOK'
    BY <1>7 DEF UpdateSeen, SharedOK, FlushOK, TrackerOK, HistoryOK, Pids, Nonces, States,
       Writers, Looping
  <2>3. HistoryOK'
    BY <1>7 DEF UpdateSeen, SharedOK, FlushOK, TrackerOK, HistoryOK, Fates
  <2> QED BY <2>1, <2>2, <2>3
<1>8. ASSUME NEW t \in Trackers, LeaveLoop(t) PROVE Parts'
  <2>1. SharedOK' /\ FlushOK' /\ CommandOK' /\ HistoryOK'
    BY <1>8 DEF LeaveLoop, SharedOK, FlushOK, CommandOK, HistoryOK
  <2>2. TrackerOK'
    BY <1>8 DEF LeaveLoop, SharedOK, FlushOK, TrackerOK, HistoryOK, Pids, Nonces, States,
       Writers, Looping
  <2> QED BY <2>1, <2>2
<1>9. ASSUME NEW t \in Trackers, FinalRecord(t) PROVE Parts'
  <2>1. SharedOK' /\ FlushOK' /\ CommandOK'
    BY <1>9 DEF FinalRecord, SharedOK, FlushOK, CommandOK
  <2>2. TrackerOK'
    BY <1>9 DEF FinalRecord, SharedOK, FlushOK, TrackerOK, HistoryOK, Pids, Nonces, States,
       Writers, Looping
  <2>3. HistoryOK'
    BY <1>9 DEF FinalRecord, SharedOK, FlushOK, TrackerOK, HistoryOK, Fates
  <2> QED BY <2>1, <2>2, <2>3
<1>10. ASSUME NEW t \in Trackers, Close(t) PROVE Parts'
  <2>1. FlushOK' /\ CommandOK' /\ HistoryOK'
    BY <1>10 DEF Close, RemoveTraces, FlushOK, CommandOK, HistoryOK
  <2>2. SharedOK'
    BY <1>10 DEF Close, RemoveTraces, SharedOK, FlushOK, TrackerOK, HistoryOK, Pids
  <2>3. TrackerOK'
    BY <1>10 DEF Close, RemoveTraces, SharedOK, FlushOK, TrackerOK, HistoryOK, Pids, Nonces,
       States, Writers, Looping
  <2> QED BY <2>1, <2>2, <2>3
<1>11. ASSUME NEW t \in Trackers, HandOver(t) PROVE Parts'
  <2>1. FlushOK' /\ CommandOK' /\ HistoryOK'
    BY <1>11 DEF HandOver, RemoveTraces, FlushOK, CommandOK, HistoryOK
  <2>2. SharedOK'
    BY <1>11 DEF HandOver, RemoveTraces, IsNewPid, Unborn, SharedOK, FlushOK, TrackerOK,
       HistoryOK, Pids
  <2>3. TrackerOK'
    BY <1>11 DEF HandOver, RemoveTraces, IsNewPid, Unborn, SharedOK, FlushOK, TrackerOK,
       HistoryOK, Pids, Nonces, States, Writers, Looping
  <2> QED BY <2>1, <2>2, <2>3
<1>12. ASSUME NEW t \in Trackers, ReplacementCameUp(t) PROVE Parts'
  <2>1. SharedOK' /\ FlushOK' /\ CommandOK' /\ HistoryOK'
    BY <1>12 DEF ReplacementCameUp, SharedOK, FlushOK, CommandOK, HistoryOK
  <2>2. TrackerOK'
    BY <1>12 DEF ReplacementCameUp, SharedOK, FlushOK, TrackerOK, HistoryOK, Pids, Nonces,
       States, Writers, Looping
  <2> QED BY <2>1, <2>2
<1>13. ASSUME NEW t \in Trackers, ReplacementFailed(t) PROVE Parts'
  <2>1. SharedOK' /\ FlushOK' /\ CommandOK' /\ HistoryOK'
    BY <1>13 DEF ReplacementFailed, SharedOK, FlushOK, CommandOK, HistoryOK
  <2>2. TrackerOK'
    BY <1>13 DEF ReplacementFailed, SharedOK, FlushOK, TrackerOK, HistoryOK, Pids, Nonces,
       States, Writers, Looping
  <2> QED BY <2>1, <2>2
<1>14. ASSUME NEW t \in Trackers, AbandonReplacement(t) PROVE Parts'
  <2>1. FlushOK' /\ CommandOK'
    BY <1>14 DEF AbandonReplacement, FlushOK, CommandOK
  <2> DEFINE next == [pc EXCEPT ![t] = "reclaim"]
  <2>2. next \in [Trackers -> States] /\ \A u \in Trackers : next[u] = "flushing" => pc[u] = "flushing"
    BY <1>14 DEF TrackerOK, States
  <2>3. CASE Alive(child[t])
    <3>1. child[t] \in Trackers /\ "abandoned" \in Fates
      BY <2>3 DEF Alive, Fates
    <3>2. Signal(child[t], "abandoned", next) /\ UNCHANGED <<files, budget>>
      BY <1>14, <2>3 DEF AbandonReplacement
    <3> HIDE DEF next
    <3>3. lock' \in Trackers \cup Cmds \cup {None} /\ TrackerOK' /\ told' \in [Trackers -> SUBSET Fates]
          /\ recorded' = recorded /\ raised' = raised /\ final' = final
      BY <2>2, <3>1, <3>2, SignalTypes
    <3> QED BY <2>1, <3>2, <3>3 DEF SharedOK, HistoryOK
  <2>4. CASE ~Alive(child[t])
    <3>1. pc' = next /\ UNCHANGED <<lock, stop, child, nonce, history, files, budget>>
      BY <1>14, <2>4 DEF AbandonReplacement
    <3> QED BY <2>1, <2>2, <3>1 DEF SharedOK, TrackerOK, HistoryOK
  <2> QED BY <2>3, <2>4
<1>15. ASSUME NEW t \in Trackers, Reclaim(t) PROVE Parts'
  <2>1. FlushOK' /\ CommandOK'
    BY <1>15 DEF Reclaim, Resume, FlushOK, CommandOK
  <2>2. SharedOK'
    BY <1>15 DEF Reclaim, Resume, SharedOK, Pids
  <2>3. stop' \in [Trackers -> [event : BOOLEAN, explicit : BOOLEAN, restart : BOOLEAN]]
    BY <1>15 DEF Reclaim, Resume, TrackerOK
  <2>4. child' \in [Trackers -> Pids]
    BY <1>15 DEF Reclaim, Resume, TrackerOK, Pids
  <2>5. pc' = [pc EXCEPT ![t] = "serving"] /\ nonce' = nonce
    BY <1>15 DEF Reclaim, Resume
  <2>6. TrackerOK'
    BY <2>3, <2>4, <2>5 DEF TrackerOK, States, Looping, Writers
  <2>7. HistoryOK'
    BY <1>15 DEF Reclaim, Resume, HistoryOK, Fates
  <2> QED BY <2>1, <2>2, <2>6, <2>7
<1>16. ASSUME NEW t \in Trackers, ReclaimRefused(t) PROVE Parts'
  <2>1. SharedOK' /\ FlushOK' /\ CommandOK' /\ HistoryOK'
    BY <1>16 DEF ReclaimRefused, SharedOK, FlushOK, CommandOK, HistoryOK
  <2>2. TrackerOK'
    BY <1>16 DEF ReclaimRefused, SharedOK, FlushOK, TrackerOK, HistoryOK, Pids, Nonces, States,
       Writers, Looping
  <2> QED BY <2>1, <2>2
<1>17. ASSUME NEW t \in Trackers, Crash(t) PROVE Parts'
  <2>1. FlushOK' /\ CommandOK'
    BY <1>17 DEF Crash, FlushOK, CommandOK
  <2>2. SharedOK'
    BY <1>17 DEF Crash, Alive, SharedOK, FlushOK, TrackerOK, HistoryOK, Pids
  <2>3. TrackerOK'
    BY <1>17 DEF Crash, Alive, SharedOK, FlushOK, TrackerOK, HistoryOK, Pids, Nonces, States,
       Writers, Looping
  <2>4. HistoryOK'
    BY <1>17 DEF Crash, Alive, SharedOK, FlushOK, TrackerOK, HistoryOK, Fates
  <2> QED BY <2>1, <2>2, <2>3, <2>4
<1>18. ASSUME NEW c \in Cmds, Look(c) PROVE Parts'
  <2>1. SharedOK' /\ FlushOK' /\ TrackerOK' /\ HistoryOK'
    BY <1>18 DEF Look, SharedOK, FlushOK, TrackerOK, HistoryOK
  <2>2. CommandOK'
    BY <1>18 DEF Look, At, Found, Sight, SharedOK, FlushOK, TrackerOK, CommandOK, HistoryOK,
       Pids, CmdStates
  <2> QED BY <2>1, <2>2
<1>19. ASSUME NEW c \in Cmds, StartBegin(c) PROVE Parts'
  <2>1. FlushOK' /\ TrackerOK' /\ HistoryOK'
    BY <1>19 DEF StartBegin, FlushOK, TrackerOK, HistoryOK
  <2>2. SharedOK'
    BY <1>19 DEF StartBegin, GoTo, At, SharedOK, FlushOK, TrackerOK, HistoryOK, Pids
  <2>3. CommandOK'
    BY <1>19 DEF StartBegin, GoTo, At, SharedOK, FlushOK, TrackerOK, CommandOK, HistoryOK, Pids,
       CmdStates
  <2> QED BY <2>1, <2>2, <2>3
<1>20. ASSUME NEW c \in Cmds, FaceOwner(c) PROVE Parts'
  <2>1. FlushOK' /\ kind' = kind /\ budget' = budget
    BY <1>20 DEF FaceOwner, FlushOK
  <2>2. CASE Live(c) /\ Finish(c, "left") /\ UNCHANGED <<lock, files, tracker, history>>
    <3>1. CommandOK'
      BY <2>1, <2>2, FinishTypes DEF Reports
    <3> QED BY <2>1, <2>2, <3>1 DEF SharedOK, TrackerOK, HistoryOK
  <2>3. CASE Live(c) /\ Replace(c, "evicting")
    <3>1. seen[c] \in Trackers /\ "replaced" \in Fates
      BY <2>3 DEF Live, Alive, Fates
    <3>2. Signal(seen[c], "replaced", pc)
      BY <2>3 DEF Replace
    <3>3. lock' \in Trackers \cup Cmds \cup {None} /\ TrackerOK' /\ told' \in [Trackers -> SUBSET Fates]
          /\ recorded' = recorded /\ raised' = raised /\ final' = final
      BY <3>1, <3>2, SignalTypes DEF TrackerOK
    <3>4. CommandOK'
      BY <2>1, <2>3, GoToTypes DEF Replace, CmdStates
    <3>5. SharedOK'
      BY <2>3, <3>1, <3>3 DEF Replace, SharedOK, Pids
    <3> QED BY <2>1, <3>3, <3>4, <3>5 DEF HistoryOK
  <2>4. CASE /\ ~Live(c) /\ handshake' = Swept(c) /\ Finish(c, "refused")
             /\ UNCHANGED <<lock, replacing, gap, armed, folds, tracker, history>>
    <3>1. CommandOK'
      BY <2>1, <2>4, FinishTypes, GoToTypes DEF Reports, CmdStates
    <3> QED BY <2>1, <2>4, <3>1 DEF SharedOK, TrackerOK, HistoryOK, Swept, Pids
  <2> QED BY <1>20, <2>2, <2>3, <2>4 DEF FaceOwner
<1>21. ASSUME NEW c \in Cmds, Relock(c) PROVE Parts'
  <2>1. FlushOK' /\ TrackerOK' /\ HistoryOK'
    BY <1>21 DEF Relock, FlushOK, TrackerOK, HistoryOK
  <2>2. SharedOK'
    BY <1>21 DEF Relock, SharedOK, FlushOK, TrackerOK, HistoryOK, Pids
  <2>3. CommandOK'
    BY <1>21, GoToTypes, FinishTypes DEF Relock, CmdStates, Reports
  <2> QED BY <2>1, <2>2, <2>3
<1>22. ASSUME NEW c \in Cmds, Launch(c) PROVE Parts'
  <2>1. FlushOK' /\ TrackerOK' /\ HistoryOK'
    BY <1>22 DEF Launch, FlushOK, TrackerOK, HistoryOK
  <2>2. SharedOK'
    BY <1>22 DEF Launch, SharedOK, FlushOK, TrackerOK, HistoryOK, Pids
  <2>3. CommandOK'
    BY <1>22, GoToTypes DEF Launch, CmdStates
  <2> QED BY <2>1, <2>2, <2>3
<1>23. ASSUME NEW c \in Cmds, EndStop(c) PROVE Parts'
  <2>1. FlushOK' /\ TrackerOK' /\ HistoryOK'
    BY <1>23 DEF EndStop, FlushOK, TrackerOK, HistoryOK
  <2>2. SharedOK'
    BY <1>23 DEF EndStop, SharedOK, FlushOK, TrackerOK, HistoryOK, Pids
  <2>3. CommandOK'
    BY <1>23, GoToTypes DEF EndStop, CmdStates
  <2> QED BY <2>1, <2>2, <2>3
<1>24. ASSUME NEW c \in Cmds, Decide(c) PROVE Parts'
  <2>1. FlushOK' /\ kind' = kind /\ budget' = budget
    BY <1>24 DEF Decide, FlushOK
  <2>2. CASE Live(c) /\ Finish(c, "left") /\ UNCHANGED <<lock, files, tracker, history>>
    <3>1. CommandOK'
      BY <2>1, <2>2, FinishTypes DEF Reports
    <3> QED BY <2>1, <2>2, <3>1 DEF SharedOK, TrackerOK, HistoryOK
  <2>3. CASE Live(c) /\ Replace(c, "swapping")
    <3>1. seen[c] \in Trackers /\ "replaced" \in Fates
      BY <2>3 DEF Live, Alive, Fates
    <3>2. Signal(seen[c], "replaced", pc)
      BY <2>3 DEF Replace
    <3>3. lock' \in Trackers \cup Cmds \cup {None} /\ TrackerOK' /\ told' \in [Trackers -> SUBSET Fates]
          /\ recorded' = recorded /\ raised' = raised /\ final' = final
      BY <3>1, <3>2, SignalTypes DEF TrackerOK
    <3>4. CommandOK'
      BY <2>1, <2>3, GoToTypes DEF Replace, CmdStates
    <3>5. SharedOK'
      BY <2>3, <3>1, <3>3 DEF Replace, SharedOK, Pids
    <3> QED BY <2>1, <3>3, <3>4, <3>5 DEF HistoryOK
  <2>4. CASE /\ ~Live(c) /\ handshake' = Swept(c) /\ GoTo(c, "spawning")
             /\ UNCHANGED <<lock, replacing, gap, armed, folds, tracker, history>>
    <3>1. CommandOK'
      BY <2>1, <2>4, FinishTypes, GoToTypes DEF Reports, CmdStates
    <3> QED BY <2>1, <2>4, <3>1 DEF SharedOK, TrackerOK, HistoryOK, Swept, Pids
  <2> QED BY <1>24, <2>2, <2>3, <2>4 DEF Decide
<1>25. ASSUME NEW c \in Cmds, Terminated(c) PROVE Parts'
  <2>1. FlushOK' /\ TrackerOK'
    BY <1>25 DEF Terminated, FlushOK, TrackerOK
  <2>2. SharedOK'
    BY <1>25 DEF Terminated, Unmarked, SharedOK, FlushOK, TrackerOK, HistoryOK, Pids
  <2>3. CommandOK'
    BY <1>25, GoToTypes DEF Terminated, CmdStates
  <2>4. HistoryOK'
    BY <1>25 DEF Terminated, Unmarked, SharedOK, FlushOK, TrackerOK, HistoryOK, Fates
  <2> QED BY <2>1, <2>2, <2>3, <2>4
<1>26. ASSUME NEW c \in Cmds, OutlivedWait(c) PROVE Parts'
  <2>1. FlushOK' /\ TrackerOK'
    BY <1>26 DEF OutlivedWait, FlushOK, TrackerOK
  <2>2. SharedOK'
    BY <1>26 DEF OutlivedWait, Unmarked, Live, Alive, SharedOK, FlushOK, TrackerOK, CommandOK,
       HistoryOK, Pids
  <2>3. CommandOK'
    BY <1>26, GoToTypes, FinishTypes DEF OutlivedWait, CmdStates, Reports
  <2>4. HistoryOK'
    BY <1>26 DEF OutlivedWait, Unmarked, Live, Alive, SharedOK, FlushOK, TrackerOK, CommandOK,
       HistoryOK, Fates
  <2> QED BY <2>1, <2>2, <2>3, <2>4
<1>27. ASSUME NEW c \in Cmds, SpawnTracker(c) PROVE Parts'
  <2>1. SharedOK' /\ FlushOK' /\ HistoryOK'
    BY <1>27 DEF SpawnTracker, SharedOK, FlushOK, HistoryOK
  <2>2. TrackerOK'
    BY <1>27 DEF SpawnTracker, At, IsNewPid, Unborn, SharedOK, FlushOK, TrackerOK, HistoryOK,
       Pids, Nonces, States, Writers, Looping
  <2>3. CommandOK'
    BY <1>27 DEF SpawnTracker, At, IsNewPid, Unborn, SharedOK, FlushOK, TrackerOK, CommandOK,
       HistoryOK, Pids, CmdStates
  <2> QED BY <2>1, <2>2, <2>3
<1>28. ASSUME NEW c \in Cmds, Waited(c) PROVE Parts'
  <2>1. SharedOK' /\ FlushOK' /\ TrackerOK' /\ HistoryOK'
    BY <1>28 DEF Waited, SharedOK, FlushOK, TrackerOK, HistoryOK
  <2>2. CommandOK'
    BY <1>28, FinishTypes DEF Waited, Reports
  <2> QED BY <2>1, <2>2
<1>29. ASSUME NEW c \in Cmds, StopBegin(c) PROVE Parts'
  <2>1. FlushOK' /\ TrackerOK' /\ HistoryOK'
    BY <1>29 DEF StopBegin, FlushOK, TrackerOK, HistoryOK
  <2>2. SharedOK'
    BY <1>29 DEF StopBegin, SharedOK, FlushOK, TrackerOK, HistoryOK, Pids
  <2>3. CommandOK'
    BY <1>29, GoToTypes DEF StopBegin, CmdStates
  <2> QED BY <2>1, <2>2, <2>3
<1>30. ASSUME NEW c \in Cmds, StopTracker(c) PROVE Parts'
  <2>1. FlushOK' /\ kind' = kind /\ UNCHANGED <<budget, replacing, armed, folds>> /\ gap' = TRUE
    BY <1>30 DEF StopTracker, FlushOK
  <2>2. CASE Live(c) /\ Signal(seen[c], "stopped", pc) /\ GoTo(c, "ending") /\ handshake' = handshake
    <3>1. seen[c] \in Trackers /\ "stopped" \in Fates
      BY <2>2 DEF Live, Alive, Fates
    <3>2. lock' \in Trackers \cup Cmds \cup {None} /\ TrackerOK' /\ told' \in [Trackers -> SUBSET Fates]
          /\ recorded' = recorded /\ raised' = raised /\ final' = final
      BY <2>2, <3>1, SignalTypes DEF TrackerOK
    <3>3. CommandOK'
      BY <2>1, <2>2, GoToTypes DEF CmdStates
    <3> QED BY <2>1, <2>2, <3>2, <3>3 DEF SharedOK, HistoryOK
  <2>3. CASE /\ ~Live(c) /\ handshake' = Swept(c) /\ GoTo(c, "disarming")
             /\ UNCHANGED <<lock, tracker, history>>
    <3>1. CommandOK'
      BY <2>1, <2>3, GoToTypes DEF CmdStates
    <3> QED BY <2>1, <2>3, <3>1 DEF SharedOK, TrackerOK, HistoryOK, Swept, Pids
  <2> QED BY <1>30, <2>2, <2>3 DEF StopTracker
<1>31. ASSUME NEW c \in Cmds, Disarm(c) PROVE Parts'
  <2>1. FlushOK' /\ TrackerOK' /\ HistoryOK'
    BY <1>31 DEF Disarm, FlushOK, TrackerOK, HistoryOK
  <2>2. SharedOK'
    BY <1>31 DEF Disarm, SharedOK, FlushOK, TrackerOK, HistoryOK, Pids
  <2>3. CommandOK'
    BY <1>31, FinishTypes DEF Disarm, Reports
  <2> QED BY <2>1, <2>2, <2>3
<1>32. ASSUME NEW c \in Cmds, CommitBegin(c) PROVE Parts'
  <2>1. FlushOK' /\ TrackerOK' /\ HistoryOK'
    BY <1>32 DEF CommitBegin, FlushOK, TrackerOK, HistoryOK
  <2>2. SharedOK'
    BY <1>32 DEF CommitBegin, SharedOK, FlushOK, TrackerOK, HistoryOK, Pids
  <2>3. CommandOK'
    BY <1>32, GoToTypes DEF CommitBegin, CmdStates
  <2> QED BY <2>1, <2>2, <2>3
<1>33. ASSUME NEW c \in Cmds, CommitRecord(c) PROVE Parts'
  <2>1. FlushOK' /\ TrackerOK' /\ HistoryOK'
    BY <1>33 DEF CommitRecord, FlushOK, TrackerOK, HistoryOK
  <2>2. SharedOK'
    BY <1>33 DEF CommitRecord, SharedOK, FlushOK, TrackerOK, HistoryOK, Pids
  <2>3. CommandOK'
    BY <1>33, GoToTypes DEF CommitRecord, CmdStates
  <2> QED BY <2>1, <2>2, <2>3
<1>34. ASSUME NEW c \in Cmds, CheckStop(c) PROVE Parts'
  <2>1. SharedOK' /\ FlushOK' /\ TrackerOK' /\ HistoryOK'
    BY <1>34 DEF CheckStop, SharedOK, FlushOK, TrackerOK, HistoryOK
  <2>2. CommandOK'
    BY <1>34, GoToTypes, FinishTypes DEF CheckStop, CmdStates, Reports
  <2> QED BY <2>1, <2>2
<1>35. ASSUME NEW c \in Cmds, LookForTracker(c) PROVE Parts'
  <2>1. FlushOK' /\ TrackerOK' /\ HistoryOK'
    BY <1>35 DEF LookForTracker, FlushOK, TrackerOK, HistoryOK
  <2>2. SharedOK'
    BY <1>35 DEF LookForTracker, Swept, SharedOK, FlushOK, TrackerOK, CommandOK, HistoryOK, Pids
  <2>3. CommandOK'
    BY <1>35, GoToTypes, FinishTypes DEF LookForTracker, CmdStates, Reports
  <2> QED BY <2>1, <2>2, <2>3
<1>36. ASSUME NEW c \in Cmds, Probe(c) PROVE Parts'
  <2>1. FlushOK' /\ TrackerOK' /\ HistoryOK'
    BY <1>36 DEF Probe, FlushOK, TrackerOK, HistoryOK
  <2>2. SharedOK'
    BY <1>36 DEF Probe, SharedOK, FlushOK, TrackerOK, HistoryOK, Pids
  <2>3. CommandOK'
    BY <1>36, GoToTypes, FinishTypes DEF Probe, CmdStates, Reports
  <2> QED BY <2>1, <2>2, <2>3
<1>37. ASSUME NEW c \in Cmds, Probed(c) PROVE Parts'
  <2>1. FlushOK' /\ TrackerOK' /\ HistoryOK'
    BY <1>37 DEF Probed, FlushOK, TrackerOK, HistoryOK
  <2>2. SharedOK'
    BY <1>37 DEF Probed, SharedOK, FlushOK, TrackerOK, HistoryOK, Pids
  <2>3. CommandOK'
    BY <1>37, GoToTypes DEF Probed, CmdStates
  <2> QED BY <2>1, <2>2, <2>3
<1>38. ASSUME NEW c \in Cmds, AskForFlush(c) PROVE Parts'
  <2>1. TrackerOK' /\ HistoryOK'
    BY <1>38 DEF AskForFlush, TrackerOK, HistoryOK
  <2>2. SharedOK'
    BY <1>38 DEF AskForFlush, Swept, SharedOK, FlushOK, TrackerOK, CommandOK, HistoryOK, Pids
  <2>3. FlushOK'
    BY <1>38 DEF AskForFlush, Swept, SharedOK, FlushOK, TrackerOK, CommandOK, HistoryOK, Nonces
  <2>4. CommandOK'
    BY <1>38, GoToTypes, FinishTypes DEF AskForFlush, CmdStates, Reports
  <2> QED BY <2>1, <2>2, <2>3, <2>4
<1>39. ASSUME NEW c \in Cmds, Answered(c) PROVE Parts'
  <2>1. SharedOK' /\ FlushOK' /\ TrackerOK' /\ HistoryOK'
    BY <1>39 DEF Answered, SharedOK, FlushOK, TrackerOK, HistoryOK
  <2>2. CommandOK'
    BY <1>39, FinishTypes DEF Answered, Reports
  <2> QED BY <2>1, <2>2
<1>40. ASSUME NEW c \in Cmds, GaveUp(c) PROVE Parts'
  <2>1. SharedOK' /\ FlushOK' /\ TrackerOK' /\ HistoryOK'
    BY <1>40 DEF GaveUp, SharedOK, FlushOK, TrackerOK, HistoryOK
  <2>2. CommandOK'
    BY <1>40, FinishTypes DEF GaveUp, Reports
  <2> QED BY <2>1, <2>2
<1>41. CASE UNCHANGED vars
  BY <1>41 DEF vars, SharedOK, FlushOK, TrackerOK, CommandOK, HistoryOK
<1> QED
  BY
    <1>1, <1>2, <1>3, <1>4, <1>5, <1>6, <1>7, <1>8, <1>9, <1>10, <1>11, <1>12,
    <1>13, <1>14, <1>15, <1>16, <1>17, <1>18, <1>19, <1>20, <1>21, <1>22, <1>23, <1>24,
    <1>25, <1>26, <1>27, <1>28, <1>29, <1>30, <1>31, <1>32, <1>33, <1>34, <1>35, <1>36,
    <1>37, <1>38, <1>39, <1>40, <1>41
    DEF Next, TrackerStep, CommandStep

\* The initial states have the types.
LEMMA TypeInit == Init => Parts
<1> SUFFICES ASSUME Init PROVE Parts
  OBVIOUS
<1> USE PidsAssumption DEF Init
<1>1. SharedOK /\ FlushOK
  BY DEF SharedOK, FlushOK, Pids, Nonces
<1>2. TrackerOK
  BY DEF TrackerOK, NoStop, States, Writers, Looping, Pids, Nonces
<1>3. CommandOK /\ HistoryOK
  BY DEF CommandOK, HistoryOK, CmdStates, Pids
<1> QED BY <1>1, <1>2, <1>3 DEF Parts

\* The parts hold in every reachable state.
LEMMA Typed == Spec => []Parts
  BY TypeInit, TypeStep, PTL DEF Spec

\* Every variable keeps its type, for all trackers, commands and bounds.
THEOREM TypeCorrect == Spec => []TypeOK
  BY Typed, TypeParts, PTL

-----------------------------------------------------------------------------
(* The single writer.                                                      *)

\* A tracker that is killed before its signal handlers are installed gives the lock
\* back; one that is told to stop keeps it.
LEMMA SignalKeepsWriter ==
    ASSUME Parts, WriterHoldsLock, NEW t \in Trackers, NEW why, NEW at \in [Trackers -> States],
           \A u \in Trackers : at[u] \in Writers => at[u] = pc[u],
           Signal(t, why, at),
           NEW c, \A d \in Cmds : d # c => cpc'[d] = cpc[d],
           c \in Cmds => cpc'[c] \notin {"launching", "recording", "probed"}
    PROVE  WriterHoldsLock'
<1> USE PidsAssumption DEF Parts, SharedOK, TrackerOK, CommandOK, WriterHoldsLock
<1>1. CASE pc[t] \in Deaf
  <2>1. pc' = [at EXCEPT ![t] = "dead"] /\ lock' = IF lock = t THEN None ELSE lock
    BY <1>1 DEF Signal
  <2>2. ASSUME NEW u \in Trackers, pc'[u] \in Writers PROVE lock' = u
    <3>1. u # t /\ pc[u] \in Writers
      BY <2>1, <2>2 DEF Writers, Looping
    <3> QED BY <2>1, <3>1
  <2>3. ASSUME NEW d \in Cmds, cpc'[d] \in {"launching", "recording", "probed"} PROVE lock' = d
    <3>1. lock = d /\ d # t
      BY <2>3
    <3> QED BY <2>1, <3>1
  <2> QED BY <2>2, <2>3
<1>2. CASE pc[t] \notin Deaf
  BY <1>2 DEF Signal
<1> QED BY <1>1, <1>2

\* Every step leaves the lock with its writer: a writer holds it until it stops writing,
\* and nobody takes it from anybody.
LEMMA WriterStep == Parts /\ WriterHoldsLock /\ [Next]_vars => WriterHoldsLock'
<1> SUFFICES ASSUME Parts, WriterHoldsLock, [Next]_vars PROVE WriterHoldsLock'
  OBVIOUS
<1> USE PidsAssumption DEF Parts, SharedOK, TrackerOK, CommandOK, tracker, command
<1>1. ASSUME NEW t \in Trackers, Boot(t) PROVE WriterHoldsLock'
  BY <1>1 DEF Boot, WriterHoldsLock, Writers, Looping
<1>2. ASSUME NEW t \in Trackers, BootRefused(t) PROVE WriterHoldsLock'
  BY <1>2 DEF BootRefused, WriterHoldsLock, Writers, Looping
<1>3. ASSUME NEW t \in Trackers, Arm(t) PROVE WriterHoldsLock'
  BY <1>3 DEF Arm, WriterHoldsLock, Writers, Looping
<1>4. ASSUME NEW t \in Trackers, InstallSignalHandlers(t) PROVE WriterHoldsLock'
  BY <1>4 DEF InstallSignalHandlers, WriterHoldsLock, Writers, Looping
<1>5. ASSUME NEW t \in Trackers, BeginFlush(t) PROVE WriterHoldsLock'
  BY <1>5 DEF BeginFlush, WriterHoldsLock, Writers, Looping
<1>6. ASSUME NEW t \in Trackers, EndFlush(t) PROVE WriterHoldsLock'
  BY <1>6 DEF EndFlush, WriterHoldsLock, Writers, Looping
<1>7. ASSUME NEW t \in Trackers, UpdateSeen(t) PROVE WriterHoldsLock'
  BY <1>7 DEF UpdateSeen, WriterHoldsLock, Writers, Looping
<1>8. ASSUME NEW t \in Trackers, LeaveLoop(t) PROVE WriterHoldsLock'
  BY <1>8 DEF LeaveLoop, WriterHoldsLock, Writers, Looping
<1>9. ASSUME NEW t \in Trackers, FinalRecord(t) PROVE WriterHoldsLock'
  BY <1>9 DEF FinalRecord, WriterHoldsLock, Writers, Looping
<1>10. ASSUME NEW t \in Trackers, Close(t) PROVE WriterHoldsLock'
  BY <1>10 DEF Close, WriterHoldsLock, Writers, Looping
<1>11. ASSUME NEW t \in Trackers, HandOver(t) PROVE WriterHoldsLock'
  BY <1>11 DEF HandOver, IsNewPid, Unborn, WriterHoldsLock, Writers, Looping
<1>12. ASSUME NEW t \in Trackers, ReplacementCameUp(t) PROVE WriterHoldsLock'
  BY <1>12 DEF ReplacementCameUp, WriterHoldsLock, Writers, Looping
<1>13. ASSUME NEW t \in Trackers, ReplacementFailed(t) PROVE WriterHoldsLock'
  BY <1>13 DEF ReplacementFailed, WriterHoldsLock, Writers, Looping
<1>14. ASSUME NEW t \in Trackers, AbandonReplacement(t) PROVE WriterHoldsLock'
  <2> DEFINE next == [pc EXCEPT ![t] = "reclaim"]
  <2>1. next \in [Trackers -> States] /\ \A u \in Trackers : next[u] \in Writers => next[u] = pc[u]
    BY DEF States, Writers, Looping
  <2>2. cpc' = cpc
    BY <1>14 DEF AbandonReplacement
  <2>3. CASE Alive(child[t])
    <3>1. child[t] \in Trackers
      BY <2>3 DEF Alive
    <3>2. Signal(child[t], "abandoned", next)
      BY <1>14, <2>3 DEF AbandonReplacement
    <3> HIDE DEF next
    <3>3. None \notin Cmds
      OBVIOUS
    <3> QED BY <2>1, <2>2, <3>1, <3>2, <3>3, SignalKeepsWriter
  <2>4. CASE ~Alive(child[t])
    BY <1>14, <2>1, <2>2, <2>4 DEF AbandonReplacement, WriterHoldsLock
  <2> QED BY <2>3, <2>4
<1>15. ASSUME NEW t \in Trackers, Reclaim(t) PROVE WriterHoldsLock'
  BY <1>15 DEF Reclaim, Resume, WriterHoldsLock, Writers, Looping
<1>16. ASSUME NEW t \in Trackers, ReclaimRefused(t) PROVE WriterHoldsLock'
  BY <1>16 DEF ReclaimRefused, WriterHoldsLock, Writers, Looping
<1>17. ASSUME NEW t \in Trackers, Crash(t) PROVE WriterHoldsLock'
  BY <1>17 DEF Crash, Alive, WriterHoldsLock, Writers, Looping
<1>18. ASSUME NEW c \in Cmds, Look(c) PROVE WriterHoldsLock'
  BY <1>18 DEF Look, At, Sight, WriterHoldsLock
<1>19. ASSUME NEW c \in Cmds, StartBegin(c) PROVE WriterHoldsLock'
  BY <1>19 DEF StartBegin, GoTo, At, WriterHoldsLock
<1>20. ASSUME NEW c \in Cmds, FaceOwner(c) PROVE WriterHoldsLock'
  <2>1. CASE Live(c) /\ Replace(c, "evicting")
    <3>1. seen[c] \in Trackers /\ Signal(seen[c], "replaced", pc)
      BY <2>1 DEF Live, Alive, Replace
    <3>2. \A d \in Cmds : cpc'[d] = IF d = c THEN "evicting" ELSE cpc[d]
      BY <2>1 DEF Replace, GoTo, At
    <3> QED BY <3>1, <3>2, SignalKeepsWriter
  <2>2. CASE UNCHANGED <<lock, pc>> /\ (Finish(c, "left") \/ Finish(c, "refused"))
    BY <2>2 DEF WriterHoldsLock, GoTo, Finish, At
  <2> QED BY <1>20, <2>1, <2>2 DEF FaceOwner
<1>21. ASSUME NEW c \in Cmds, Relock(c) PROVE WriterHoldsLock'
  BY <1>21 DEF Relock, GoTo, At, Finish, WriterHoldsLock
<1>22. ASSUME NEW c \in Cmds, Launch(c) PROVE WriterHoldsLock'
  BY <1>22 DEF Launch, GoTo, At, WriterHoldsLock
<1>23. ASSUME NEW c \in Cmds, EndStop(c) PROVE WriterHoldsLock'
  BY <1>23 DEF EndStop, GoTo, At, WriterHoldsLock
<1>24. ASSUME NEW c \in Cmds, Decide(c) PROVE WriterHoldsLock'
  <2>1. CASE Live(c) /\ Replace(c, "swapping")
    <3>1. seen[c] \in Trackers /\ Signal(seen[c], "replaced", pc)
      BY <2>1 DEF Live, Alive, Replace
    <3>2. \A d \in Cmds : cpc'[d] = IF d = c THEN "swapping" ELSE cpc[d]
      BY <2>1 DEF Replace, GoTo, At
    <3> QED BY <3>1, <3>2, SignalKeepsWriter
  <2>2. CASE UNCHANGED <<lock, pc>> /\ (Finish(c, "left") \/ GoTo(c, "spawning"))
    BY <2>2 DEF WriterHoldsLock, GoTo, Finish, At
  <2> QED BY <1>24, <2>1, <2>2 DEF Decide
<1>25. ASSUME NEW c \in Cmds, Terminated(c) PROVE WriterHoldsLock'
  BY <1>25 DEF Terminated, GoTo, At, WriterHoldsLock
<1>26. ASSUME NEW c \in Cmds, OutlivedWait(c) PROVE WriterHoldsLock'
  BY <1>26 DEF OutlivedWait, GoTo, At, Finish, WriterHoldsLock
<1>27. ASSUME NEW c \in Cmds, SpawnTracker(c) PROVE WriterHoldsLock'
  BY <1>27 DEF SpawnTracker, At, IsNewPid, Unborn, WriterHoldsLock, Writers, Looping
<1>28. ASSUME NEW c \in Cmds, Waited(c) PROVE WriterHoldsLock'
  BY <1>28 DEF Waited, Finish, At, WriterHoldsLock
<1>29. ASSUME NEW c \in Cmds, StopBegin(c) PROVE WriterHoldsLock'
  BY <1>29 DEF StopBegin, GoTo, At, WriterHoldsLock
<1>30. ASSUME NEW c \in Cmds, StopTracker(c) PROVE WriterHoldsLock'
  <2>1. CASE Live(c) /\ Signal(seen[c], "stopped", pc) /\ GoTo(c, "ending")
    <3>1. seen[c] \in Trackers
      BY <2>1 DEF Live, Alive
    <3>2. \A d \in Cmds : cpc'[d] = IF d = c THEN "ending" ELSE cpc[d]
      BY <2>1 DEF GoTo, At
    <3> QED BY <2>1, <3>1, <3>2, SignalKeepsWriter
  <2>2. CASE UNCHANGED <<lock, pc>> /\ GoTo(c, "disarming")
    BY <2>2 DEF WriterHoldsLock, GoTo, At
  <2> QED BY <1>30, <2>1, <2>2 DEF StopTracker
<1>31. ASSUME NEW c \in Cmds, Disarm(c) PROVE WriterHoldsLock'
  BY <1>31 DEF Disarm, Finish, At, WriterHoldsLock
<1>32. ASSUME NEW c \in Cmds, CommitBegin(c) PROVE WriterHoldsLock'
  BY <1>32 DEF CommitBegin, GoTo, At, WriterHoldsLock
<1>33. ASSUME NEW c \in Cmds, CommitRecord(c) PROVE WriterHoldsLock'
  BY <1>33 DEF CommitRecord, GoTo, At, WriterHoldsLock
<1>34. ASSUME NEW c \in Cmds, CheckStop(c) PROVE WriterHoldsLock'
  BY <1>34 DEF CheckStop, Finish, GoTo, At, WriterHoldsLock
<1>35. ASSUME NEW c \in Cmds, LookForTracker(c) PROVE WriterHoldsLock'
  BY <1>35 DEF LookForTracker, Finish, GoTo, At, WriterHoldsLock
<1>36. ASSUME NEW c \in Cmds, Probe(c) PROVE WriterHoldsLock'
  BY <1>36 DEF Probe, Finish, GoTo, At, WriterHoldsLock
<1>37. ASSUME NEW c \in Cmds, Probed(c) PROVE WriterHoldsLock'
  BY <1>37 DEF Probed, GoTo, At, WriterHoldsLock
<1>38. ASSUME NEW c \in Cmds, AskForFlush(c) PROVE WriterHoldsLock'
  BY <1>38 DEF AskForFlush, Finish, GoTo, At, WriterHoldsLock
<1>39. ASSUME NEW c \in Cmds, Answered(c) PROVE WriterHoldsLock'
  BY <1>39 DEF Answered, Finish, At, WriterHoldsLock
<1>40. ASSUME NEW c \in Cmds, GaveUp(c) PROVE WriterHoldsLock'
  BY <1>40 DEF GaveUp, Finish, At, WriterHoldsLock
<1>41. CASE UNCHANGED vars
  BY <1>41 DEF vars, WriterHoldsLock
<1> QED
  BY
    <1>1, <1>2, <1>3, <1>4, <1>5, <1>6, <1>7, <1>8, <1>9, <1>10, <1>11, <1>12,
    <1>13, <1>14, <1>15, <1>16, <1>17, <1>18, <1>19, <1>20, <1>21, <1>22, <1>23, <1>24,
    <1>25, <1>26, <1>27, <1>28, <1>29, <1>30, <1>31, <1>32, <1>33, <1>34, <1>35, <1>36,
    <1>37, <1>38, <1>39, <1>40, <1>41
    DEF Next, TrackerStep, CommandStep

\* Whoever records, renders or removes hooks has the lock, in every reachable state.
THEOREM SingleWriterHeld == Spec => []WriterHoldsLock
<1>1. Init => WriterHoldsLock
  BY PidsAssumption DEF Init, WriterHoldsLock, Writers, Looping
<1> QED BY <1>1, WriterStep, Typed, PTL DEF Spec
-----------------------------------------------------------------------------
(* The hooks and the handshake of the tracker that serves.                 *)

\* What TeardownSparesSuccessor asks of a step.
SuccessorSpared ==
    \A t \in Trackers :
        (pc[t] \in Looping /\ pc'[t] = pc[t] /\ cpc = cpc')
            => /\ folds => folds'
               /\ handshake = t => handshake' = t

\* A tracker that takes its hooks down, or puts its handshake up, has the lock or sees
\* it free: no other tracker is in its loop.  A command's step is seen in its state.
LEMMA SparedStep == Parts /\ WriterHoldsLock /\ [Next]_vars => SuccessorSpared
<1> SUFFICES ASSUME Parts, WriterHoldsLock, [Next]_vars PROVE SuccessorSpared
  OBVIOUS
<1> USE PidsAssumption DEF Parts, SharedOK, TrackerOK, CommandOK, files, command, SuccessorSpared
<1>1. ASSUME NEW t \in Trackers, Boot(t) PROVE SuccessorSpared
  BY <1>1 DEF Boot
<1>2. ASSUME NEW t \in Trackers, BootRefused(t) PROVE SuccessorSpared
  BY <1>2 DEF BootRefused
<1>3. ASSUME NEW t \in Trackers, Arm(t) PROVE SuccessorSpared
  BY <1>3 DEF Arm, WriterHoldsLock, Writers, Looping
<1>4. ASSUME NEW t \in Trackers, InstallSignalHandlers(t) PROVE SuccessorSpared
  BY <1>4 DEF InstallSignalHandlers
<1>5. ASSUME NEW t \in Trackers, BeginFlush(t) PROVE SuccessorSpared
  BY <1>5 DEF BeginFlush
<1>6. ASSUME NEW t \in Trackers, EndFlush(t) PROVE SuccessorSpared
  BY <1>6 DEF EndFlush
<1>7. ASSUME NEW t \in Trackers, UpdateSeen(t) PROVE SuccessorSpared
  BY <1>7 DEF UpdateSeen
<1>8. ASSUME NEW t \in Trackers, LeaveLoop(t) PROVE SuccessorSpared
  BY <1>8 DEF LeaveLoop
<1>9. ASSUME NEW t \in Trackers, FinalRecord(t) PROVE SuccessorSpared
  BY <1>9 DEF FinalRecord
<1>10. ASSUME NEW t \in Trackers, Close(t) PROVE SuccessorSpared
  BY <1>10 DEF Close, RemoveTraces, WriterHoldsLock, Writers, Looping
<1>11. ASSUME NEW t \in Trackers, HandOver(t) PROVE SuccessorSpared
  BY <1>11 DEF HandOver, RemoveTraces, WriterHoldsLock, Writers, Looping
<1>12. ASSUME NEW t \in Trackers, ReplacementCameUp(t) PROVE SuccessorSpared
  BY <1>12 DEF ReplacementCameUp
<1>13. ASSUME NEW t \in Trackers, ReplacementFailed(t) PROVE SuccessorSpared
  BY <1>13 DEF ReplacementFailed
<1>14. ASSUME NEW t \in Trackers, AbandonReplacement(t) PROVE SuccessorSpared
  BY <1>14 DEF AbandonReplacement
<1>15. ASSUME NEW t \in Trackers, Reclaim(t) PROVE SuccessorSpared
  BY <1>15 DEF Reclaim, Resume, WriterHoldsLock, Writers, Looping
<1>16. ASSUME NEW t \in Trackers, ReclaimRefused(t) PROVE SuccessorSpared
  BY <1>16 DEF ReclaimRefused
<1>17. ASSUME NEW t \in Trackers, Crash(t) PROVE SuccessorSpared
  BY <1>17 DEF Crash
<1>18. ASSUME NEW c \in Cmds, CommandStep(c) PROVE cpc' # cpc
  <2>1. CASE Look(c)
    BY <2>1 DEF Look, At, Sight
  <2>2. CASE StartBegin(c)
    BY <2>2 DEF StartBegin, GoTo, At
  <2>3. CASE FaceOwner(c)
    BY <2>3 DEF FaceOwner, Finish, At, Replace, GoTo
  <2>4. CASE Relock(c)
    BY <2>4 DEF Relock, GoTo, At, Finish
  <2>5. CASE Launch(c)
    BY <2>5 DEF Launch, GoTo, At
  <2>6. CASE EndStop(c)
    BY <2>6 DEF EndStop, GoTo, At
  <2>7. CASE Decide(c)
    BY <2>7 DEF Decide, Finish, At, Replace, GoTo
  <2>8. CASE Terminated(c)
    BY <2>8 DEF Terminated, GoTo, At
  <2>9. CASE OutlivedWait(c)
    BY <2>9 DEF OutlivedWait, GoTo, At, Finish
  <2>10. CASE SpawnTracker(c)
    BY <2>10 DEF SpawnTracker, At
  <2>11. CASE Waited(c)
    BY <2>11 DEF Waited, Finish, At
  <2>12. CASE StopBegin(c)
    BY <2>12 DEF StopBegin, GoTo, At
  <2>13. CASE StopTracker(c)
    BY <2>13 DEF StopTracker, GoTo, At
  <2>14. CASE Disarm(c)
    BY <2>14 DEF Disarm, Finish, At
  <2>15. CASE CommitBegin(c)
    BY <2>15 DEF CommitBegin, GoTo, At
  <2>16. CASE CommitRecord(c)
    BY <2>16 DEF CommitRecord, GoTo, At
  <2>17. CASE CheckStop(c)
    BY <2>17 DEF CheckStop, Finish, GoTo, At
  <2>18. CASE LookForTracker(c)
    BY <2>18 DEF LookForTracker, Finish, GoTo, At
  <2>19. CASE Probe(c)
    BY <2>19 DEF Probe, Finish, GoTo, At
  <2>20. CASE Probed(c)
    BY <2>20 DEF Probed, GoTo, At
  <2>21. CASE AskForFlush(c)
    BY <2>21 DEF AskForFlush, Finish, GoTo, At
  <2>22. CASE Answered(c)
    BY <2>22 DEF Answered, Finish, At
  <2>23. CASE GaveUp(c)
    BY <2>23 DEF GaveUp, Finish, At
  <2> QED BY <1>18, <2>1, <2>2, <2>3, <2>4, <2>5, <2>6, <2>7, <2>8, <2>9, <2>10, <2>11, <2>12,
        <2>13, <2>14, <2>15, <2>16, <2>17, <2>18, <2>19, <2>20, <2>21, <2>22, <2>23 DEF CommandStep
<1>19. CASE UNCHANGED vars
  BY <1>19 DEF vars
<1> QED
  BY
    <1>1, <1>2, <1>3, <1>4, <1>5, <1>6, <1>7, <1>8, <1>9, <1>10, <1>11, <1>12,
    <1>13, <1>14, <1>15, <1>16, <1>17, <1>18, <1>19
    DEF Next, TrackerStep

\* A tracker on its way out undoes nothing of the tracker that serves.
THEOREM SuccessorKeepsItsHooks == Spec => TeardownSparesSuccessor
<1>1. SuccessorSpared => [SuccessorSpared]_vars
  OBVIOUS
<1>2. Parts /\ WriterHoldsLock /\ [Next]_vars => SuccessorSpared
  BY SparedStep
<1>3. Spec => [][SuccessorSpared]_vars
  BY <1>2, Typed, SingleWriterHeld, PTL DEF Spec
<1> QED BY <1>3 DEF TeardownSparesSuccessor, SuccessorSpared

-----------------------------------------------------------------------------
(* Flushes and their answers.                                              *)

\* A commit that has put its request on disk waits for the answer, or is over.
Asked(n) == cpc[n] \in {"asking", "over"}

\* What is answered was served, for a commit that had asked; the last request is
\* answered as soon as it is served, by a tracker that serves no other; and a tracker
\* that read the files when it started knows it.
AnswersOK ==
    /\ \A n \in Served : Asked(n)
    /\ request # None => Asked(request)
    /\ done # None => done \in Served
    /\ request \in Served => done = request
    /\ \A t \in Trackers : pc[t] = "flushing" =>
            Asked(nonce[t].now) /\ (nonce[t].now # request => request \notin Served)
    /\ \A t \in Trackers :
            (pc[t] \in {"armed", "serving"} /\ "resumed" \notin told[t] /\ request \in Served)
                => nonce[t].last = request
    /\ AnswerMeansServed

\* A step that leaves the flush files, the nonces and the reports alone keeps all this,
\* if no tracker enters its loop by it and nothing told to one is forgotten.
LEMMA AnswersFrame ==
    ASSUME Parts, AnswersOK,
           UNCHANGED <<flush, nonce, recorded, raised>>,
           \A t \in Trackers : pc'[t] = "flushing" => pc[t] = "flushing",
           \A t \in Trackers : pc'[t] \in {"armed", "serving"} =>
               pc[t] \in {"armed", "serving"} \/ "resumed" \in told'[t],
           \A t \in Trackers : "resumed" \in told[t] => "resumed" \in told'[t],
           \A n \in Cmds : Asked(n) => Asked(n)',
           \A n \in Cmds : reply'[n] = "answered" => reply[n] = "answered"
    PROVE  AnswersOK'
<1> USE DEF Parts, FlushOK, TrackerOK, HistoryOK, flush, Nonces, Served
<1>1. /\ \A n \in Served' : Asked(n)'
      /\ request' # None => Asked(request)'
  BY DEF AnswersOK, Asked
<1>2. /\ done' # None => done' \in Served'
      /\ request' \in Served' => done' = request'
  BY DEF AnswersOK
<1>3. \A t \in Trackers : pc'[t] = "flushing" =>
            Asked(nonce[t].now)' /\ (nonce'[t].now # request' => request' \notin Served')
  BY DEF AnswersOK, Asked
<1>4. \A t \in Trackers :
            (pc'[t] \in {"armed", "serving"} /\ "resumed" \notin told'[t] /\ request' \in Served')
                => nonce'[t].last = request'
  BY DEF AnswersOK
<1>5. AnswerMeansServed'
  BY DEF AnswersOK, AnswerMeansServed
<1> QED BY <1>1, <1>2, <1>3, <1>4, <1>5 DEF AnswersOK, Asked

\* What was told to a tracker is not forgotten by a command that takes the marker.
LEMMA UnmarkedGrows ==
    ASSUME Parts, NEW t \in Trackers PROVE told[t] \subseteq Unmarked[t]
  BY DEF Unmarked

\* Nor by a signal; and a signal moves a tracker only to its end.
LEMMA SignalFrame ==
    ASSUME Parts, NEW t \in Trackers, NEW why, NEW at \in [Trackers -> States], Signal(t, why, at)
    PROVE  /\ UNCHANGED <<nonce, recorded, raised>>
           /\ \A u \in Trackers : pc'[u] = at[u] \/ pc'[u] = "dead"
           /\ \A u \in Trackers : told[u] \subseteq told'[u]
<1>1. \A u \in Trackers : told[u] \subseteq Unmarked[u]
  BY UnmarkedGrows
<1>2. Unmarked = [u \in Trackers |-> Unmarked[u]]
  BY DEF Unmarked
<1>3. \A u \in Trackers : told[u] \subseteq told'[u]
  BY <1>1, <1>2 DEF Signal
<1> QED BY <1>3 DEF Signal

\* A command that moves on, and is not waiting for an answer, still has asked what it asked.
LEMMA GoToAsked ==
    ASSUME Parts, NEW c \in Cmds, NEW s, GoTo(c, s), ~Asked(c)
    PROVE  /\ \A n \in Cmds : Asked(n) => Asked(n)'
           /\ reply' = reply
  BY DEF Parts, CommandOK, GoTo, At, Asked

\* A command that ends has not been answered, if it does not report so.
LEMMA FinishAsked ==
    ASSUME Parts, NEW c \in Cmds, NEW r, Finish(c, r), r # "answered"
    PROVE  /\ \A n \in Cmds : Asked(n) => Asked(n)'
           /\ \A n \in Cmds : reply'[n] = "answered" => reply[n] = "answered"
  BY DEF Parts, CommandOK, Finish, At, Asked

\* Every step keeps the answers honest.
LEMMA AnswersStep == Parts /\ WriterHoldsLock /\ AnswersOK /\ [Next]_vars => AnswersOK'
<1> SUFFICES ASSUME Parts, WriterHoldsLock, AnswersOK, [Next]_vars PROVE AnswersOK'
  OBVIOUS
<1> USE PidsAssumption DEF files, tracker, command, history, Served
<1>1. ASSUME NEW t \in Trackers, Boot(t) PROVE AnswersOK'
  BY <1>1, AnswersFrame DEF Boot, Asked, Parts, TrackerOK, HistoryOK
<1>2. ASSUME NEW t \in Trackers, BootRefused(t) PROVE AnswersOK'
  BY <1>2, AnswersFrame DEF BootRefused, Asked, Parts, TrackerOK, HistoryOK
<1>3. ASSUME NEW t \in Trackers, Arm(t) PROVE AnswersOK'
  <2>1. UNCHANGED <<flush, recorded, raised, cpc, reply, told>>
    BY <1>3 DEF Arm
  <2>2. \A u \in Trackers : pc'[u] = (IF u = t THEN "armed" ELSE pc[u])
                             /\ nonce'[u].now = nonce[u].now
                             /\ (u # t => nonce'[u] = nonce[u])
    BY <1>3 DEF Arm, Parts, TrackerOK
  <2>3. request \in Served => nonce'[t].last = request
    <3>1. request \in Served => request # None /\ done = request
      BY DEF Parts, HistoryOK, AnswersOK
    <3>2. request \in Served => AlreadyAnswered = {request}
      BY <3>1 DEF AlreadyAnswered
    <3> QED BY <1>3, <3>2 DEF Arm, Parts, TrackerOK
  <2>4. \A n : Asked(n)' <=> Asked(n)
    BY <2>1 DEF Asked
  <2>5. AnswerMeansServed'
    BY <2>1 DEF AnswersOK, AnswerMeansServed
  <2> QED BY <2>1, <2>2, <2>3, <2>4, <2>5 DEF AnswersOK, flush, Asked
<1>4. ASSUME NEW t \in Trackers, InstallSignalHandlers(t) PROVE AnswersOK'
  BY <1>4, AnswersFrame DEF InstallSignalHandlers, Asked, Parts, TrackerOK, HistoryOK
<1>5. ASSUME NEW t \in Trackers, BeginFlush(t) PROVE AnswersOK'
  <2>1. UNCHANGED <<request, done, recorded, raised, cpc, reply, told>>
    BY <1>5 DEF BeginFlush
  <2>2. /\ pc'[t] = "flushing"
        /\ \A u \in Trackers : u # t => pc'[u] = pc[u] /\ nonce'[u] = nonce[u]
    BY <1>5 DEF BeginFlush, Parts, TrackerOK
  <2>3. nonce'[t].now = request /\ request # None
    BY <1>5 DEF BeginFlush, Parts, TrackerOK
  <2>4. \A n : Asked(n)' <=> Asked(n)
    BY <2>1 DEF Asked
  <2>5. AnswerMeansServed'
    BY <2>1 DEF AnswersOK, AnswerMeansServed
  <2>6. \A u \in Trackers : pc'[u] = "flushing" =>
            Asked(nonce'[u].now) /\ (nonce'[u].now # request => request \notin Served)
    <3>1. Asked(request)
      BY <2>3 DEF AnswersOK
    <3>2. \A u \in Trackers : u # t => pc'[u] = pc[u] /\ nonce'[u] = nonce[u]
      BY <2>2
    <3> QED BY <2>3, <3>1, <3>2 DEF AnswersOK
  <2>7. \A u \in Trackers : (pc'[u] \in {"armed", "serving"} /\ "resumed" \notin told[u] /\ request \in Served)
            => nonce'[u].last = request
    <3>1. \A u \in Trackers : u # t => pc'[u] = pc[u] /\ nonce'[u] = nonce[u]
      BY <2>2
    <3>2. pc'[t] = "flushing"
      BY <2>2
    <3> QED BY <3>1, <3>2 DEF AnswersOK
  <2> QED BY <2>1, <2>4, <2>5, <2>6, <2>7 DEF AnswersOK, Asked
<1>6. ASSUME NEW t \in Trackers, EndFlush(t) PROVE AnswersOK'
  <2>1. UNCHANGED <<request, cpc, reply, told>> /\ done' = nonce[t].now
        /\ Served' = Served \cup {nonce[t].now} /\ pc[t] = "flushing"
    BY <1>6 DEF EndFlush, FlushOutcome, flush
  <2>2. /\ pc' = [pc EXCEPT ![t] = "serving"]
        /\ \A u \in Trackers : u # t => nonce'[u] = nonce[u]
        /\ nonce'[t].last = nonce[t].now
    BY <1>6 DEF EndFlush, Parts, TrackerOK
  <2>3. \A u \in Trackers : u # t => pc'[u] \notin {"armed", "serving", "flushing"}
    BY <2>1, <2>2 DEF WriterHoldsLock, Writers, Looping, Parts, TrackerOK
  <2>4. pc'[t] = "serving"
    BY <2>2 DEF Parts, TrackerOK
  <2>5. nonce[t].now # request => request \notin Served
    BY <2>1 DEF AnswersOK
  <2>6. Asked(nonce[t].now)
    BY <2>1 DEF AnswersOK
  <2>7. \A n : Asked(n)' <=> Asked(n)
    BY <2>1 DEF Asked
  <2>8. AnswerMeansServed'
    BY <2>1 DEF AnswersOK, AnswerMeansServed
  <2> QED BY <2>1, <2>2, <2>3, <2>4, <2>5, <2>6, <2>7, <2>8 DEF AnswersOK, Asked
<1>7. ASSUME NEW t \in Trackers, UpdateSeen(t) PROVE AnswersOK'
  BY <1>7, AnswersFrame DEF UpdateSeen, Asked, Parts, TrackerOK, HistoryOK
<1>8. ASSUME NEW t \in Trackers, LeaveLoop(t) PROVE AnswersOK'
  BY <1>8, AnswersFrame DEF LeaveLoop, Asked, Parts, TrackerOK, HistoryOK
<1>9. ASSUME NEW t \in Trackers, FinalRecord(t) PROVE AnswersOK'
  BY <1>9, AnswersFrame DEF FinalRecord, Asked, Parts, TrackerOK, HistoryOK
<1>10. ASSUME NEW t \in Trackers, Close(t) PROVE AnswersOK'
  BY <1>10, AnswersFrame DEF Close, Asked, Parts, TrackerOK, HistoryOK
<1>11. ASSUME NEW t \in Trackers, HandOver(t) PROVE AnswersOK'
  BY <1>11, AnswersFrame DEF HandOver, IsNewPid, Unborn, Asked, Parts, TrackerOK, HistoryOK
<1>12. ASSUME NEW t \in Trackers, ReplacementCameUp(t) PROVE AnswersOK'
  BY <1>12, AnswersFrame DEF ReplacementCameUp, Asked, Parts, TrackerOK, HistoryOK
<1>13. ASSUME NEW t \in Trackers, ReplacementFailed(t) PROVE AnswersOK'
  BY <1>13, AnswersFrame DEF ReplacementFailed, Asked, Parts, TrackerOK, HistoryOK
<1>14. ASSUME NEW t \in Trackers, AbandonReplacement(t) PROVE AnswersOK'
  <2> DEFINE next == [pc EXCEPT ![t] = "reclaim"]
  <2>1. UNCHANGED <<flush, cpc, reply>>
    BY <1>14 DEF AbandonReplacement
  <2>2. next \in [Trackers -> States]
        /\ \A u \in Trackers : next[u] = pc[u] \/ next[u] = "reclaim"
    BY <1>14 DEF Parts, TrackerOK, States
  <2>3. CASE Alive(child[t])
    <3>1. child[t] \in Trackers
      BY <2>3 DEF Alive
    <3>2. Signal(child[t], "abandoned", next)
      BY <1>14, <2>3 DEF AbandonReplacement
    <3> HIDE DEF next
    <3>3. /\ UNCHANGED <<nonce, recorded, raised>>
          /\ \A u \in Trackers : pc'[u] = next[u] \/ pc'[u] = "dead"
          /\ \A u \in Trackers : told[u] \subseteq told'[u]
      BY <2>2, <3>1, <3>2, SignalFrame
    <3> QED BY <2>1, <2>2, <3>3, AnswersFrame DEF Asked
  <2>4. CASE ~Alive(child[t])
    <3>1. pc' = next /\ UNCHANGED <<nonce, recorded, raised, told>>
      BY <1>14, <2>4 DEF AbandonReplacement
    <3> QED BY <2>1, <2>2, <3>1, AnswersFrame DEF Asked
  <2> QED BY <2>3, <2>4
<1>15. ASSUME NEW t \in Trackers, Reclaim(t) PROVE AnswersOK'
  BY <1>15, AnswersFrame DEF Reclaim, Resume, Asked, Parts, TrackerOK, HistoryOK
<1>16. ASSUME NEW t \in Trackers, ReclaimRefused(t) PROVE AnswersOK'
  BY <1>16, AnswersFrame DEF ReclaimRefused, Asked, Parts, TrackerOK, HistoryOK
<1>17. ASSUME NEW t \in Trackers, Crash(t) PROVE AnswersOK'
  BY <1>17, AnswersFrame DEF Crash, Asked, Parts, TrackerOK, HistoryOK
<1>18. ASSUME NEW c \in Cmds, Look(c) PROVE AnswersOK'
  BY <1>18, AnswersFrame DEF Look, At, Sight, Asked, Parts, TrackerOK, CommandOK
<1>19. ASSUME NEW c \in Cmds, StartBegin(c) PROVE AnswersOK'
  BY <1>19, AnswersFrame DEF StartBegin, At, GoTo, Asked, Parts, TrackerOK, CommandOK
<1>20. ASSUME NEW c \in Cmds, FaceOwner(c) PROVE AnswersOK'
  <2>1. UNCHANGED flush /\ ~Asked(c)
    BY <1>20 DEF FaceOwner, Asked
  <2>2. CASE Live(c) /\ Replace(c, "evicting")
    <3>1. seen[c] \in Trackers /\ Signal(seen[c], "replaced", pc) /\ GoTo(c, "evicting")
      BY <2>2 DEF Live, Alive, Replace
    <3>2. pc \in [Trackers -> States]
      BY DEF Parts, TrackerOK
    <3>3. /\ UNCHANGED <<nonce, recorded, raised>>
          /\ \A u \in Trackers : pc'[u] = pc[u] \/ pc'[u] = "dead"
          /\ \A u \in Trackers : told[u] \subseteq told'[u]
      BY <3>1, <3>2, SignalFrame
    <3>4. reply' = reply /\ \A n \in Cmds : Asked(n) => Asked(n)'
      BY <2>1, <3>1, GoToAsked
    <3> QED BY <2>1, <3>3, <3>4, AnswersFrame
  <2>3. CASE UNCHANGED <<tracker, history>> /\ (Finish(c, "left") \/ Finish(c, "refused"))
    <3>1. \A n \in Cmds : (Asked(n) => Asked(n)') /\ (reply'[n] = "answered" => reply[n] = "answered")
      BY <2>1, <2>3, GoToAsked, FinishAsked
    <3> QED BY <2>1, <2>3, <3>1, AnswersFrame
  <2> QED BY <1>20, <2>2, <2>3 DEF FaceOwner
<1>21. ASSUME NEW c \in Cmds, Relock(c) PROVE AnswersOK'
  <2>1. UNCHANGED <<flush, pc, nonce, recorded, raised, told>> /\ ~Asked(c)
    BY <1>21 DEF Relock, Asked
  <2>2. \A n \in Cmds : (Asked(n) => Asked(n)') /\ (reply'[n] = "answered" => reply[n] = "answered")
    BY <1>21, <2>1, GoToAsked, FinishAsked DEF Relock
  <2> QED BY <2>1, <2>2, AnswersFrame
<1>22. ASSUME NEW c \in Cmds, Launch(c) PROVE AnswersOK'
  <2>1. UNCHANGED <<flush, pc, nonce, recorded, raised, told>> /\ ~Asked(c)
    BY <1>22 DEF Launch, Asked
  <2>2. \A n \in Cmds : (Asked(n) => Asked(n)') /\ (reply'[n] = "answered" => reply[n] = "answered")
    BY <1>22, <2>1, GoToAsked DEF Launch
  <2> QED BY <2>1, <2>2, AnswersFrame
<1>23. ASSUME NEW c \in Cmds, EndStop(c) PROVE AnswersOK'
  <2>1. UNCHANGED <<flush, pc, nonce, recorded, raised, told>> /\ ~Asked(c)
    BY <1>23 DEF EndStop, Asked
  <2>2. \A n \in Cmds : (Asked(n) => Asked(n)') /\ (reply'[n] = "answered" => reply[n] = "answered")
    BY <1>23, <2>1, GoToAsked DEF EndStop
  <2> QED BY <2>1, <2>2, AnswersFrame
<1>24. ASSUME NEW c \in Cmds, Decide(c) PROVE AnswersOK'
  <2>1. UNCHANGED flush /\ ~Asked(c)
    BY <1>24 DEF Decide, Asked
  <2>2. CASE Live(c) /\ Replace(c, "swapping")
    <3>1. seen[c] \in Trackers /\ Signal(seen[c], "replaced", pc) /\ GoTo(c, "swapping")
      BY <2>2 DEF Live, Alive, Replace
    <3>2. pc \in [Trackers -> States]
      BY DEF Parts, TrackerOK
    <3>3. /\ UNCHANGED <<nonce, recorded, raised>>
          /\ \A u \in Trackers : pc'[u] = pc[u] \/ pc'[u] = "dead"
          /\ \A u \in Trackers : told[u] \subseteq told'[u]
      BY <3>1, <3>2, SignalFrame
    <3>4. reply' = reply /\ \A n \in Cmds : Asked(n) => Asked(n)'
      BY <2>1, <3>1, GoToAsked
    <3> QED BY <2>1, <3>3, <3>4, AnswersFrame
  <2>3. CASE UNCHANGED <<tracker, history>> /\ (Finish(c, "left") \/ GoTo(c, "spawning"))
    <3>1. \A n \in Cmds : (Asked(n) => Asked(n)') /\ (reply'[n] = "answered" => reply[n] = "answered")
      BY <2>1, <2>3, GoToAsked, FinishAsked
    <3> QED BY <2>1, <2>3, <3>1, AnswersFrame
  <2> QED BY <1>24, <2>2, <2>3 DEF Decide
<1>25. ASSUME NEW c \in Cmds, Terminated(c) PROVE AnswersOK'
  <2>1. UNCHANGED <<flush, pc, nonce, recorded, raised>> /\ ~Asked(c)
    BY <1>25 DEF Terminated, Asked
  <2>2. /\ \A u \in Trackers : told[u] \subseteq Unmarked[u]
        /\ Unmarked = [u \in Trackers |-> Unmarked[u]]
    BY UnmarkedGrows DEF Unmarked
  <2>3. \A u \in Trackers : told[u] \subseteq told'[u]
    BY <1>25, <2>2 DEF Terminated
  <2>4. \A n \in Cmds : (Asked(n) => Asked(n)') /\ (reply'[n] = "answered" => reply[n] = "answered")
    BY <1>25, <2>1, GoToAsked DEF Terminated
  <2> QED BY <2>1, <2>3, <2>4, AnswersFrame
<1>26. ASSUME NEW c \in Cmds, OutlivedWait(c) PROVE AnswersOK'
  <2>1. UNCHANGED <<flush, pc, nonce, recorded, raised>> /\ ~Asked(c)
    BY <1>26 DEF OutlivedWait, Asked
  <2>2. /\ \A u \in Trackers : told[u] \subseteq Unmarked[u]
        /\ Unmarked = [u \in Trackers |-> Unmarked[u]]
    BY UnmarkedGrows DEF Unmarked
  <2>3. \A u \in Trackers : told[u] \subseteq told'[u]
    BY <1>26, <2>2 DEF OutlivedWait
  <2>4. \A n \in Cmds : (Asked(n) => Asked(n)') /\ (reply'[n] = "answered" => reply[n] = "answered")
    BY <1>26, <2>1, GoToAsked, FinishAsked DEF OutlivedWait
  <2> QED BY <2>1, <2>3, <2>4, AnswersFrame
<1>27. ASSUME NEW c \in Cmds, SpawnTracker(c) PROVE AnswersOK'
  BY <1>27, AnswersFrame DEF SpawnTracker, At, Asked, Parts, TrackerOK, CommandOK
<1>28. ASSUME NEW c \in Cmds, Waited(c) PROVE AnswersOK'
  <2>1. UNCHANGED <<flush, pc, nonce, recorded, raised, told>>
    BY <1>28 DEF Waited
  <2>2. \A n \in Cmds : (Asked(n) => Asked(n)') /\ (reply'[n] = "answered" => reply[n] = "answered")
    BY <1>28, <2>1, FinishAsked DEF Waited
  <2> QED BY <2>1, <2>2, AnswersFrame
<1>29. ASSUME NEW c \in Cmds, StopBegin(c) PROVE AnswersOK'
  <2>1. UNCHANGED <<flush, pc, nonce, recorded, raised, told>> /\ ~Asked(c)
    BY <1>29 DEF StopBegin, Asked
  <2>2. \A n \in Cmds : (Asked(n) => Asked(n)') /\ (reply'[n] = "answered" => reply[n] = "answered")
    BY <1>29, <2>1, GoToAsked DEF StopBegin
  <2> QED BY <2>1, <2>2, AnswersFrame
<1>30. ASSUME NEW c \in Cmds, StopTracker(c) PROVE AnswersOK'
  <2>1. UNCHANGED flush /\ ~Asked(c)
    BY <1>30 DEF StopTracker, Asked
  <2>2. CASE Live(c) /\ Signal(seen[c], "stopped", pc) /\ GoTo(c, "ending")
    <3>1. seen[c] \in Trackers
      BY <2>2 DEF Live, Alive
    <3>2. pc \in [Trackers -> States]
      BY DEF Parts, TrackerOK
    <3>3. /\ UNCHANGED <<nonce, recorded, raised>>
          /\ \A u \in Trackers : pc'[u] = pc[u] \/ pc'[u] = "dead"
          /\ \A u \in Trackers : told[u] \subseteq told'[u]
      BY <2>2, <3>1, <3>2, SignalFrame
    <3>4. reply' = reply /\ \A n \in Cmds : Asked(n) => Asked(n)'
      BY <2>1, <2>2, GoToAsked
    <3> QED BY <2>1, <3>3, <3>4, AnswersFrame
  <2>3. CASE UNCHANGED <<tracker, history>> /\ GoTo(c, "disarming")
    <3>1. reply' = reply /\ \A n \in Cmds : Asked(n) => Asked(n)'
      BY <2>1, <2>3, GoToAsked
    <3> QED BY <2>1, <2>3, <3>1, AnswersFrame
  <2> QED BY <1>30, <2>2, <2>3 DEF StopTracker
<1>31. ASSUME NEW c \in Cmds, Disarm(c) PROVE AnswersOK'
  <2>1. UNCHANGED <<flush, pc, nonce, recorded, raised, told>>
    BY <1>31 DEF Disarm
  <2>2. \A n \in Cmds : (Asked(n) => Asked(n)') /\ (reply'[n] = "answered" => reply[n] = "answered")
    BY <1>31, <2>1, FinishAsked DEF Disarm
  <2> QED BY <2>1, <2>2, AnswersFrame
<1>32. ASSUME NEW c \in Cmds, CommitBegin(c) PROVE AnswersOK'
  <2>1. UNCHANGED <<flush, pc, nonce, recorded, raised, told>> /\ ~Asked(c)
    BY <1>32 DEF CommitBegin, Asked
  <2>2. \A n \in Cmds : (Asked(n) => Asked(n)') /\ (reply'[n] = "answered" => reply[n] = "answered")
    BY <1>32, <2>1, GoToAsked DEF CommitBegin
  <2> QED BY <2>1, <2>2, AnswersFrame
<1>33. ASSUME NEW c \in Cmds, CommitRecord(c) PROVE AnswersOK'
  <2>1. UNCHANGED <<flush, pc, nonce, recorded, raised, told>> /\ ~Asked(c)
    BY <1>33 DEF CommitRecord, Asked
  <2>2. \A n \in Cmds : (Asked(n) => Asked(n)') /\ (reply'[n] = "answered" => reply[n] = "answered")
    BY <1>33, <2>1, GoToAsked DEF CommitRecord
  <2> QED BY <2>1, <2>2, AnswersFrame
<1>34. ASSUME NEW c \in Cmds, CheckStop(c) PROVE AnswersOK'
  <2>1. UNCHANGED <<flush, pc, nonce, recorded, raised, told>> /\ ~Asked(c)
    BY <1>34 DEF CheckStop, Asked
  <2>2. \A n \in Cmds : (Asked(n) => Asked(n)') /\ (reply'[n] = "answered" => reply[n] = "answered")
    BY <1>34, <2>1, FinishAsked, GoToAsked DEF CheckStop
  <2> QED BY <2>1, <2>2, AnswersFrame
<1>35. ASSUME NEW c \in Cmds, LookForTracker(c) PROVE AnswersOK'
  <2>1. UNCHANGED <<flush, pc, nonce, recorded, raised, told>> /\ ~Asked(c)
    BY <1>35 DEF LookForTracker, Asked
  <2>2. \A n \in Cmds : (Asked(n) => Asked(n)') /\ (reply'[n] = "answered" => reply[n] = "answered")
    BY <1>35, <2>1, FinishAsked, GoToAsked DEF LookForTracker
  <2> QED BY <2>1, <2>2, AnswersFrame
<1>36. ASSUME NEW c \in Cmds, Probe(c) PROVE AnswersOK'
  <2>1. UNCHANGED <<flush, pc, nonce, recorded, raised, told>> /\ ~Asked(c)
    BY <1>36 DEF Probe, Asked
  <2>2. \A n \in Cmds : (Asked(n) => Asked(n)') /\ (reply'[n] = "answered" => reply[n] = "answered")
    BY <1>36, <2>1, FinishAsked, GoToAsked DEF Probe
  <2> QED BY <2>1, <2>2, AnswersFrame
<1>37. ASSUME NEW c \in Cmds, Probed(c) PROVE AnswersOK'
  <2>1. UNCHANGED <<flush, pc, nonce, recorded, raised, told>> /\ ~Asked(c)
    BY <1>37 DEF Probed, Asked
  <2>2. \A n \in Cmds : (Asked(n) => Asked(n)') /\ (reply'[n] = "answered" => reply[n] = "answered")
    BY <1>37, <2>1, GoToAsked DEF Probed
  <2> QED BY <2>1, <2>2, AnswersFrame
<1>38. ASSUME NEW c \in Cmds, AskForFlush(c) PROVE AnswersOK'
  <2>1. UNCHANGED <<done, pc, nonce, recorded, raised, told>> /\ ~Asked(c)
    BY <1>38 DEF AskForFlush, Asked
  <2>2. CASE Finish(c, "alone") /\ request' = request
    <3>1. /\ \A n \in Cmds : Asked(n) => Asked(n)'
          /\ \A n \in Cmds : reply'[n] = "answered" => reply[n] = "answered"
      BY <2>2, FinishAsked
    <3>2. UNCHANGED flush
      BY <1>38, <2>2 DEF AskForFlush, flush
    <3> QED BY <2>1, <3>1, <3>2, AnswersFrame
  <2>3. CASE GoTo(c, "asking") /\ request' = c
    <3>1. reply' = reply /\ \A n \in Cmds : Asked(n) => Asked(n)'
      BY <2>1, <2>3, GoToAsked
    <3>2. cpc'[c] = "asking"
      BY <2>3 DEF GoTo, At, Parts, CommandOK
    <3>3. c \notin Served /\ request' # None /\ request' \notin Served' /\ Served \subseteq Cmds
      BY <2>1, <2>3 DEF AnswersOK, Parts, HistoryOK
    <3>4. /\ \A n \in Served' : cpc'[n] \in {"asking", "over"}
          /\ cpc'[request'] \in {"asking", "over"}
      BY <2>1, <2>3, <3>1, <3>2, <3>3 DEF AnswersOK, Asked
    <3>5. done' # None => done' \in Served'
      BY <2>1 DEF AnswersOK
    <3>6. \A t \in Trackers : pc'[t] = "flushing" => cpc'[nonce'[t].now] \in {"asking", "over"}
      BY <2>1, <3>1 DEF AnswersOK, Asked, Parts, TrackerOK
    <3>7. AnswerMeansServed'
      BY <2>1, <3>1 DEF AnswersOK, AnswerMeansServed
    <3> QED BY <3>3, <3>4, <3>5, <3>6, <3>7 DEF AnswersOK, Asked
  <2> QED BY <1>38, <2>2, <2>3 DEF AskForFlush
<1>39. ASSUME NEW c \in Cmds, Answered(c) PROVE AnswersOK'
  <2>1. UNCHANGED <<flush, pc, nonce, recorded, raised, told>> /\ done = c
    BY <1>39 DEF Answered
  <2>2. /\ \A n \in Cmds : Asked(n) => Asked(n)'
        /\ \A n \in Cmds : n # c => reply'[n] = reply[n]
    BY <1>39 DEF Answered, Finish, At, Parts, CommandOK, Asked
  <2>3. c \in Served
    BY <2>1 DEF AnswersOK
  <2>4. ASSUME NEW n \in Cmds, reply'[n] = "answered" PROVE n \in Served'
    <3>1. CASE n = c
      BY <2>1, <2>3, <3>1
    <3>2. CASE n # c
      BY <2>1, <2>2, <2>4, <3>2 DEF AnswersOK, AnswerMeansServed
    <3> QED BY <3>1, <3>2
  <2>5. Served \subseteq Cmds /\ request \in Nonces
        /\ \A t \in Trackers : pc[t] = "flushing" => nonce[t].now \in Cmds
    BY DEF Parts, HistoryOK, FlushOK, TrackerOK
  <2>6. /\ \A n \in Served : Asked(n) /\ n \in Cmds
        /\ request # None => Asked(request) /\ request \in Cmds
        /\ \A t \in Trackers : pc[t] = "flushing" => Asked(nonce[t].now) /\ nonce[t].now \in Cmds
    BY <2>5 DEF AnswersOK, Nonces
  <2>8. /\ \A n \in Served' : Asked(n)'
        /\ request' # None => Asked(request)'
        /\ \A t \in Trackers : pc'[t] = "flushing" => Asked(nonce[t].now)'
    BY <2>1, <2>2, <2>6 DEF Asked, flush
  <2>7. AnswerMeansServed'
    BY <2>4 DEF AnswerMeansServed
  <2> QED BY <2>1, <2>7, <2>8 DEF AnswersOK, Asked, flush
<1>40. ASSUME NEW c \in Cmds, GaveUp(c) PROVE AnswersOK'
  <2>1. UNCHANGED <<flush, pc, nonce, recorded, raised, told>>
    BY <1>40 DEF GaveUp
  <2>2. \A n \in Cmds : (Asked(n) => Asked(n)') /\ (reply'[n] = "answered" => reply[n] = "answered")
    BY <1>40, <2>1, FinishAsked DEF GaveUp
  <2> QED BY <2>1, <2>2, AnswersFrame
<1>41. CASE UNCHANGED vars
  BY <1>41, AnswersFrame DEF vars, Asked
<1> QED
  BY
    <1>1, <1>2, <1>3, <1>4, <1>5, <1>6, <1>7, <1>8, <1>9, <1>10, <1>11, <1>12,
    <1>13, <1>14, <1>15, <1>16, <1>17, <1>18, <1>19, <1>20, <1>21, <1>22, <1>23, <1>24,
    <1>25, <1>26, <1>27, <1>28, <1>29, <1>30, <1>31, <1>32, <1>33, <1>34, <1>35, <1>36,
    <1>37, <1>38, <1>39, <1>40, <1>41
    DEF Next, TrackerStep, CommandStep

\* The answers are honest in every reachable state.
LEMMA AnswersHonest == Spec => []AnswersOK
<1>1. Init => AnswersOK
  BY PidsAssumption, ReportsAssumption DEF Init, Served, AnswersOK, AnswerMeansServed, Reports
<1> QED BY <1>1, AnswersStep, Typed, SingleWriterHeld, PTL DEF Spec

\* A commit that was told its flush is done was served: a recording for it ended,
\* completed or raised.
THEOREM AnsweredWasServed == Spec => []AnswerMeansServed
<1>1. AnswersOK => AnswerMeansServed
  BY DEF AnswersOK
<1> QED BY <1>1, AnswersHonest, PTL

\* What AnsweredNotServedAgain asks of a step.
NothingServedAgain ==
    \A t \in Trackers :
        (pc[t] = "serving" /\ pc'[t] = "flushing" /\ "resumed" \notin told[t])
            => nonce'[t].now \notin Served

\* Only BeginFlush begins a recording, and not for a request the tracker knows is settled.
LEMMA NotServedAgain == Parts /\ AnswersOK /\ [Next]_vars => NothingServedAgain
<1> SUFFICES ASSUME Parts, AnswersOK, [Next]_vars PROVE NothingServedAgain
  OBVIOUS
<1> SUFFICES ASSUME NEW t \in Trackers, pc[t] = "serving", pc'[t] = "flushing",
                    "resumed" \notin told[t]
             PROVE  nonce'[t].now \notin Served
  BY DEF NothingServedAgain
<1> USE PidsAssumption DEF tracker, Parts, TrackerOK
<1>1. ASSUME NEW u \in Trackers, Boot(u) PROVE FALSE
  BY <1>1 DEF Boot
<1>2. ASSUME NEW u \in Trackers, BootRefused(u) PROVE FALSE
  BY <1>2 DEF BootRefused
<1>3. ASSUME NEW u \in Trackers, Arm(u) PROVE FALSE
  BY <1>3 DEF Arm
<1>4. ASSUME NEW u \in Trackers, InstallSignalHandlers(u) PROVE FALSE
  BY <1>4 DEF InstallSignalHandlers
<1>5. ASSUME NEW u \in Trackers, EndFlush(u) PROVE FALSE
  BY <1>5 DEF EndFlush
<1>6. ASSUME NEW u \in Trackers, UpdateSeen(u) PROVE FALSE
  BY <1>6 DEF UpdateSeen
<1>7. ASSUME NEW u \in Trackers, LeaveLoop(u) PROVE FALSE
  BY <1>7 DEF LeaveLoop
<1>8. ASSUME NEW u \in Trackers, FinalRecord(u) PROVE FALSE
  BY <1>8 DEF FinalRecord
<1>9. ASSUME NEW u \in Trackers, Close(u) PROVE FALSE
  BY <1>9 DEF Close
<1>10. ASSUME NEW u \in Trackers, HandOver(u) PROVE FALSE
  BY <1>10 DEF HandOver
<1>11. ASSUME NEW u \in Trackers, ReplacementCameUp(u) PROVE FALSE
  BY <1>11 DEF ReplacementCameUp
<1>12. ASSUME NEW u \in Trackers, ReplacementFailed(u) PROVE FALSE
  BY <1>12 DEF ReplacementFailed
<1>13. ASSUME NEW u \in Trackers, AbandonReplacement(u) PROVE FALSE
  <2> DEFINE next == [pc EXCEPT ![u] = "reclaim"]
  <2>1. CASE Alive(child[u])
    <3>1. Signal(child[u], "abandoned", next) /\ child[u] \in Trackers
      BY <1>13, <2>1 DEF AbandonReplacement, Alive
    <3>2. next \in [Trackers -> States] /\ next[t] # "flushing"
      BY DEF States
    <3> HIDE DEF next
    <3>3. \A v \in Trackers : pc'[v] = next[v] \/ pc'[v] = "dead"
      BY <3>1, <3>2, SignalFrame
    <3> QED BY <3>2, <3>3
  <2>2. CASE ~Alive(child[u])
    BY <1>13, <2>2 DEF AbandonReplacement
  <2> QED BY <2>1, <2>2
<1>14. ASSUME NEW u \in Trackers, Reclaim(u) PROVE FALSE
  BY <1>14 DEF Reclaim, Resume
<1>15. ASSUME NEW u \in Trackers, ReclaimRefused(u) PROVE FALSE
  BY <1>15 DEF ReclaimRefused
<1>16. ASSUME NEW u \in Trackers, Crash(u) PROVE FALSE
  BY <1>16 DEF Crash
<1>17. ASSUME NEW c \in Cmds, FaceOwner(c) PROVE FALSE
  <2>1. CASE seen[c] \in Trackers /\ Signal(seen[c], "replaced", pc)
    <3>1. pc \in [Trackers -> States]
      OBVIOUS
    <3>2. \A u \in Trackers : pc'[u] = pc[u] \/ pc'[u] = "dead"
      BY <2>1, <3>1, SignalFrame
    <3> QED BY <3>2
  <2>2. CASE pc' = pc
    BY <2>2
  <2> QED BY <1>17, <2>1, <2>2 DEF FaceOwner, Live, Alive, Replace
<1>18. ASSUME NEW c \in Cmds, Decide(c) PROVE FALSE
  <2>1. CASE seen[c] \in Trackers /\ Signal(seen[c], "replaced", pc)
    <3>1. pc \in [Trackers -> States]
      OBVIOUS
    <3>2. \A u \in Trackers : pc'[u] = pc[u] \/ pc'[u] = "dead"
      BY <2>1, <3>1, SignalFrame
    <3> QED BY <3>2
  <2>2. CASE pc' = pc
    BY <2>2
  <2> QED BY <1>18, <2>1, <2>2 DEF Decide, Live, Alive, Replace
<1>19. ASSUME NEW c \in Cmds, SpawnTracker(c) PROVE FALSE
  BY <1>19 DEF SpawnTracker
<1>20. ASSUME NEW c \in Cmds, StopTracker(c) PROVE FALSE
  <2>1. CASE seen[c] \in Trackers /\ Signal(seen[c], "stopped", pc)
    <3>1. pc \in [Trackers -> States]
      OBVIOUS
    <3>2. \A u \in Trackers : pc'[u] = pc[u] \/ pc'[u] = "dead"
      BY <2>1, <3>1, SignalFrame
    <3> QED BY <3>2
  <2>2. CASE pc' = pc
    BY <2>2
  <2> QED BY <1>20, <2>1, <2>2 DEF StopTracker, Live, Alive
<1>21. ASSUME NEW c \in Cmds, CommandStep(c), pc' # pc
      PROVE  FaceOwner(c) \/ Decide(c) \/ StopTracker(c) \/ SpawnTracker(c)
  BY <1>21 DEF CommandStep, Look, StartBegin, Relock, Launch, EndStop, Terminated, OutlivedWait,
     Waited,
        StopBegin, Disarm, CommitBegin, CommitRecord, CheckStop, LookForTracker, Probe, Probed,
        AskForFlush, Answered, GaveUp
<1>22. ASSUME NEW u \in Trackers, BeginFlush(u) PROVE nonce'[t].now \notin Served
  <2>1. u = t
    BY <1>22 DEF BeginFlush
  <2>2. nonce'[t].now = request /\ request # nonce[t].last
    BY <1>22, <2>1 DEF BeginFlush
  <2> QED BY <2>2 DEF AnswersOK
<1>23. CASE UNCHANGED vars
  BY <1>23 DEF vars
<1> QED
  BY
    <1>1, <1>2, <1>3, <1>4, <1>5, <1>6, <1>7, <1>8, <1>9, <1>10, <1>11, <1>12,
    <1>13, <1>14, <1>15, <1>16, <1>17, <1>18, <1>19, <1>20, <1>21, <1>22, <1>23
    DEF Next, TrackerStep

\* A flush that was served is not served again.
THEOREM AnsweredOnce == Spec => AnsweredNotServedAgain
<1>1. Spec => [][NothingServedAgain]_vars
  BY NotServedAgain, AnswersHonest, Typed, PTL DEF Spec
<1> QED BY <1>1 DEF AnsweredNotServedAgain, NothingServedAgain
-----------------------------------------------------------------------------
(* A replaced tracker leaves the running turn to its successor.             *)

\* What a tracker has been told decides what it may have recorded.  Told nothing
\* (or only heard in its loop), it is not on its way out but for an update; told
\* of its replacement alone, it finds the marker naming it as long as it lives.
TurnKept == \A t \in Trackers :
    /\ told[t] # {} => pc[t] # "unused"
    /\ told[t] \subseteq {"heard"} =>
         /\ final[t] = "nothing" /\ pc[t] \notin {"final", "closing"}
         /\ ~stop[t].explicit /\ (stop[t].event => stop[t].restart)
    /\ told[t] \subseteq {"replaced", "heard"} =>
         /\ final[t] # "everything"
         /\ "replaced" \in told[t] /\ Alive(t) => replacing = t

\* No tracker comes back to life, or gets onto its way out, from `pc` to `at`.
Onward(at) ==
    \A u \in Trackers :
        /\ pc[u] # "unused" => at[u] # "unused"
        /\ pc[u] = "dead" => at[u] = "dead"
        /\ at[u] \in {"final", "closing"} => pc[u] \in {"final", "closing"}

\* A step that tells no tracker anything keeps the turns.
LEMMA QuietStep ==
    ASSUME TurnKept, UNCHANGED <<replacing, stop, told, final>>, Onward(pc')
    PROVE  TurnKept'
  BY DEF TurnKept, Alive, Onward

\* A change of the marker keeps the turns: the tracker it leaves, if alive, has it
\* on record.
LEMMA MarkerStep ==
    ASSUME Parts, TurnKept, UNCHANGED <<pc, stop, final>>,
           told' \in [Trackers -> SUBSET Fates],
           \A u \in Trackers : told'[u] = Unmarked[u] \/ told'[u] = Unmarked[u] \cup {"outlived"},
           \A u \in Trackers : told'[u] # Unmarked[u] => Alive(u)
    PROVE  TurnKept'
<1> SUFFICES ASSUME NEW u \in Trackers
             PROVE  /\ told'[u] # {} => pc'[u] # "unused"
                    /\ told'[u] \subseteq {"heard"} =>
                         /\ final'[u] = "nothing" /\ pc'[u] \notin {"final", "closing"}
                         /\ ~stop'[u].explicit /\ (stop'[u].event => stop'[u].restart)
                    /\ told'[u] \subseteq {"replaced", "heard"} =>
                         /\ final'[u] # "everything"
                         /\ "replaced" \in told'[u] /\ Alive(u)' => replacing' = u
  BY DEF TurnKept
<1>1. Alive(u)' = Alive(u)
  BY DEF Alive
<1>2. CASE "outlived" \in told'[u] \/ "unmarked" \in told'[u]
  <2>1. Alive(u) \/ told[u] # {}
    BY <1>2 DEF Unmarked
  <2>2. pc[u] # "unused"
    BY <2>1 DEF Alive, TurnKept
  <2> QED BY <1>2, <2>2
<1>3. CASE "outlived" \notin told'[u] /\ "unmarked" \notin told'[u]
  <2>1. told'[u] = told[u] /\ ~(u = replacing /\ replacing' # u /\ Alive(u))
    BY <1>3 DEF Unmarked
  <2> QED BY <1>1, <2>1 DEF TurnKept
<1> QED BY <1>2, <1>3

\* A signal keeps the turns: it tells the tracker more than its replacement, or the
\* marker names it from that step on.
LEMMA SignalKeepsTurn ==
    ASSUME Parts, TurnKept, NEW t \in Trackers, Alive(t),
           NEW why \in {"replaced", "abandoned", "stopped"},
           why = "replaced" => replacing' = t, why # "replaced" => replacing' = replacing,
           NEW at \in [Trackers -> States], Onward(at), Signal(t, why, at)
    PROVE  TurnKept'
<1>1. /\ UNCHANGED final
      /\ \A u \in Trackers : u # t => told'[u] = Unmarked[u]
      /\ told'[t] = Unmarked[t] \cup {why} \cup (IF pc[t] \in Looping THEN {"heard"} ELSE {})
      /\ \A u \in Trackers : u # t => pc'[u] = at[u] /\ stop'[u] = stop[u]
      /\ pc'[t] \in {at[t], "dead"}
  BY DEF Signal, Unmarked, Parts, TrackerOK
<1> SUFFICES ASSUME NEW u \in Trackers
             PROVE  /\ told'[u] # {} => pc'[u] # "unused"
                    /\ told'[u] \subseteq {"heard"} =>
                         /\ final'[u] = "nothing" /\ pc'[u] \notin {"final", "closing"}
                         /\ ~stop'[u].explicit /\ (stop'[u].event => stop'[u].restart)
                    /\ told'[u] \subseteq {"replaced", "heard"} =>
                         /\ final'[u] # "everything"
                         /\ "replaced" \in told'[u] /\ Alive(u)' => replacing' = u
  BY DEF TurnKept
<1>2. CASE u = t
  <2>1. pc'[u] # "unused"
    BY <1>1, <1>2 DEF Alive, Onward
  <2>2. told[u] \subseteq told'[u] /\ why \in told'[u]
    BY <1>1, <1>2, UnmarkedGrows
  <2>3. ASSUME told'[u] \subseteq {"replaced", "heard"} PROVE final'[u] # "everything" /\ replacing' = u
    BY <1>1, <1>2, <2>2, <2>3 DEF TurnKept
  <2> QED BY <2>1, <2>2, <2>3
<1>3. CASE u # t /\ u = replacing /\ replacing' # u /\ Alive(u)
  <2>1. "unmarked" \in told'[u]
    BY <1>1, <1>3 DEF Unmarked
  <2>2. pc'[u] # "unused"
    BY <1>1, <1>3 DEF Alive, Onward
  <2> QED BY <2>1, <2>2
<1>4. CASE u # t /\ ~(u = replacing /\ replacing' # u /\ Alive(u))
  <2>1. told'[u] = told[u] /\ pc'[u] = at[u] /\ stop'[u] = stop[u] /\ final'[u] = final[u]
    BY <1>1, <1>4 DEF Unmarked
  <2>2. Alive(u)' /\ told[u] # {} => Alive(u)
    BY <2>1 DEF Alive, Onward, TurnKept
  <2> QED BY <1>4, <2>1, <2>2 DEF TurnKept, Onward
<1> QED BY <1>2, <1>3, <1>4

\* Every step keeps the turns.
LEMMA KeptStep == Parts /\ TurnKept /\ [Next]_vars => TurnKept'
<1> SUFFICES ASSUME Parts, TurnKept, [Next]_vars PROVE TurnKept'
  OBVIOUS
<1> USE PidsAssumption DEF files, tracker, command, history
<1>t. /\ pc \in [Trackers -> States] /\ told \in [Trackers -> SUBSET Fates]
      /\ stop \in [Trackers -> [event : BOOLEAN, explicit : BOOLEAN, restart : BOOLEAN]]
      /\ final \in [Trackers -> {"nothing", "finished", "everything"}]
  BY DEF Parts, TrackerOK, HistoryOK
<1>1. ASSUME NEW t \in Trackers,
             \/ Boot(t) \/ BootRefused(t) \/ Arm(t) \/ InstallSignalHandlers(t)
             \/ BeginFlush(t) \/ EndFlush(t) \/ Close(t) \/ HandOver(t)
             \/ ReplacementCameUp(t) \/ ReplacementFailed(t) \/ ReclaimRefused(t)
      PROVE  TurnKept'
  <2>1. UNCHANGED <<replacing, stop, told, final>>
    BY <1>1 DEF Boot, BootRefused, Arm, InstallSignalHandlers, BeginFlush, EndFlush, Close, HandOver,
       RemoveTraces, ReplacementCameUp, ReplacementFailed, ReclaimRefused
  <2>2. CASE HandOver(t)
    BY <1>t, <2>1, <2>2, QuietStep DEF HandOver, IsNewPid, Unborn, Onward
  <2>3. CASE Close(t)
    BY <1>t, <2>1, <2>3, QuietStep DEF Close, Onward
  <2>4. CASE ~HandOver(t) /\ ~Close(t)
    <3>1. \E s \in {"dead", "setup", "armed", "serving", "flushing", "abandon"} :
             pc' = [pc EXCEPT ![t] = s] /\ pc[t] \notin {"unused", "dead"}
      BY <1>1, <2>4 DEF Boot, BootRefused, Arm, InstallSignalHandlers, BeginFlush, EndFlush,
         ReplacementCameUp, ReplacementFailed, ReclaimRefused
    <3> QED BY <1>t, <2>1, <3>1, QuietStep DEF Onward
  <2> QED BY <2>2, <2>3, <2>4
<1>2. ASSUME NEW t \in Trackers, UpdateSeen(t) PROVE TurnKept'
  BY <1>t, <1>2 DEF UpdateSeen, TurnKept, Alive
<1>3. ASSUME NEW t \in Trackers, LeaveLoop(t) PROVE TurnKept'
  BY <1>t, <1>3 DEF LeaveLoop, TurnKept, Alive
<1>4. ASSUME NEW t \in Trackers, FinalRecord(t) PROVE TurnKept'
  <2>1. told[t] \subseteq {"replaced", "heard"} => replacing = t
    BY <1>4 DEF FinalRecord, TurnKept, Alive
  <2>2. ~(told[t] \subseteq {"heard"})
    BY <1>4 DEF FinalRecord, TurnKept
  <2> QED BY <1>t, <1>4, <2>1, <2>2 DEF FinalRecord, TurnKept, Alive
<1>5. ASSUME NEW t \in Trackers, AbandonReplacement(t) PROVE TurnKept'
  <2> DEFINE next == [pc EXCEPT ![t] = "reclaim"]
  <2>1. next \in [Trackers -> States] /\ Onward(next)
    BY <1>t, <1>5 DEF AbandonReplacement, States, Onward
  <2>2. CASE Alive(child[t])
    <3>1. child[t] \in Trackers /\ Signal(child[t], "abandoned", next) /\ replacing' = replacing
      BY <1>5, <2>2 DEF AbandonReplacement, Alive
    <3> HIDE DEF next
    <3> QED BY <2>1, <2>2, <3>1, SignalKeepsTurn
  <2>3. CASE ~Alive(child[t])
    BY <1>5, <2>1, <2>3, QuietStep DEF AbandonReplacement
  <2> QED BY <2>2, <2>3
<1>6. ASSUME NEW t \in Trackers, Reclaim(t) PROVE TurnKept'
  <2>1. /\ UNCHANGED <<replacing, final>> /\ pc' = [pc EXCEPT ![t] = "serving"] /\ pc[t] = "reclaim"
        /\ told' = [told EXCEPT ![t] = @ \cup {"resumed"}]
        /\ \A u \in Trackers : u # t => stop'[u] = stop[u]
    BY <1>t, <1>6 DEF Reclaim, Resume
  <2> QED BY <1>t, <2>1 DEF TurnKept, Alive
<1>7. ASSUME NEW t \in Trackers, Crash(t) PROVE TurnKept'
  BY <1>t, <1>7 DEF Crash, TurnKept, Alive
<1>8. ASSUME NEW c \in Cmds, Replace(c, "evicting") \/ Replace(c, "swapping"), Live(c) PROVE TurnKept'
  <2>1. /\ seen[c] \in Trackers /\ Alive(seen[c]) /\ replacing' = seen[c]
        /\ Signal(seen[c], "replaced", pc)
    BY <1>8 DEF Live, Alive, Replace
  <2>2. Onward(pc)
    BY DEF Onward
  <2> QED BY <1>t, <2>1, <2>2, SignalKeepsTurn
<1>9. ASSUME NEW c \in Cmds, FaceOwner(c) PROVE TurnKept'
  <2>1. CASE UNCHANGED <<replacing, tracker, history>>
    BY <2>1, QuietStep DEF Onward
  <2>2. CASE ~UNCHANGED <<replacing, tracker, history>>
    BY <1>8, <1>9, <2>2 DEF FaceOwner
  <2> QED BY <2>1, <2>2
<1>10. ASSUME NEW c \in Cmds, Decide(c) PROVE TurnKept'
  <2>1. CASE UNCHANGED <<replacing, tracker, history>>
    BY <2>1, QuietStep DEF Onward
  <2>2. CASE ~UNCHANGED <<replacing, tracker, history>>
    BY <1>8, <1>10, <2>2 DEF Decide
  <2> QED BY <2>1, <2>2
<1>11. ASSUME NEW c \in Cmds, Terminated(c) PROVE TurnKept'
  <2>1. told' = Unmarked /\ UNCHANGED tracker /\ UNCHANGED final
    BY <1>11 DEF Terminated
  <2>2. told' \in [Trackers -> SUBSET Fates]
    <3>1. told' = [Unmarked EXCEPT ![c] = @ \cup {}]
      BY <2>1 DEF Unmarked
    <3> QED BY <3>1, ToldTypes
  <2> QED BY <2>1, <2>2, MarkerStep
<1>12. ASSUME NEW c \in Cmds, OutlivedWait(c) PROVE TurnKept'
  <2>1. /\ told' = [Unmarked EXCEPT ![seen[c]] = @ \cup {"outlived"}] /\ UNCHANGED tracker
        /\ UNCHANGED final /\ Alive(seen[c])
    BY <1>12 DEF OutlivedWait, Live
  <2>2. told' \in [Trackers -> SUBSET Fates]
    BY <2>1, ToldTypes DEF Fates
  <2>3. Unmarked \in [Trackers -> SUBSET Fates]
    BY ToldTypes
  <2>4. /\ \A u \in Trackers : u # seen[c] => told'[u] = Unmarked[u]
        /\ told'[seen[c]] = Unmarked[seen[c]] \cup {"outlived"}
    BY <2>1, <2>3 DEF Alive
  <2> QED BY <2>1, <2>2, <2>4, MarkerStep
<1>13. ASSUME NEW c \in Cmds, SpawnTracker(c) PROVE TurnKept'
  BY <1>t, <1>13, QuietStep DEF SpawnTracker, IsNewPid, Unborn, Onward
<1>14. ASSUME NEW c \in Cmds, StopTracker(c) PROVE TurnKept'
  <2>1. CASE Live(c) /\ Signal(seen[c], "stopped", pc) /\ replacing' = replacing
    <3>1. seen[c] \in Trackers /\ Alive(seen[c]) /\ Onward(pc)
      BY <2>1 DEF Live, Alive, Onward
    <3> QED BY <1>t, <2>1, <3>1, SignalKeepsTurn
  <2>2. CASE UNCHANGED <<replacing, tracker, history>>
    BY <2>2, QuietStep DEF Onward
  <2> QED BY <1>14, <2>1, <2>2 DEF StopTracker
<1>15. ASSUME NEW c \in Cmds, CommandStep(c)
       PROVE  \/ FaceOwner(c) \/ Decide(c) \/ Terminated(c) \/ OutlivedWait(c)
              \/ SpawnTracker(c) \/ StopTracker(c) \/ UNCHANGED <<replacing, tracker, history>>
  <2>1. CASE GaveUp(c)
    BY <2>1, Zenon DEF GaveUp
  <2>2. CASE ~GaveUp(c)
    BY <1>15, <2>2 DEF CommandStep, Look, StartBegin, Relock, Launch, EndStop, Waited, StopBegin,
       Disarm, CommitBegin, CommitRecord, CheckStop, LookForTracker, Probe, Probed, AskForFlush,
       Answered
  <2> QED BY <2>1, <2>2
<1>16. CASE UNCHANGED <<replacing, tracker, history>>
  BY <1>16, QuietStep DEF Onward
<1>17. CASE UNCHANGED vars
  BY <1>16, <1>17 DEF vars
<1> QED
  BY <1>1, <1>2, <1>3, <1>4, <1>5, <1>6, <1>7, <1>9, <1>10, <1>11, <1>12, <1>13, <1>14, <1>15,
     <1>16, <1>17 DEF Next, TrackerStep

\* A tracker replaced in time leaves the turn still running to its successor.
THEOREM ReplacedTurnIsKept == Spec => []ReplacementKeepsTurn
<1>1. Init => TurnKept
  BY PidsAssumption DEF Init, TurnKept, NoStop, Alive
<1>2. Spec => []TurnKept
  BY <1>1, KeptStep, Typed, PTL DEF Spec
<1>3. TurnKept => ReplacementKeepsTurn
  BY DEF TurnKept, ReplacementKeepsTurn
<1> QED BY <1>2, <1>3, PTL

-----------------------------------------------------------------------------
(* The lock is SingleWriter's: ExclusionProofs shows that the lock file     *)
(* gives as much, and here that Tracker relies on no more.                  *)

\* Whoever takes the lock finds it free, in every step.
Owned == INSTANCE SingleWriter WITH Procs <- Trackers \cup Cmds, NoProc <- None, owner <- lock

\* A step takes the lock that is free, gives it up or leaves it alone.
LEMMA OwnerFreed ==
    ASSUME Parts, [Next]_vars
    PROVE  \/ \E p \in Trackers \cup Cmds : lock = None /\ lock' = p
           \/ lock' = None
           \/ lock' = lock
<1> DEFINE Moves == \/ \E p \in Trackers \cup Cmds : lock = None /\ lock' = p
                    \/ lock' = None
                    \/ lock' = lock
<1>1. ASSUME NEW t \in Trackers, TrackerStep(t) PROVE Moves
  BY <1>1 DEF TrackerStep, Boot, BootRefused, Arm, InstallSignalHandlers, BeginFlush, EndFlush,
     UpdateSeen, LeaveLoop, FinalRecord, Close, HandOver, ReplacementCameUp, ReplacementFailed,
     AbandonReplacement, Reclaim, ReclaimRefused, Crash, Signal
<1>2. ASSUME NEW c \in Cmds, CommandStep(c) PROVE Moves
  <2>1. CASE StartBegin(c)
    BY <2>1 DEF StartBegin
  <2>2. CASE FaceOwner(c)
    BY <2>2 DEF FaceOwner, Replace, Signal
  <2>3. CASE Relock(c)
    BY <2>3 DEF Relock
  <2>4. CASE Launch(c)
    BY <2>4 DEF Launch
  <2>5. CASE Decide(c)
    BY <2>5 DEF Decide, Replace, Signal
  <2>6. CASE Terminated(c)
    BY <2>6 DEF Terminated, Signal
  <2>7. CASE OutlivedWait(c)
    BY <2>7 DEF OutlivedWait, Signal
  <2>8. CASE SpawnTracker(c)
    BY <2>8 DEF SpawnTracker
  <2>9. CASE StopTracker(c)
    BY <2>9 DEF StopTracker, Signal
  <2>10. CASE CommitBegin(c)
    BY <2>10 DEF CommitBegin
  <2>11. CASE CommitRecord(c)
    BY <2>11 DEF CommitRecord
  <2>12. CASE Probe(c)
    BY <2>12 DEF Probe
  <2>13. CASE Probed(c)
    BY <2>13 DEF Probed
  <2>14. CASE GaveUp(c)
    BY <2>14, Zenon DEF GaveUp
  <2>15. CASE Look(c) \/ EndStop(c) \/ Waited(c) \/ StopBegin(c) \/ Disarm(c)
            \/ CheckStop(c) \/ LookForTracker(c) \/ AskForFlush(c) \/ Answered(c)
    BY <2>15 DEF Look, EndStop, Waited, StopBegin, Disarm, CheckStop, LookForTracker, AskForFlush, Answered
  <2> QED BY <1>2, <2>1, <2>2, <2>3, <2>4, <2>5, <2>6, <2>7, <2>8,
        <2>9, <2>10, <2>11, <2>12, <2>13, <2>14, <2>15 DEF CommandStep
<1>3. CASE UNCHANGED vars
  BY <1>3 DEF vars
<1> QED BY <1>1, <1>2, <1>3 DEF Next

\* Every step of the trackers and of the commands is one of SingleWriter, once somebody may
\* have the lock to begin with.
THEOREM TrackersShareTheLock == Spec => [][Owned!Next]_lock
<1>1. Parts /\ [Next]_vars => [Owned!Next]_lock
  <2> SUFFICES ASSUME Parts, [Next]_vars PROVE [Owned!Next]_lock
    OBVIOUS
  <2>1. CASE \E p \in Trackers \cup Cmds : lock = None /\ lock' = p
    BY <2>1, PidsAssumption DEF Owned!Next, Owned!Take
  <2>2. CASE lock' = None
    <3>1. CASE lock = None
      BY <2>2, <3>1
    <3>2. CASE lock # None
      BY <2>2, <3>2 DEF Owned!Next, Owned!Give
    <3> QED BY <3>1, <3>2
  <2>3. CASE lock' = lock
    BY <2>3
  <2> QED BY <2>1, <2>2, <2>3, OwnerFreed
<1> QED BY <1>1, Typed, PTL DEF Spec
=============================================================================
