------------------------------ MODULE Tracker ------------------------------
(***************************************************************************)
(* The life of the background tracker (proxy/background.py): processes     *)
(* that boot, take the single-writer lock, publish a handshake, serve the  *)
(* flush requests of commits, hand over to a replacement after an update   *)
(* and tear down; and the short-lived commands that act on them: a start   *)
(* (`agitrack -b`), a stop, the pre-commit hook and an agent-session hook. *)
(* The lock is its abstract owner (SingleWriter); every file under         *)
(* `.agitrack/` that the processes share is a variable of its own.         *)
(***************************************************************************)
EXTENDS Naturals, FiniteSets

CONSTANTS
    Trackers,    \* the pids trackers get, in the order they are spawned
    Cmds,        \* one command each: its pid is also its flush nonce
    None,
    MaxUpdates,  \* BOUND: new versions that appear on disk
    MaxCrashes   \* BOUND: trackers killed without teardown

ASSUME PidsAssumption ==
    /\ Trackers \subseteq Nat
    /\ Cmds \cap Nat = {}
    /\ None \notin Nat \cup Cmds
    /\ MaxUpdates \in Nat /\ MaxCrashes \in Nat

VARIABLES
    lock,       \* owner of `.agitrack/lock`
    handshake,  \* pid in background.json
    replacing,  \* pid in tracker-replacing
    gap,        \* the user's stop stands (stopped_at after resumed_at)
    armed,      \* the pre-commit hook that asks for a flush is installed
    folds,      \* the fold hooks are installed
    request, started, done,  \* nonces in flush-request, flush-started, flush-done
    pc,         \* where each tracker is
    stop,       \* [Trackers -> [event, explicit, restart]]: _stop, _explicit_stop, _restart_cmd
    child,      \* the replacement a tracker has spawned
    nonce,      \* [Trackers -> [last, now]]: _last_flush_nonce, and the one being served
    kind, cpc,  \* what each command is, and where
    seen,       \* the pid a command has read or acts on
    reply,      \* what a command reports
    budget,     \* updates and crashes left
    recorded,   \* history: nonces of the flushes recorded to their end
    raised,     \* history: nonces of the flushes whose recording raised
    told,       \* history: [Trackers -> the signals sent to it, the waits it outlived, ...]
    final       \* history: what each tracker's teardown recorded

files == <<handshake, replacing, gap, armed, folds>>
flush == <<request, started, done>>
tracker == <<pc, stop, child, nonce>>
command == <<kind, cpc, seen, reply>>
history == <<recorded, raised, told, final>>
vars == <<lock, files, flush, tracker, command, budget, history>>

Deaf == {"boot", "setup", "armed"}                    \* before the signal handlers
Looping == {"serving", "flushing"}
Writers == {"setup", "armed", "handing", "final", "closing"} \cup Looping
States == {"unused", "dead", "boot", "verify", "abandon", "reclaim"} \cup Writers
Kinds == {"start", "stop", "commit", "agent"}
CmdStates == {"idle", "facing", "faced", "evicting", "relock", "launching", "starting",
              "beginning", "deciding", "swapping", "spawning", "waiting", "stopping", "telling",
              "ending", "disarming", "recording", "checking", "looking", "looked", "calling",
              "called", "asking", "probing", "probed", "over"}

NoStop == [event |-> FALSE, explicit |-> FALSE, restart |-> FALSE]

\* The repository as the commands find it: nothing running, or a tracker that
\* serves; in either case a stop may stand (a stop can fail to reach a tracker).
Init ==
    /\ lock \in {None} \cup {t \in Trackers : \A u \in Trackers : t <= u}
    /\ handshake = lock /\ replacing = None
    /\ gap \in BOOLEAN /\ armed \in BOOLEAN /\ folds = (lock # None)
    /\ lock # None => armed
    /\ request = None /\ started = None /\ done = None
    /\ pc = [t \in Trackers |-> IF t = lock THEN "serving" ELSE "unused"]
    /\ stop = [t \in Trackers |-> NoStop]
    /\ child = [t \in Trackers |-> None]
    /\ nonce = [t \in Trackers |-> [last |-> None, now |-> None]]
    /\ kind \in [Cmds -> Kinds] /\ cpc = [c \in Cmds |-> "idle"]
    /\ seen = [c \in Cmds |-> None] /\ reply = [c \in Cmds |-> None]
    /\ budget = [updates |-> MaxUpdates, crashes |-> MaxCrashes]
    /\ recorded = {} /\ raised = {} /\ told = [t \in Trackers |-> {}] /\ final = [t \in Trackers |-> "nothing"]

Alive(t) == t \in Trackers /\ pc[t] \notin {"unused", "dead"}

\* A new process gets a pid nobody had.
Unborn == {t \in Trackers : pc[t] = "unused"}
IsNewPid(t) == t \in Unborn /\ \A u \in Unborn : t <= u

\* History: the marker a tracker was to find is another's now, or gone.
Unmarked ==
    [t \in Trackers |->
        IF t = replacing /\ replacing' # t /\ Alive(t) THEN told[t] \cup {"unmarked"} ELSE told[t]]

\* SIGTERM: before the handlers are installed the process dies on the spot.
Signal(t, why, at) ==
    /\ told' = [Unmarked EXCEPT ![t] = @ \cup {why} \cup (IF pc[t] \in Looping THEN {"heard"} ELSE {})]
    /\ IF pc[t] \in Deaf
       THEN /\ pc' = [at EXCEPT ![t] = "dead"]
            /\ lock' = IF lock = t THEN None ELSE lock
            /\ UNCHANGED stop
       ELSE /\ stop' = [stop EXCEPT ![t].event = TRUE, ![t].explicit = TRUE]
            /\ pc' = at
            /\ UNCHANGED lock
    /\ UNCHANGED <<child, nonce, recorded, raised, final>>

-----------------------------------------------------------------------------
(* The tracker process.                                                    *)

\* The daemon child asks for the lock, retrying for five seconds ...
Boot(t) ==
    /\ pc[t] = "boot" /\ lock = None
    /\ lock' = t
    /\ pc' = [pc EXCEPT ![t] = "setup"]
    /\ UNCHANGED <<files, flush, stop, child, nonce, command, budget, history>>

\* ... and gives up while somebody else has it.
BootRefused(t) ==
    /\ pc[t] = "boot" /\ lock # None
    /\ pc' = [pc EXCEPT ![t] = "dead"]
    /\ UNCHANGED <<lock, files, flush, stop, child, nonce, command, budget, history>>

\* Fault: a starting tracker takes whatever request lies on disk for new.
FaultNothingAnswered == {None}

\* The request on disk that a starting tracker takes for settled: answered, or
\* older than the hook's first wait (a request a predecessor began on may be either).
AlreadyAnswered ==
    IF request = None THEN {None}
    ELSE IF done = request \/ cpc[request] # "asking" THEN {request}
    ELSE IF started = request THEN {request, None}
    ELSE {None}

\* Hooks first, handshake last.
Arm(t) ==
    /\ pc[t] = "setup"
    /\ folds' = TRUE /\ armed' = TRUE
    /\ handshake' = t
    /\ \E n \in AlreadyAnswered : nonce' = [nonce EXCEPT ![t].last = n]
    /\ pc' = [pc EXCEPT ![t] = "armed"]
    /\ UNCHANGED <<lock, replacing, gap, flush, stop, child, command, budget, history>>

InstallSignalHandlers(t) ==
    /\ pc[t] = "armed"
    /\ pc' = [pc EXCEPT ![t] = "serving"]
    /\ UNCHANGED <<lock, files, flush, stop, child, nonce, command, budget, history>>

\* _service_flush_requests, up to the recording ...
BeginFlush(t) ==
    /\ pc[t] = "serving" /\ ~stop[t].event
    /\ request \notin {None, nonce[t].last}
    /\ started' = request
    /\ nonce' = [nonce EXCEPT ![t].now = request]
    /\ pc' = [pc EXCEPT ![t] = "flushing"]
    /\ UNCHANGED <<lock, files, request, done, stop, child, command, budget, history>>

\* What becomes of the recording: an exception in it is swallowed.
FlushOutcome(n) ==
    \/ recorded' = recorded \cup {n} /\ UNCHANGED raised
    \/ raised' = raised \cup {n} /\ UNCHANGED recorded

\* Fault: the nonce on disk is echoed, not the one that was read.
FaultEchoDisk(t) ==
    /\ pc[t] = "flushing"
    /\ done' = request
    /\ nonce' = [nonce EXCEPT ![t] = [last |-> @.now, now |-> None]]
    /\ FlushOutcome(nonce[t].now)
    /\ pc' = [pc EXCEPT ![t] = "serving"]
    /\ UNCHANGED <<lock, files, request, started, stop, child, command, budget, told, final>>

\* ... and from its end: the nonce that was READ is echoed, whatever has been
\* asked meanwhile and whether or not the recording raised.
EndFlush(t) ==
    /\ pc[t] = "flushing"
    /\ done' = nonce[t].now
    /\ nonce' = [nonce EXCEPT ![t] = [last |-> @.now, now |-> None]]
    /\ FlushOutcome(nonce[t].now)
    /\ pc' = [pc EXCEPT ![t] = "serving"]
    /\ UNCHANGED <<lock, files, request, started, stop, child, command, budget, told, final>>

\* The watch thread sees another version on disk.
UpdateSeen(t) ==
    /\ pc[t] \in Looping /\ ~stop[t].restart /\ budget.updates > 0
    /\ budget' = [budget EXCEPT !.updates = @ - 1]
    /\ stop' = [stop EXCEPT ![t].event = TRUE, ![t].restart = TRUE]
    /\ UNCHANGED <<lock, files, flush, pc, child, nonce, command, history>>

\* Fault: an update that is pending wins over a stop.
FaultUpdateWins(t) ==
    /\ pc[t] = "serving" /\ stop[t].event
    /\ pc' = [pc EXCEPT ![t] = IF stop[t].restart THEN "handing" ELSE "final"]
    /\ UNCHANGED <<lock, files, flush, stop, child, nonce, command, budget, history>>

\* The poll loop ends; an explicit stop overrides a pending restart.
LeaveLoop(t) ==
    /\ pc[t] = "serving" /\ stop[t].event
    /\ pc' = [pc EXCEPT ![t] =
                IF stop[t].restart /\ ~stop[t].explicit THEN "handing" ELSE "final"]
    /\ UNCHANGED <<lock, files, flush, stop, child, nonce, command, budget, history>>

\* _teardown records the last turns: one still running only when no successor
\* was announced.
FinalRecord(t) ==
    /\ pc[t] = "final"
    /\ final' = [final EXCEPT ![t] = IF replacing = t THEN "finished" ELSE "everything"]
    /\ pc' = [pc EXCEPT ![t] = "closing"]
    /\ UNCHANGED <<lock, files, flush, stop, child, nonce, command, budget, recorded, raised, told>>

\* A tracker's teardown: fold hooks, and the handshake if it is its own.
RemoveTraces(t) ==
    /\ folds' = FALSE
    /\ handshake' = IF handshake = t THEN None ELSE handshake
    /\ UNCHANGED <<replacing, gap, armed>>

\* Fault: the lock is given up before the hooks are taken down.
FaultReleaseEarly(t) ==
    \/ /\ pc[t] = "closing" /\ lock = t /\ lock' = None
       /\ UNCHANGED <<files, flush, tracker, command, budget, history>>
    \/ /\ pc[t] = "closing" /\ lock # t
       /\ RemoveTraces(t)
       /\ pc' = [pc EXCEPT ![t] = "dead"]
       /\ UNCHANGED <<lock, flush, stop, child, nonce, command, budget, history>>

Close(t) ==
    /\ pc[t] = "closing"
    /\ RemoveTraces(t)
    /\ pc' = [pc EXCEPT ![t] = "dead"]
    /\ lock' = None
    /\ UNCHANGED <<flush, stop, child, nonce, command, budget, history>>

\* An update restart: torn down without recording a running turn, then the
\* lock is released and the replacement spawned - unless a stop came in.
HandOver(t) ==
    /\ pc[t] = "handing"
    /\ RemoveTraces(t)
    /\ lock' = None
    /\ IF stop[t].explicit
       THEN pc' = [pc EXCEPT ![t] = "dead"] /\ UNCHANGED child
       ELSE \E new \in Trackers :
            /\ IsNewPid(new)
            /\ pc' = [pc EXCEPT ![t] = "verify", ![new] = "boot"]
            /\ child' = [child EXCEPT ![t] = new]
    /\ UNCHANGED <<flush, stop, nonce, command, budget, history>>

\* The replacement proved it is up: os._exit(0).
ReplacementCameUp(t) ==
    /\ pc[t] = "verify" /\ handshake = child[t]
    /\ pc' = [pc EXCEPT ![t] = "dead"]
    /\ UNCHANGED <<lock, files, flush, stop, child, nonce, command, budget, history>>

\* It died, or the wait is over.
ReplacementFailed(t) ==
    /\ pc[t] = "verify" /\ handshake # child[t]
    /\ pc' = [pc EXCEPT ![t] = "abandon"]
    /\ UNCHANGED <<lock, files, flush, stop, child, nonce, command, budget, history>>

AbandonReplacement(t) ==
    /\ pc[t] = "abandon" /\ UNCHANGED files
    /\ LET next == [pc EXCEPT ![t] = "reclaim"]
       IN IF Alive(child[t]) THEN Signal(child[t], "abandoned", next)
          ELSE pc' = next /\ UNCHANGED <<lock, stop, child, nonce, history>>
    /\ UNCHANGED <<flush, command, budget>>

\* Going back to tracking: hooks, then the handshake.  The stop event is
\* cleared whoever set it.
Resume(t) ==
    /\ stop' = [stop EXCEPT ![t].event = FALSE, ![t].restart = FALSE]
    /\ folds' = TRUE /\ armed' = TRUE /\ handshake' = t
    /\ child' = [child EXCEPT ![t] = None]
    /\ pc' = [pc EXCEPT ![t] = "serving"]
    /\ told' = [told EXCEPT ![t] = @ \cup {"resumed"}]
    /\ UNCHANGED <<replacing, gap, flush, nonce, command, budget, recorded, raised, final>>

\* Fault: the tracker goes back to tracking without its lock.
FaultReclaimUnlocked(t) ==
    /\ pc[t] = "reclaim"
    /\ UNCHANGED lock
    /\ Resume(t)

\* The lock has to come back first ...
Reclaim(t) ==
    /\ pc[t] = "reclaim" /\ lock = None
    /\ lock' = t
    /\ Resume(t)

\* ... and if it does not within five seconds this process ends.
ReclaimRefused(t) ==
    /\ pc[t] = "reclaim" /\ lock # None
    /\ pc' = [pc EXCEPT ![t] = "dead"]
    /\ UNCHANGED <<lock, files, flush, stop, child, nonce, command, budget, history>>

\* The process is killed: the kernel drops its lock, its files stay.
Crash(t) ==
    /\ Alive(t) /\ budget.crashes > 0
    /\ budget' = [budget EXCEPT !.crashes = @ - 1]
    /\ pc' = [pc EXCEPT ![t] = "dead"]
    /\ lock' = IF lock = t THEN None ELSE lock
    /\ told' = [told EXCEPT ![t] = @ \cup {"killed"}]
    /\ UNCHANGED <<files, flush, stop, child, nonce, command, recorded, raised, final>>

TrackerStep(t) ==
    \/ Boot(t) \/ BootRefused(t) \/ Arm(t) \/ InstallSignalHandlers(t)
    \/ BeginFlush(t) \/ EndFlush(t) \/ UpdateSeen(t) \/ LeaveLoop(t)
    \/ FinalRecord(t) \/ Close(t) \/ HandOver(t) \/ ReplacementCameUp(t)
    \/ ReplacementFailed(t) \/ AbandonReplacement(t) \/ Reclaim(t)
    \/ ReclaimRefused(t) \/ Crash(t)

-----------------------------------------------------------------------------
(* The commands.  Each reads the handshake in one step (_live_background_pid) *)
(* and acts on the pid it saw in the next: a pid that is no longer alive       *)
(* makes it unlink the file, whatever the file says by then.                   *)

Live(c) == Alive(seen[c])
At(c, state) == cpc' = [cpc EXCEPT ![c] = state]
GoTo(c, state) == At(c, state) /\ UNCHANGED <<seen, reply>>
Finish(c, report) ==
    /\ At(c, "over")
    /\ reply' = [reply EXCEPT ![c] = report]
    /\ seen' = [seen EXCEPT ![c] = None]

\* Where a look at the handshake leads.
Sight == [facing |-> "faced", beginning |-> "deciding", stopping |-> "telling",
          calling |-> "called", looking |-> "looked"]

\* A start that found the lock owned takes no other tracker than the owner, if it knows it.
Found(c) ==
    IF cpc[c] = "facing" /\ seen[c] \notin {None, handshake} /\ Alive(handshake) THEN None
    ELSE handshake

Look(c) ==
    /\ cpc[c] \in DOMAIN Sight
    /\ seen' = [seen EXCEPT ![c] = Found(c)]
    /\ At(c, Sight[cpc[c]])
    /\ UNCHANGED <<lock, files, flush, tracker, kind, reply, budget, history>>

\* The handshake after a look that found `seen[c]` dead.
Swept(c) == IF seen[c] # None /\ ~Live(c) THEN None ELSE handshake

\* `agitrack -b` asks for the lock once (cli.py): free, or the record names its owner,
\* unless that has not written it yet.
StartBegin(c) ==
    /\ cpc[c] = "idle" /\ kind[c] = "start"
    /\ IF lock = None THEN lock' = c /\ GoTo(c, "launching")
       ELSE /\ UNCHANGED <<lock, reply>> /\ At(c, "facing")
            /\ \E owner \in {lock, None} : seen' = [seen EXCEPT ![c] = owner]
    /\ UNCHANGED <<files, flush, tracker, kind, budget, history>>

\* Fault: the SIGTERM goes out and no marker is written.
FaultNoMarker(c, next) ==
    /\ UNCHANGED files
    /\ Signal(seen[c], "replaced", pc)
    /\ GoTo(c, next)

\* _terminate_and_wait(replacing=...): the marker names the tracker that is to
\* leave a running turn alone, then SIGTERM.
Replace(c, next) ==
    /\ replacing' = seen[c]
    /\ Signal(seen[c], "replaced", pc)
    /\ GoTo(c, next)
    /\ UNCHANGED <<handshake, gap, armed, folds>>

\* The lock is owned: by a tracker that is current (left in place, the stop
\* record untouched), by one to replace, or by somebody else (refused).
FaceOwner(c) ==
    /\ cpc[c] = "faced"
    /\ \/ /\ Live(c)
          /\ \/ Finish(c, "left") /\ UNCHANGED <<lock, files, tracker, history>>
             \/ Replace(c, "evicting")
       \/ /\ ~Live(c)
          /\ handshake' = Swept(c)
          /\ Finish(c, "refused")
          /\ UNCHANGED <<lock, replacing, gap, armed, folds, tracker, history>>
    /\ UNCHANGED <<flush, kind, budget>>

\* The evicted tracker is gone: ask for the lock again, for three seconds.
Relock(c) ==
    /\ cpc[c] = "relock"
    /\ IF lock = None THEN lock' = c /\ GoTo(c, "launching")
       ELSE Finish(c, "lost") /\ UNCHANGED lock
    /\ UNCHANGED <<files, flush, tracker, kind, budget, history>>

\* The launcher releases its lock for the child ...
Launch(c) ==
    /\ cpc[c] = "launching"
    /\ lock' = None
    /\ GoTo(c, "starting")
    /\ UNCHANGED <<files, flush, tracker, kind, budget, history>>

\* ... and ends the user's stop.
EndStop(c) ==
    /\ cpc[c] = "starting"
    /\ gap' = FALSE
    /\ GoTo(c, "beginning")
    /\ UNCHANGED <<lock, handshake, replacing, armed, folds, flush, tracker, kind,
                   budget, history>>

\* start_background_daemon over whatever tracker lives by now.
Decide(c) ==
    /\ cpc[c] = "deciding"
    /\ \/ /\ Live(c)
          /\ \/ Finish(c, "left") /\ UNCHANGED <<lock, files, tracker, history>>
             \/ Replace(c, "swapping")
       \/ /\ ~Live(c)
          /\ handshake' = Swept(c)
          /\ GoTo(c, "spawning")
          /\ UNCHANGED <<lock, replacing, gap, armed, folds, tracker, history>>
    /\ UNCHANGED <<flush, kind, budget>>

\* The awaited process is gone; a start unlinks its marker.
Terminated(c) ==
    /\ ~Live(c)
    /\ \/ cpc[c] = "ending" /\ GoTo(c, "disarming") /\ UNCHANGED replacing
       \/ cpc[c] = "evicting" /\ GoTo(c, "relock") /\ replacing' = None
       \/ cpc[c] = "swapping" /\ GoTo(c, "spawning") /\ replacing' = None
    /\ told' = Unmarked
    /\ UNCHANGED <<lock, handshake, gap, armed, folds, flush, tracker, kind,
                   budget, recorded, raised, final>>

\* It outlives the ten seconds: the marker goes all the same and the command
\* fails; `agitrack stop`, unlike `agitrack -b stop`, still disarms.
OutlivedWait(c) ==
    /\ cpc[c] \in {"ending", "evicting", "swapping"} /\ Live(c)
    /\ replacing' = IF kind[c] = "start" THEN None ELSE replacing
    /\ told' = [Unmarked EXCEPT ![seen[c]] = @ \cup {"outlived"}]
    /\ \/ Finish(c, "survived")
       \/ kind[c] = "stop" /\ GoTo(c, "disarming")
    /\ UNCHANGED <<lock, handshake, gap, armed, folds, flush, tracker, kind, budget,
                   recorded, raised, final>>

\* spawn_background_daemon: only a start waits to see its child's handshake.
SpawnTracker(c) ==
    /\ cpc[c] = "spawning"
    /\ \E new \in Trackers :
        /\ IsNewPid(new)
        /\ pc' = [pc EXCEPT ![new] = "boot"]
        /\ seen' = [seen EXCEPT ![c] = IF kind[c] = "start" THEN new ELSE None]
    /\ At(c, IF kind[c] = "start" THEN "waiting" ELSE "over")
    /\ UNCHANGED <<lock, files, flush, stop, child, nonce, kind, reply, budget, history>>

\* wait_for_handshake: the child is up, dead, or still starting.
Waited(c) ==
    /\ cpc[c] = "waiting"
    /\ Finish(c, IF handshake = seen[c] THEN "live" ELSE IF Live(c) THEN "starting" ELSE "died")
    /\ UNCHANGED <<lock, files, flush, tracker, kind, budget, history>>

\* `agitrack stop` marks the stop before it looks, `agitrack -b stop` right after.
StopBegin(c) ==
    /\ cpc[c] = "idle" /\ kind[c] = "stop"
    /\ gap' \in {gap, TRUE}
    /\ GoTo(c, "stopping")
    /\ UNCHANGED <<lock, handshake, replacing, armed, folds, flush, tracker, kind,
                   budget, history>>

\* stop_background: marked first, then a live tracker is told to go.
StopTracker(c) ==
    /\ cpc[c] = "telling"
    /\ gap' = TRUE /\ UNCHANGED replacing
    /\ \/ /\ Live(c)
          /\ Signal(seen[c], "stopped", pc)
          /\ GoTo(c, "ending")
          /\ UNCHANGED handshake
       \/ /\ ~Live(c)
          /\ handshake' = Swept(c)
          /\ GoTo(c, "disarming")
          /\ UNCHANGED <<lock, tracker, history>>
    /\ UNCHANGED <<armed, folds, flush, kind, budget>>

\* _disarm_tracking: the commit hook and the fold hooks.
Disarm(c) ==
    /\ cpc[c] = "disarming"
    /\ armed' = FALSE /\ folds' = FALSE
    /\ Finish(c, "stopped")
    /\ UNCHANGED <<lock, handshake, replacing, gap, flush, tracker, kind, budget, history>>

\* precommit_sync, run by the installed hook: the commit records for itself
\* when nobody holds the lock, and asks for a flush when somebody does.
CommitBegin(c) ==
    /\ cpc[c] = "idle" /\ kind[c] = "commit" /\ armed
    /\ IF lock = None THEN lock' = c /\ GoTo(c, "recording")
       ELSE UNCHANGED lock /\ GoTo(c, "calling")
    /\ UNCHANGED <<files, flush, tracker, kind, budget, history>>

CommitRecord(c) ==
    /\ cpc[c] = "recording"
    /\ folds' = TRUE
    /\ lock' = None
    /\ GoTo(c, "checking")
    /\ UNCHANGED <<handshake, replacing, gap, armed, flush, tracker, kind, budget, history>>

\* Auto-start is refused while the stop stands, and over a live tracker.
CheckStop(c) ==
    /\ \/ cpc[c] = "checking"
       \/ cpc[c] = "idle" /\ kind[c] = "agent"
    /\ IF gap THEN Finish(c, "declined") ELSE GoTo(c, "looking")
    /\ UNCHANGED <<lock, files, flush, tracker, kind, budget, history>>

LookForTracker(c) ==
    /\ cpc[c] = "looked"
    /\ handshake' = Swept(c)
    /\ IF Live(c) THEN Finish(c, "declined")
       ELSE GoTo(c, IF kind[c] = "commit" THEN "spawning" ELSE "probing")
    /\ UNCHANGED <<lock, replacing, gap, armed, folds, flush, tracker, kind, budget, history>>

\* The agent hook's probe takes the lock for a moment.
Probe(c) ==
    /\ cpc[c] = "probing"
    /\ IF lock = None THEN lock' = c /\ GoTo(c, "probed")
       ELSE Finish(c, "declined") /\ UNCHANGED lock
    /\ UNCHANGED <<files, flush, tracker, kind, budget, history>>

Probed(c) ==
    /\ cpc[c] = "probed"
    /\ lock' = None
    /\ GoTo(c, "spawning")
    /\ UNCHANGED <<files, flush, tracker, kind, budget, history>>

\* request_daemon_flush: the nonce goes to disk ...
AskForFlush(c) ==
    /\ cpc[c] = "called"
    /\ handshake' = Swept(c)
    /\ IF Live(c) THEN request' = c /\ GoTo(c, "asking")
       ELSE Finish(c, "alone") /\ UNCHANGED request
    /\ UNCHANGED <<lock, replacing, gap, armed, folds, started, done, tracker, kind,
                   budget, history>>

\* ... and the commit goes on when its own nonce comes back,
Answered(c) ==
    /\ cpc[c] = "asking" /\ done = c
    /\ Finish(c, "answered")
    /\ UNCHANGED <<lock, files, flush, tracker, kind, budget, history>>

\* or when it has waited five seconds (a minute once the tracker has begun).
GaveUp(c) ==
    /\ cpc[c] = "asking" /\ done # c
    /\ Finish(c, "gave up")
    /\ UNCHANGED <<lock, files, flush, tracker, kind, budget, history>>

CommandStep(c) ==
    \/ Look(c) \/ StartBegin(c) \/ FaceOwner(c) \/ Relock(c) \/ Launch(c) \/ EndStop(c) \/ Decide(c)
    \/ Terminated(c) \/ OutlivedWait(c) \/ SpawnTracker(c) \/ Waited(c)
    \/ StopBegin(c) \/ StopTracker(c) \/ Disarm(c)
    \/ CommitBegin(c) \/ CommitRecord(c) \/ CheckStop(c) \/ LookForTracker(c)
    \/ Probe(c) \/ Probed(c) \/ AskForFlush(c) \/ Answered(c) \/ GaveUp(c)

Next ==
    \/ \E t \in Trackers : TrackerStep(t)
    \/ \E c \in Cmds : CommandStep(c)

\* A tracker that can take its next step takes it: a recording, a teardown and
\* the waits of a hand-over are bounded.
Fairness ==
    \A t \in Trackers :
        WF_vars(\/ EndFlush(t) \/ LeaveLoop(t) \/ FinalRecord(t) \/ Close(t) \/ HandOver(t)
                \/ ReplacementCameUp(t) \/ ReplacementFailed(t) \/ AbandonReplacement(t)
                \/ Reclaim(t) \/ ReclaimRefused(t))

Spec == Init /\ [][Next]_vars /\ Fairness

-----------------------------------------------------------------------------
Pids == Trackers \cup {None}
Nonces == Cmds \cup {None}
Reports == {"left", "refused", "lost", "survived", "live", "starting", "died", "stopped",
            "declined", "alone", "answered", "gave up"}
ASSUME ReportsAssumption == None \notin Reports

Fates == {"replaced", "stopped", "abandoned", "outlived", "unmarked", "heard", "resumed", "killed"}

TypeOK ==
    /\ lock \in Trackers \cup Cmds \cup {None}
    /\ handshake \in Pids /\ replacing \in Pids
    /\ gap \in BOOLEAN /\ armed \in BOOLEAN /\ folds \in BOOLEAN
    /\ request \in Nonces /\ started \in Nonces /\ done \in Nonces
    /\ pc \in [Trackers -> States]
    /\ stop \in [Trackers -> [event : BOOLEAN, explicit : BOOLEAN, restart : BOOLEAN]]
    /\ child \in [Trackers -> Pids]
    /\ nonce \in [Trackers -> [last : Nonces, now : Nonces]]
    /\ kind \in [Cmds -> Kinds] /\ cpc \in [Cmds -> CmdStates]
    /\ seen \in [Cmds -> Pids \cup Cmds] /\ reply \in [Cmds -> Reports \cup {None}]
    /\ budget \in [updates : 0..MaxUpdates, crashes : 0..MaxCrashes]
    /\ recorded \subseteq Cmds /\ raised \subseteq Cmds
    /\ told \in [Trackers -> SUBSET Fates] /\ final \in [Trackers -> {"nothing", "finished", "everything"}]

\* Whoever records, renders or removes hooks has the single-writer lock, through
\* every boot, hand-over, failed hand-over and pre-commit recording: two processes
\* never record the same turns side by side.
WriterHoldsLock ==
    /\ \A t \in Trackers : pc[t] \in Writers => lock = t
    /\ \A c \in Cmds : cpc[c] \in {"launching", "recording", "probed"} => lock = c

\* The flushes that have come to their end.
Served == recorded \cup raised

\* A commit that was told its flush is done was served: a recording for it, begun after its
\* own request was on disk, has come to its end and either was completed or raised, whatever
\* other commits asked meanwhile and whichever tracker answered.  (One that raised is answered
\* like any other: the commit is not told that it may carry nothing.)
AnswerMeansServed ==
    \A c \in Cmds : reply[c] = "answered" => c \in Served

\* A tracker that starts with an answered request still on disk does not record
\* for it again (it would commit the turn running by then half done).  A tracker
\* resumed after a failed hand-over is left out: it never rereads flush-done, and
\* repeats what its abandoned replacement may have answered.
AnsweredNotServedAgain ==
    [][\A t \in Trackers :
        (pc[t] = "serving" /\ pc'[t] = "flushing" /\ "resumed" \notin told[t])
            => nonce'[t].now \notin Served]_vars

\* A tracker replaced in time leaves the turn still running to its successor:
\* when the replacing start spawns one, the old tracker recorded no running turn
\* unless a stop had reached it too, it outlived somebody's wait, or a start that
\* replaces another tracker (its predecessor, about to hand over) took the one marker.
ReplacementKeepsTurn ==
    \A c \in Cmds : \A t \in Trackers :
        (cpc[c] \in {"relock", "spawning"} /\ seen[c] = t /\ "replaced" \in told[t]
              /\ told[t] \subseteq {"replaced", "heard"})
            => final[t] # "everything"

\* A tracker on its way out never undoes its successor's set-up: the fold hooks
\* and the handshake of a tracker that serves are removed only by a command.
TeardownSparesSuccessor ==
    [][\A t \in Trackers :
        (pc[t] \in Looping /\ pc'[t] = pc[t] /\ cpc = cpc')
            => /\ folds => folds'
               /\ handshake = t => handshake' = t]_vars

\* A tracker told to stop while its loop runs goes, a pending update or not, and
\* has recorded its last turns on the way.
StopEndsTracker ==
    []<>(\A t \in Trackers : "heard" \in told[t]
            => pc[t] = "dead" /\ (final[t] # "nothing" \/ "killed" \in told[t]))

\* STOP MEANS STOP: "the retry loop in run() must exit even when an update restart
\* is pending or has failed" - any tracker that has been told to stop goes.
StopMeansStop == \A t \in Trackers : stop[t].explicit ~> pc[t] = "dead"
=============================================================================
