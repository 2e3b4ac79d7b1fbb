---------------------------- MODULE Integration ----------------------------
(***************************************************************************)
(* Session worktrees and the integration of their turn branches into the   *)
(* user's branches (proxy/integration.py, git/worktree.py and the callers  *)
(* in proxy/runner.py, proxy/branch_watch.py and recovery.py).             *)
(*                                                                         *)
(* A ref is the set of commits it reaches, so a merge is a union and a     *)
(* fast-forward a superset; the commit a merge makes is not counted, unless *)
(* it holds conflict markers.                                              *)
(* One `job` at a time works through the git commands of an operation (the *)
(* pipeline lock); users, agents and crashes interleave with its steps.    *)
(***************************************************************************)
EXTENDS Naturals

CONSTANTS
    Sessions,
    UserBranches,
    None,         \* no branch, no session
    First,        \* the branch checked out when everything begins
    Drift,        \* whether the user checks out other branches in the repo directory
    WhileMerging, \* whether a turn is committed while its worktree is mid-merge
    MaxTurn,      \* BOUND: turn branches of a session at a time
    MaxCommits,   \* BOUND: commits made
    MaxRuns       \* BOUND: starts, recoveries

TurnBranches == Sessions \X (1..MaxTurn)

ASSUME IntegrationAssumption ==
    /\ First \in UserBranches
    /\ None \notin Sessions /\ None \notin UserBranches
    /\ \A b \in UserBranches \cup {None} : b \notin TurnBranches
    /\ {Drift, WhileMerging} \subseteq BOOLEAN
    /\ {MaxTurn, MaxCommits, MaxRuns} \subseteq Nat

VARIABLES
    refs,       \* [branch |-> the commits it reaches]
    checkedOut, \* the user branch checked out in the repo directory
    tree,       \* [Sessions -> a worktree]
    target,     \* [Sessions -> UserBranches]: the merge branch a worktree records
    phase,      \* what the process is doing
    home,       \* the foreground session
    live,       \* the sessions open in this run
    turning,    \* the sessions whose agent is in a turn
    ctx,        \* [Sessions -> MergeContext]: whose conflict is being resolved
    job,        \* the operation in progress
    left,       \* the sessions or worktrees a start or an exit still has to visit
    delete,     \* the answer to "delete the worktrees or keep them"
    runs,       \* starts and recoveries so far
    made        \* history: the number of commits made

repoVars == <<refs, checkedOut, tree, target>>
procVars == <<phase, home, live, turning, ctx, job, left, delete, runs>>
vars == <<repoVars, procVars, made>>

Detached == None
Commits == 0..MaxCommits
Markers == 0   \* stands for every commit that holds conflict markers
Branches == UserBranches \cup TurnBranches
Exists == DOMAIN refs

NoTree == [there |-> FALSE, head |-> Detached, at |-> {}, dirty |-> FALSE,
           merge |-> "no", theirs |-> {}]
TreeAt(commits) == [NoTree EXCEPT !.there = TRUE, !.at = commits]

NoJob == [kind |-> "none", s |-> None, base |-> First,
          src |-> Detached, step |-> "none", drop |-> FALSE]

Init ==
    /\ refs = [b \in UserBranches |-> {}]
    /\ checkedOut = First
    /\ tree = [s \in Sessions |-> NoTree]
    /\ target = [s \in Sessions |-> First]
    /\ phase = "down" /\ home = None
    /\ live = {} /\ turning = {} /\ left = {}
    /\ ctx = [s \in Sessions |-> FALSE]
    /\ job = NoJob
    /\ delete = FALSE
    /\ runs = 0
    /\ made = 0

---------------------------------------------------------------------------
(* Git *)

Managed(b) == b \in TurnBranches
Tip(s) == IF tree[s].head = Detached THEN tree[s].at ELSE refs[tree[s].head]
Ahead(base, b) == refs[b] \ refs[base]
Others(b) == [c \in Exists \ {b} |-> refs[c]]
Moved(b, commits) == [c \in Exists \cup {b} |-> IF c = b THEN commits ELSE refs[c]]
Here == {s \in Sessions : tree[s].there}
Held(b) == \E s \in Sessions : tree[s].head = b
Free(s) == {k \in 1..MaxTurn : <<s, k>> \notin Exists}
NewCommit == made + 1

\* ensure_turn_branch: a detached session goes on a turn branch nobody has; the number that
\* tells it from the others is whichever is free.
TurnBranch(s) ==
    IF tree[s].head # Detached THEN tree[s].head
    ELSE <<s, CHOOSE k \in Free(s) : TRUE>>
CanBranch(s) == tree[s].head # Detached \/ Free(s) # {}

\* A commit of whatever is in the worktree.  In the middle of a merge it concludes the
\* merge, whether or not the conflict markers are gone.
Committed(s) ==
    CASE tree[s].merge = "no" -> {NewCommit}
      [] tree[s].merge = "marked" -> {Markers}
      [] OTHER -> {}
CanCommit(s) == tree[s].merge # "no" \/ NewCommit <= MaxCommits

CommitIn(s) ==
    LET b == TurnBranch(s) IN
    /\ refs' = Moved(b, Tip(s) \cup tree[s].theirs \cup Committed(s))
    /\ tree' = [tree EXCEPT ![s] = [NoTree EXCEPT !.there = TRUE, !.head = b]]
    /\ made' = IF tree[s].merge = "no" THEN NewCommit ELSE made

---------------------------------------------------------------------------
(* The user and the agents *)

\* The user commits on the branch checked out in the repo directory.
UserCommits ==
    /\ NewCommit <= MaxCommits
    /\ refs' = Moved(checkedOut, refs[checkedOut] \cup {NewCommit})
    /\ made' = NewCommit
    /\ UNCHANGED <<checkedOut, tree, target, procVars>>

UserChecksOut(b) ==
    /\ Drift /\ b # checkedOut
    /\ checkedOut' = b
    /\ UNCHANGED <<refs, tree, target, procVars, made>>

AgentEdits(s) ==
    /\ s \in turning /\ ~tree[s].dirty /\ CanCommit(s)
    /\ tree' = [tree EXCEPT ![s].dirty = TRUE]
    /\ UNCHANGED <<refs, checkedOut, target, procVars, made>>

\* The agent runs `git commit` itself, on its turn branch, though not between the git
\* commands of its own session's integration (an assumption).
AgentCommits(s) ==
    /\ s \in turning /\ CanCommit(s)
    /\ Managed(tree[s].head) /\ tree[s].merge = "no"
    /\ job.s # s
    /\ CommitIn(s)
    /\ UNCHANGED <<checkedOut, target, procVars>>

\* The agent, or the user in the worktree, takes the conflict markers out.
MarkersRemoved(s) ==
    /\ tree[s].merge = "marked" /\ s \in live /\ job.kind = "none"
    /\ tree' = [tree EXCEPT ![s].merge = "resolved"]
    /\ UNCHANGED <<refs, checkedOut, target, procVars, made>>

TurnEnds(s) ==
    /\ s \in turning
    /\ turning' = turning \ {s}
    /\ UNCHANGED <<repoVars, phase, home, live, ctx, job, left, delete, runs, made>>

---------------------------------------------------------------------------
(* Jobs *)

Begins(kind, s, base, step, drop) ==
    job' = [kind |-> kind, s |-> s, base |-> base, src |-> tree[s].head,
            step |-> step, drop |-> drop]
Step(name) == job' = [job EXCEPT !.step = name]

\* Where a job goes when its integration is over, landed or not.
Onward(landed) ==
    CASE job.kind = "prompt" -> Step("branch")
      [] job.kind = "exit" -> Step("keep")
      [] job.kind = "retarget" -> Step("retarget")
      [] job.kind = "stale" /\ landed /\ job.drop -> Step("drop")
      [] job.kind = "stale" /\ ~landed /\ phase = "start" /\ ~job.drop -> Step("again")
      [] OTHER -> job' = NoJob

\* A start or an exit is done with the worktree whose job has ended.
Ticked == left' = IF job' = NoJob /\ phase \in {"start", "exit", "sweep", "recover"}
                  THEN left \ {job.s} ELSE left

JobFrame == UNCHANGED <<target, checkedOut, phase, home, live, delete, runs, made>>

\* `git merge base` in the worktree: clean, or in conflict when both sides have commits the
\* other lacks.
MergeClean ==
    /\ job.step = "merge" /\ tree[job.s].merge = "no"
    /\ refs' = Moved(job.src, refs[job.src] \cup refs[job.base])
    /\ IF job.kind = "align" THEN job' = NoJob
       ELSE Step(IF job.kind = "stale" THEN "ffdir" ELSE "ff")
    /\ Ticked
    /\ JobFrame /\ UNCHANGED <<tree, turning, ctx>>

\* start_merge leaves the conflict in the worktree for the agent or the user; everything
\* else backs out of it, also out of one an earlier run left unfinished.
MergeConflicts ==
    /\ job.step = "merge"
    /\ \/ /\ tree[job.s].merge = "no"
          /\ Ahead(job.base, job.src) # {} /\ Ahead(job.src, job.base) # {}
          /\ tree' = [tree EXCEPT ![job.s].merge = "marked", ![job.s].theirs = refs[job.base]]
       \/ tree[job.s].merge # "no" /\ UNCHANGED tree
    /\ IF job.kind = "resolve"
       THEN job' = NoJob /\ ctx' = [ctx EXCEPT ![job.s] = TRUE]
       ELSE Step("abort") /\ UNCHANGED ctx
    /\ JobFrame /\ UNCHANGED <<refs, turning, left>>

\* Uncommitted edits are in the way of the merge.
MergeRefused ==
    /\ job.step = "merge"
    /\ tree[job.s].dirty /\ tree[job.s].merge = "no"
    /\ Onward(FALSE)
    /\ Ticked
    /\ JobFrame /\ UNCHANGED <<refs, tree, turning, ctx>>

MergeAbort ==
    /\ job.step = "abort"
    /\ tree' = [tree EXCEPT ![job.s].merge = "no", ![job.s].theirs = {}]
    /\ Onward(FALSE)
    /\ Ticked
    /\ JobFrame /\ UNCHANGED <<refs, turning, ctx>>

\* Mutant: the base ref is moved whether or not it is an ancestor.
FastForwardForced ==
    /\ job.step = "ff"
    /\ refs' = Moved(job.base, refs[job.src])
    /\ Step("detach")
    /\ JobFrame /\ UNCHANGED <<tree, turning, ctx, left>>

\* advance_base_to: fast-forward the base, in the repo directory when it is checked out
\* there and by its ref when it is not; never anything but a fast-forward.
FastForward ==
    /\ job.step = "ff"
    /\ refs[job.base] \subseteq refs[job.src]
    /\ refs' = Moved(job.base, refs[job.src])
    /\ Step("detach")
    /\ JobFrame /\ UNCHANGED <<tree, turning, ctx, left>>

\* Mutant: a refused fast-forward is not noticed.
FastForwardIgnored ==
    /\ job.step = "ff"
    /\ job.base = checkedOut \/ ~ refs[job.base] \subseteq refs[job.src]
    /\ Step("detach")
    /\ Ticked
    /\ JobFrame /\ UNCHANGED <<refs, tree, turning, ctx>>

\* The base gained commits since the merge, or the repo directory is in the way.
FastForwardRefused ==
    /\ job.step = "ff"
    /\ job.base = checkedOut \/ ~ refs[job.base] \subseteq refs[job.src]
    /\ Onward(FALSE)
    /\ Ticked
    /\ JobFrame /\ UNCHANGED <<refs, tree, turning, ctx>>

Detach ==
    /\ job.step = "detach"
    /\ tree' = [tree EXCEPT ![job.s].head = Detached, ![job.s].at = refs[job.base]]
    /\ Step("delete")
    /\ JobFrame /\ UNCHANGED <<refs, turning, ctx, left>>

\* The turn branch goes; with it the merge context of a resolved conflict.
DeleteBranch ==
    /\ job.step = "delete"
    /\ refs' = Others(job.src)
    /\ ctx' = IF job.kind = "resolved" THEN [ctx EXCEPT ![job.s] = FALSE] ELSE ctx
    /\ turning' = IF job.kind = "resolved" THEN turning \ {job.s} ELSE turning
    /\ Onward(TRUE)
    /\ Ticked
    /\ JobFrame /\ UNCHANGED tree

---------------------------------------------------------------------------
(* Sessions *)

Idle == phase = "up" /\ job.kind = "none"

\* A turn's changes are committed, on a turn branch of their own.
TurnCommit(s) ==
    /\ Idle /\ s \in live /\ CanCommit(s) /\ CanBranch(s)
    /\ tree[s].dirty \/ tree[s].merge # "no"
    /\ tree[s].merge = "no" \/ (WhileMerging /\ ~ctx[s])
    /\ CommitIn(s)
    /\ turning' = turning \ {s}
    /\ UNCHANGED <<checkedOut, target, phase, home, live, ctx, job, left, delete, runs>>

\* integrate_turn_or_conflict, for the session in front between its turns, or for one in the
\* background that has been silent for a while.
Integrate(s) ==
    /\ Idle /\ s \in live /\ ~ctx[s]
    /\ s \notin turning \/ s # home
    /\ Managed(tree[s].head)
    /\ Begins("turn", s, target[s], "merge", FALSE)
    /\ UNCHANGED <<repoVars, phase, home, live, turning, ctx, left, delete, runs, made>>

\* A prompt first lands what the last turn committed, then goes on a branch of its own.
Prompt(s) ==
    /\ Idle /\ s = home /\ s \notin turning
    /\ Begins("prompt", s, target[s],
              IF /\ ~ctx[s] /\ ~tree[s].dirty /\ tree[s].merge = "no"
                 /\ Managed(tree[s].head) /\ Ahead(target[s], tree[s].head) # {}
              THEN "merge" ELSE "branch", FALSE)
    /\ UNCHANGED <<repoVars, phase, home, live, turning, ctx, left, delete, runs, made>>

PromptBranch ==
    /\ job.step = "branch" /\ job.s \in Here /\ CanBranch(job.s)
    /\ LET b == TurnBranch(job.s) IN
       /\ refs' = Moved(b, Tip(job.s))
       /\ tree' = [tree EXCEPT ![job.s].head = b, ![job.s].at = {}]
    /\ turning' = turning \cup {job.s}
    /\ job' = NoJob
    /\ JobFrame /\ UNCHANGED <<ctx, left>>

\* align_session_to_base, of an idle session once the base has moved.
AlignLook(s, base) ==
    IF tree[s].merge # "no" \/ tree[s].dirty THEN "noop"
    ELSE IF Managed(tree[s].head) /\ Ahead(base, tree[s].head) # {}
    THEN IF Ahead(tree[s].head, base) = {} THEN "noop" ELSE "merge"
    ELSE IF Tip(s) # refs[base] THEN "repoint" ELSE "noop"

Repointed(s, base) ==
    [tree EXCEPT ![s] = IF AlignLook(s, base) = "repoint" THEN TreeAt(refs[base]) ELSE @]

Align(s) ==
    /\ Idle /\ s \in live /\ s \notin turning
    /\ AlignLook(s, target[s]) # "noop"
    /\ tree' = Repointed(s, target[s])
    /\ IF AlignLook(s, target[s]) = "merge"
       THEN Begins("align", s, target[s], "merge", FALSE) ELSE UNCHANGED job
    /\ UNCHANGED <<refs, checkedOut, target, phase, home, live, turning, ctx, left,
                   delete, runs, made>>

\* start_merge, from the box a conflict raises or the session menu.
StartMerge(s) ==
    /\ Idle /\ s = home /\ ~ctx[s] /\ s \notin turning
    /\ Managed(tree[s].head)
    /\ Begins("resolve", s, target[s], "merge", FALSE)
    /\ UNCHANGED <<repoVars, phase, home, live, turning, ctx, left, delete, runs, made>>

\* Mutant: the worktree is not searched for conflict markers.
FinalizeMergeUnread(s) ==
    /\ Idle /\ s \in live /\ ctx[s]
    /\ \/ /\ tree[s].merge = "no"
          /\ ctx' = [ctx EXCEPT ![s] = FALSE]
          /\ UNCHANGED <<refs, tree, job, made>>
       \/ /\ tree[s].merge # "no"
          /\ CommitIn(s)
          /\ Begins("resolved", s, target[s], "ff", FALSE)
          /\ UNCHANGED ctx
    /\ UNCHANGED <<checkedOut, target, phase, home, live, turning, left, delete, runs>>

\* finalize_agent_merge: nothing is committed while conflict markers remain; a merge that is
\* over elsewhere only loses its context.
FinalizeMerge(s) ==
    /\ Idle /\ s \in live /\ ctx[s]
    /\ \/ /\ tree[s].merge = "no"
          /\ ctx' = [ctx EXCEPT ![s] = FALSE]
          /\ UNCHANGED <<refs, tree, job, made>>
       \/ /\ tree[s].merge = "resolved"
          /\ CommitIn(s)
          /\ Begins("resolved", s, target[s], "ff", FALSE)
          /\ UNCHANGED ctx
    /\ UNCHANGED <<checkedOut, target, phase, home, live, turning, left, delete, runs>>

\* A worktree for a session that is being opened: the one on disk, or a fresh one, detached
\* at the branch it will merge into.
OpenTree(s) ==
    /\ target' = IF tree[s].there THEN target ELSE [target EXCEPT ![s] = checkedOut]
    /\ tree' = IF tree[s].there THEN tree ELSE [tree EXCEPT ![s] = TreeAt(refs[checkedOut])]

Open(s) ==
    /\ Idle /\ s \notin live
    /\ OpenTree(s)
    /\ live' = live \cup {s}
    /\ home' = s
    /\ UNCHANGED <<refs, checkedOut, phase, turning, ctx, job, left, delete, runs, made>>

SwitchTo(s) ==
    /\ Idle /\ s \in live \ {home}
    /\ home' = s
    /\ UNCHANGED <<repoVars, phase, live, turning, ctx, job, left, delete, runs, made>>

\* What a stop or an exit commits of a session: its changes, if its agent ended a turn.
FinalCommit(s) ==
    \/ UNCHANGED <<refs, tree, made>>
    \/ /\ CanCommit(s) /\ CanBranch(s)
       /\ tree[s].dirty \/ tree[s].merge # "no"
       /\ tree[s].merge = "no" \/ WhileMerging
       /\ CommitIn(s)

\* _retarget_active_session: what the session has goes to its old merge branch first, and
\* it keeps that branch when something is left over.
Retarget(s) ==
    /\ Idle /\ Drift /\ s = home /\ s \notin turning
    /\ FinalCommit(s)
    /\ job' = [kind |-> "retarget", s |-> s, base |-> target[s], src |-> tree'[s].head,
               step |-> IF Managed(tree'[s].head) /\ ~ctx[s] THEN "merge" ELSE "retarget",
               drop |-> FALSE]
    /\ UNCHANGED <<checkedOut, target, phase, home, live, turning, ctx, left, delete, runs>>

Unintegrated(s) ==
    \/ tree[s].merge # "no" \/ tree[s].dirty
    \/ Managed(tree[s].head) /\ Ahead(target[s], tree[s].head) # {}

Retargeted(b) ==
    /\ job.step = "retarget" /\ b # target[job.s]
    /\ IF Unintegrated(job.s) THEN UNCHANGED <<target, tree>>
       ELSE /\ target' = [target EXCEPT ![job.s] = b]
            /\ tree' = [tree EXCEPT ![job.s] = TreeAt(refs[b])]
    /\ job' = NoJob
    /\ UNCHANGED <<refs, checkedOut, phase, home, live, turning, ctx, left, delete, runs, made>>

Stop(s) ==
    /\ Idle /\ s \in live /\ live # {s}
    /\ FinalCommit(s)
    /\ live' = live \ {s}
    /\ turning' = turning \ {s}
    /\ ctx' = [ctx EXCEPT ![s] = FALSE]
    /\ IF home = s THEN home' \in live \ {s} ELSE UNCHANGED home
    /\ UNCHANGED <<checkedOut, target, phase, job, left, delete, runs>>

---------------------------------------------------------------------------
(* Start, exit, crash and recovery *)

\* A start opens a session, aligns it and then looks at every other worktree.
Start(s) ==
    /\ phase = "down" /\ runs < MaxRuns
    /\ runs' = runs + 1
    /\ phase' = "start" /\ home' = s /\ live' = {s}
    /\ left' = Here \ {s}
    /\ OpenTree(s)
    /\ job' = [kind |-> "align", s |-> s, base |-> target'[s], src |-> tree'[s].head,
               step |-> "align", drop |-> FALSE]
    /\ UNCHANGED <<refs, checkedOut, turning, ctx, delete, made>>

StartAlign ==
    /\ job.step = "align"
    /\ tree' = Repointed(job.s, job.base)
    /\ IF AlignLook(job.s, job.base) = "merge" THEN Step("merge") ELSE job' = NoJob
    /\ JobFrame /\ UNCHANGED <<refs, turning, ctx, left>>

Exit(keep) ==
    /\ Idle
    /\ phase' = "exit"
    /\ left' = live
    /\ delete' = ~keep
    /\ UNCHANGED <<repoVars, home, live, turning, ctx, job, runs, made>>

\* integrate_session_on_exit, after the session's latest turn is committed.
ExitSession(s) ==
    /\ phase = "exit" /\ job.kind = "none" /\ s \in left
    /\ home \in left => s = home
    /\ FinalCommit(s)
    /\ LET t == tree'[s] IN
       job' = [kind |-> "exit", s |-> s, base |-> target[s], src |-> t.head, drop |-> delete,
               step |-> IF ctx[s] \/ t.merge # "no" \/ t.dirty \/ ~Managed(t.head) THEN "keep"
                        ELSE IF refs'[t.head] \subseteq refs'[target[s]] THEN "ff" ELSE "merge"]
    /\ turning' = turning \ {s}
    /\ UNCHANGED <<checkedOut, target, phase, home, live, ctx, left, delete, runs>>

\* Mutant: a branch that is ahead of the base does not keep its worktree.
KeepOrDeleteAhead ==
    /\ job.step = "keep"
    /\ LET t == tree[job.s] IN
       IF /\ job.drop
          /\ ~ctx[job.s] /\ t.merge = "no"
       THEN Step("drop") ELSE job' = NoJob
    /\ Ticked
    /\ JobFrame /\ UNCHANGED <<refs, tree, turning, ctx>>

\* _finalize_worktree_on_exit: a worktree is deleted only when its branch is in the base.
KeepOrDelete ==
    /\ job.step = "keep"
    /\ LET t == tree[job.s] IN
       IF /\ job.drop
          /\ ~ctx[job.s] /\ t.merge = "no"
          /\ Managed(t.head) => Ahead(job.base, t.head) = {}
       THEN Step("drop") ELSE job' = NoJob
    /\ Ticked
    /\ JobFrame /\ UNCHANGED <<refs, tree, turning, ctx>>

\* WorktreeManager.remove: the directory, then every turn branch of the session's name.
RemoveTree ==
    /\ job.step = "drop"
    /\ tree' = [tree EXCEPT ![job.s] = NoTree]
    /\ Step("branches")
    /\ JobFrame /\ UNCHANGED <<refs, turning, ctx, left>>

RemoveBranches ==
    /\ job.step = "branches"
    /\ refs' = [b \in {c \in Exists : Managed(c) => c[1] # job.s} |-> refs[b]]
    /\ job' = NoJob
    /\ Ticked
    /\ JobFrame /\ UNCHANGED <<tree, turning, ctx>>

\* With every session finalized, a deleting exit goes on to the worktrees nobody had open.
ExitSweep ==
    /\ phase = "exit" /\ left = {} /\ job.kind = "none"
    /\ phase' = "sweep"
    /\ left' = IF delete THEN Here \ live ELSE {}
    /\ UNCHANGED <<repoVars, home, live, turning, ctx, job, delete, runs, made>>

\* `agitrack --recover`, while no other process holds the repository.
Recover ==
    /\ phase = "down" /\ runs < MaxRuns
    /\ runs' = runs + 1
    /\ phase' = "recover" /\ left' = Here
    /\ UNCHANGED <<repoVars, home, live, turning, ctx, job, delete, made>>

Sweeping == phase \in {"start", "sweep", "recover"} /\ job.kind = "none"
SweepBase == IF phase = "recover" THEN checkedOut ELSE target[home]

\* cleanup_stale_worktree: integrates a clean worktree into the base of whoever sweeps.
StaleJob(s, base, drop) ==
    job' = [kind |-> "stale", s |-> s, base |-> base, src |-> tree'[s].head, drop |-> drop,
            step |-> IF Managed(tree'[s].head) /\ ~ refs'[tree'[s].head] \subseteq refs'[base]
                     THEN "merge" ELSE IF drop THEN "drop" ELSE "done"]

CleanupStale(s) ==
    /\ Sweeping /\ s \in left
    /\ ~tree[s].dirty /\ tree[s].merge = "no"
    /\ UNCHANGED repoVars
    /\ StaleJob(s, SweepBase, phase # "start")
    /\ UNCHANGED <<phase, home, live, turning, ctx, left, delete, runs, made>>

\* RecoveryService._recover_one: a dirty worktree's finished turn is committed, then
\* integrated into the branch of the repo directory, and the worktree goes.
RecoverStale(s) ==
    /\ Sweeping /\ phase # "sweep" /\ s \in left
    /\ tree[s].dirty /\ tree[s].merge = "no"
    /\ CanCommit(s) /\ CanBranch(s)
    /\ CommitIn(s)
    /\ StaleJob(s, checkedOut, TRUE)
    /\ UNCHANGED <<checkedOut, target, phase, home, live, turning, ctx, left, delete, runs>>

\* A worktree in the middle of a merge, or of a turn that never ended, is left and reported.
FlagStale(s) ==
    /\ Sweeping /\ s \in left
    /\ tree[s].dirty \/ tree[s].merge # "no"
    /\ left' = left \ {s}
    /\ UNCHANGED <<repoVars, phase, home, live, turning, ctx, job, delete, runs, made>>

\* _recover_stale_worktree, on a conflict: the same again by the rules of a recovery.
StaleAgain ==
    /\ job.step = "again"
    /\ UNCHANGED <<refs, tree>>
    /\ StaleJob(job.s, checkedOut, TRUE)
    /\ JobFrame /\ UNCHANGED <<turning, ctx, left>>

StaleDone ==
    /\ job.step = "done"
    /\ job' = NoJob
    /\ Ticked
    /\ JobFrame /\ UNCHANGED <<refs, tree, turning, ctx>>

\* The repo directory's branch, whichever that is by now, goes forward to the merged one.
ForwardDir ==
    /\ job.step = "ffdir"
    /\ refs[checkedOut] \subseteq refs[job.src]
    /\ refs' = Moved(checkedOut, refs[job.src])
    /\ Onward(TRUE)
    /\ Ticked
    /\ JobFrame /\ UNCHANGED <<tree, turning, ctx>>

ForwardDirRefused ==
    /\ job.step = "ffdir"
    /\ job' = NoJob
    /\ Ticked
    /\ JobFrame /\ UNCHANGED <<refs, tree, turning, ctx>>

\* Mutant: a branch some worktree is on goes too.
OrphanSweepHeld ==
    /\ Sweeping /\ left = {}
    /\ refs' = [b \in {c \in Exists : Managed(c) => Ahead(SweepBase, c) # {}} |-> refs[b]]
    /\ IF phase = "start"
       THEN phase' = "up" /\ UNCHANGED <<home, live, turning, ctx, delete>>
       ELSE /\ phase' = "down" /\ home' = None
            /\ live' = {} /\ turning' = {} /\ delete' = FALSE
            /\ ctx' = [s \in Sessions |-> FALSE]
    /\ UNCHANGED <<checkedOut, tree, target, job, left, runs, made>>

\* delete_orphan_merged_branches, when everything has been visited.
OrphanSweep ==
    /\ Sweeping /\ left = {}
    /\ refs' = [b \in {c \in Exists : Managed(c) => Held(c) \/ Ahead(SweepBase, c) # {}} |-> refs[b]]
    /\ IF phase = "start"
       THEN phase' = "up" /\ UNCHANGED <<home, live, turning, ctx, delete>>
       ELSE /\ phase' = "down" /\ home' = None
            /\ live' = {} /\ turning' = {} /\ delete' = FALSE
            /\ ctx' = [s \in Sessions |-> FALSE]
    /\ UNCHANGED <<checkedOut, tree, target, job, left, runs, made>>

Crash ==
    /\ phase # "down"
    /\ phase' = "down" /\ home' = None
    /\ live' = {} /\ turning' = {} /\ left' = {} /\ delete' = FALSE
    /\ ctx' = [s \in Sessions |-> FALSE]
    /\ job' = NoJob
    /\ UNCHANGED <<repoVars, runs, made>>

---------------------------------------------------------------------------
UserStep == UserCommits \/ \E b \in UserBranches : UserChecksOut(b)
AgentStep(s) ==
    AgentEdits(s) \/ AgentCommits(s) \/ MarkersRemoved(s) \/ TurnEnds(s)
JobStep ==
    \/ MergeClean \/ MergeConflicts \/ MergeRefused \/ MergeAbort
    \/ FastForward \/ FastForwardRefused \/ Detach \/ DeleteBranch
    \/ PromptBranch \/ StartAlign \/ KeepOrDelete \/ RemoveTree \/ RemoveBranches
    \/ ForwardDir \/ ForwardDirRefused \/ StaleAgain \/ StaleDone
    \/ \E b \in UserBranches : Retargeted(b)
SessionStep(s) ==
    \/ TurnCommit(s) \/ Integrate(s) \/ Prompt(s) \/ Align(s) \/ StartMerge(s)
    \/ FinalizeMerge(s) \/ Retarget(s) \/ Open(s) \/ SwitchTo(s) \/ Stop(s)
ProcessStep ==
    \/ \E s \in Sessions : Start(s) \/ ExitSession(s) \/ CleanupStale(s) \/ RecoverStale(s) \/ FlagStale(s)
    \/ \E keep \in BOOLEAN : Exit(keep)
    \/ ExitSweep \/ Recover \/ OrphanSweep \/ Crash

Next ==
    \/ UserStep \/ JobStep \/ ProcessStep
    \/ \E s \in Sessions : AgentStep(s) \/ SessionStep(s)

Spec == Init /\ [][Next]_vars

---------------------------------------------------------------------------
(* Properties *)

\* The values the variables take; a worktree is never on a branch that is gone.
TypeOK ==
    /\ UserBranches \subseteq Exists /\ Exists \subseteq Branches
    /\ \A b \in Exists : refs[b] \subseteq 0..made
    /\ \A s \in Sessions : tree[s].head # Detached => tree[s].head \in Exists
    /\ checkedOut \in UserBranches
    /\ target \in [Sessions -> UserBranches]
    /\ tree \in [Sessions -> [there : BOOLEAN, head : TurnBranches \cup {Detached},
                              at : SUBSET Commits, dirty : BOOLEAN,
                              merge : {"no", "marked", "resolved"}, theirs : SUBSET Commits]]
    /\ phase \in {"down", "start", "up", "exit", "sweep", "recover"}
    /\ home \in Sessions \cup {None}
    /\ {live, turning, left} \subseteq SUBSET Sessions
    /\ ctx \in [Sessions -> BOOLEAN]
    /\ job.kind \in {"none", "turn", "prompt", "align", "resolve", "resolved", "retarget",
                     "exit", "stale"}
    /\ delete \in BOOLEAN
    /\ runs \in 0..MaxRuns
    /\ made \in 0..MaxCommits

\* No commit is ever lost: whatever deletes turn branches and worktrees, each commit made is
\* reached by a branch or is where a worktree stands.
WorkKept ==
    \A c \in 1..made :
        \/ \E b \in Exists : c \in refs[b]
        \/ \E s \in Here : c \in Tip(s)

\* The user's branches are only fast-forwarded: no step takes a commit off one of them.
TargetsOnlyGrow == [][\A b \in UserBranches : refs[b] \subseteq refs'[b]]_refs

\* A worktree aGiTrack removes has nothing left to integrate: the commits it stood on are
\* on a branch of the user.
RemovedIsIntegrated ==
    [][\A s \in Here : ~tree'[s].there => \E b \in UserBranches : Tip(s) \subseteq refs[b]]_tree

\* Nothing with conflict markers in it reaches a branch of the user.
MarkersStayOut == \A b \in UserBranches : Markers \notin refs[b]

============================================================================
