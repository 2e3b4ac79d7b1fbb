----------------------------- MODULE LatentFold -----------------------------
(***************************************************************************)
(* Recorded turns on their way into the user's commits.  A turn is a       *)
(* hidden latent commit on refs/agitrack/manual/<session>; the tracker     *)
(* keeps two files for the commit hooks: manual-pending-trailer, the text  *)
(* of every pending turn, and manual-ref, the refs to move once it was     *)
(* used.  prepare-commit-msg puts the trailer in the message, post-commit  *)
(* moves the refs onto the commit and empties the trailer.  The hooks run  *)
(* inside the user's `git commit`, beside the tracker, and nothing locks   *)
(* one against the other.                                                  *)
(*                                                                         *)
(* A turn is its number; a commit of the branch is [id, turns].  A latent  *)
(* ref is the real commit it stands on (0: no such ref) and the turns      *)
(* chained on top of it, which a set can hold: they are folded together.   *)
(***************************************************************************)
EXTENDS Naturals, Sequences, FiniteSets, SequencesExt

CONSTANTS
    Sessions,       \* the aGiTrack sessions of the repository, each with its ref
    FirstSession,   \* the session the first tracker starts with
    MaxTurns,       \* bound: turns recorded
    Budget          \* bound: how many of each event may happen, an end being a stop or a crash and
                    \* a drop a reset or a discard

Events == {"commits", "folds", "drops", "ends", "summaries"}

ASSUME SessionsAssumption ==
    /\ FirstSession \in Sessions
    /\ MaxTurns \in Nat
    /\ Budget \in [Events -> Nat]

VARIABLES
    branch,     \* the branch HEAD is on: a sequence of commits, oldest first
    made,       \* commits made so far, on the branch or not: the newest id
    thrown,     \* the commits `git reset` moved HEAD away from
    base,       \* [Sessions -> id]: the newest real commit under each latent ref
    chain,      \* [Sessions -> turns]: the records above it
    refFile,    \* .agitrack/manual-ref
    trailer,    \* .agitrack/manual-pending-trailer, by the turns in it
    signal,     \* manual-commit-signal was touched since the tracker last looked
    hooks,      \* the two commit hooks are installed
    life,       \* who holds the lock: down | up | once (a pre-commit hook's own capture) | asked (a start)
    cur,        \* the session it records for, or last did
    lastHead,   \* the HEAD it last saw
    step,       \* where its thread is
    job,        \* what that thread has read: [base, turns]
    worker,     \* the summary thread's render: [reading, turns], and whether its last write was late
    user,       \* the user's `git commit`: idle | editing | landed | advanced
    draft,      \* that commit: [amend, head, turns]
    recorded,   \* history: turns recorded
    dropped,    \* history: turns thrown away by a reset with the commit they were about, or discarded
    overtaken,  \* history: turns post-commit marked as folded which its commit does not hold
    raced,      \* history: turns whose commit and whose use by the tracker or a second commit crossed
    budget      \* what is left of Budget

repoVars    == <<branch, made, thrown>>
refVars     == <<base, chain>>
fileVars    == <<refFile, trailer, signal, hooks>>
trackerVars == <<life, cur, lastHead, step, job>>
userVars    == <<user, draft>>
history     == <<recorded, dropped, overtaken, raced>>
vars == <<repoVars, refVars, fileVars, trackerVars, worker, userVars, history, budget>>

Spend(event) == budget[event] > 0 /\ budget' = [budget EXCEPT ![event] = @ - 1]

Tip        == Last(branch)            \* HEAD
OnBranch   == UNION {branch[i].turns : i \in DOMAIN branch}
Ids        == {branch[i].id : i \in DOMAIN branch}
Refs       == {s \in Sessions : base[s] # 0}

\* pending_latent_commits: the records above the newest real commit, unless that commit was
\* thrown away by a reset.
PendingOn(s)    == IF base[s] \in thrown THEN {} ELSE chain[s]
PendingIn(refs) == UNION {PendingOn(s) : s \in refs}
Pending         == PendingIn(Sessions)

\* The records chained on a commit.
ChainedOn(id) == UNION {chain[s] : s \in {r \in Sessions : base[r] = id}}

\* Turns the tracker has read which a commit has taken since.
TakenSince(turns) == turns \ Pending

NoJob   == [base |-> 0, turns |-> {}]
NoDraft == [amend |-> FALSE, head |-> 0, turns |-> {}]
Resting == [reading |-> FALSE, turns |-> {}, late |-> FALSE]

Init ==
    /\ branch = <<[id |-> 1, turns |-> {}]>>
    /\ made = 1
    /\ thrown = {}
    /\ base = [s \in Sessions |-> 0]
    /\ chain = [s \in Sessions |-> {}]
    /\ refFile = {FirstSession}
    /\ trailer = {}
    /\ signal = FALSE
    /\ hooks = TRUE
    /\ life = "up"
    /\ cur = FirstSession
    /\ lastHead = 1
    /\ step = "idle"
    /\ job = NoJob
    /\ worker = Resting
    /\ user = "idle"
    /\ draft = NoDraft
    /\ recorded = 0
    /\ dropped = {}
    /\ overtaken = {}
    /\ raced = {}
    /\ budget = Budget

\* HEAD's message has the metadata header: something was folded into it.
Folded == Tip.turns # {}

\* Each of these refs names the commit now.
MoveRefs(refs, id) ==
    /\ base' = [s \in Sessions |-> IF s \in refs THEN id ELSE base[s]]
    /\ chain' = [s \in Sessions |-> IF s \in refs THEN {} ELSE chain[s]]

-----------------------------------------------------------------------------
(* The tracker's thread.                                                   *)

Goto(next, with) == step' = next /\ job' = with

\* record: one turn is appended to the chain of the session, or starts a chain at HEAD when
\* nothing is pending on its ref; the ref is read first and written without an old value.
FaultChainOnTip == IF base[cur] = 0 THEN Tip.id ELSE base[cur]

Parent == IF PendingOn(cur) = {} THEN Tip.id ELSE base[cur]

RecordRead ==
    /\ life \in {"up", "once"} /\ step = "idle"
    /\ recorded < MaxTurns
    /\ Goto("link", [base |-> Parent, turns |-> PendingOn(cur) \cup {recorded + 1}])
    /\ UNCHANGED <<repoVars, refVars, fileVars, life, cur, lastHead, worker, userVars, history, budget>>

RecordLink ==
    /\ step = "link"
    /\ base' = [base EXCEPT ![cur] = job.base]
    /\ chain' = [chain EXCEPT ![cur] = job.turns]
    /\ recorded' = recorded + 1
    /\ raced' = raced \cup TakenSince(job.turns \ {recorded + 1})
    /\ Goto("render", NoJob)
    /\ UNCHANGED <<repoVars, fileVars, life, cur, lastHead, worker, userVars, dropped, overtaken, budget>>

\* render_trailer: manual-ref first, then the text of the pending turns.
FaultOwnRefOnly  == {cur}

RefsToFold == Refs \cup {cur}

FaultRenderOnlyPending ==
    /\ step = "render"
    /\ refFile' = RefsToFold
    /\ IF Pending = {} THEN Goto("idle", NoJob) ELSE Goto("write", [base |-> 0, turns |-> Pending])
    /\ UNCHANGED <<repoVars, refVars, trailer, signal, hooks, life, cur, lastHead, worker, userVars, history, budget>>

RenderRead ==
    /\ step = "render"
    /\ refFile' = RefsToFold
    /\ Goto("write", [base |-> 0, turns |-> Pending])
    /\ UNCHANGED <<repoVars, refVars, trailer, signal, hooks, life, cur, lastHead, worker, userVars, history, budget>>

RenderWrite ==
    /\ step = "write"
    /\ trailer' = job.turns
    /\ raced' = raced \cup IF user = "advanced" THEN {} ELSE TakenSince(job.turns)
    /\ worker' = [worker EXCEPT !.late = FALSE]
    /\ Goto("idle", NoJob)
    /\ UNCHANGED <<repoVars, refVars, refFile, signal, hooks, life, cur, lastHead, userVars,
                   recorded, dropped, overtaken, budget>>

\* The summary of a turn has arrived: its thread renders the trailer as well.
SummaryRead ==
    /\ life = "up" /\ ~worker.reading
    /\ Pending # {}
    /\ Spend("summaries")
    /\ refFile' = RefsToFold
    /\ worker' = [worker EXCEPT !.reading = TRUE, !.turns = Pending]
    /\ UNCHANGED <<repoVars, refVars, trailer, signal, hooks, trackerVars, userVars, history>>

SummaryWrite ==
    /\ worker.reading
    /\ trailer' = worker.turns
    /\ raced' = raced \cup IF user = "advanced" THEN {} ELSE TakenSince(worker.turns)
    /\ worker' = [Resting EXCEPT !.late = worker.turns # Pending]
    /\ UNCHANGED <<repoVars, refVars, refFile, signal, hooks, trackerVars, userVars, recorded,
                   dropped, overtaken, budget>>

\* reset_stale_ref (and prune_abandoned_refs at a start): a ref that names a commit HEAD
\* contains is moved onto HEAD.
Stale(s) == chain[s] = {} /\ base[s] \in Ids

\* service: a commit was signalled, or HEAD moved.
Service ==
    /\ life = "up" /\ step = "idle"
    /\ signal \/ Tip.id # lastHead
    /\ signal' = FALSE
    /\ lastHead' = Tip.id
    /\ MoveRefs({cur} \cap {s \in Sessions : Stale(s)}, Tip.id)
    /\ Goto("render", NoJob)
    /\ UNCHANGED <<repoVars, refFile, trailer, hooks, life, cur, worker, userVars, history, budget>>

\* A flush request of a commit that is about to be made: the trailer is rendered again.
Flush ==
    /\ life \in {"up", "once"} /\ step = "idle" /\ user = "idle"
    /\ trailer # Pending \/ refFile # RefsToFold
    /\ Goto("render", NoJob)
    /\ UNCHANGED <<repoVars, refVars, fileVars, life, cur, lastHead, worker, userVars, history, budget>>

\* Auto mode: the tracker commits the pending turns itself, from the bodies it reads first.
FoldRead ==
    /\ life = "up" /\ step = "idle"
    /\ base[cur] # 0 /\ Pending # {}
    /\ Spend("folds")
    /\ Goto("fold", [base |-> Tip.id, turns |-> Pending])
    /\ UNCHANGED <<repoVars, refVars, fileVars, life, cur, lastHead, worker, userVars, history>>

\* One more commit on HEAD.
AppendCommit(turns) ==
    /\ branch' = Append(branch, [id |-> made + 1, turns |-> turns])
    /\ made' = made + 1

\* Its message has a metadata header already, which prepare-commit-msg leaves alone.
FoldCommit ==
    /\ step = "fold"
    /\ AppendCommit(job.turns)
    /\ UNCHANGED thrown
    /\ raced' = raced \cup TakenSince(job.turns)
                      \cup (IF user = "landed" THEN job.turns \cap draft.turns ELSE {})
    /\ Goto("hook", job)
    /\ UNCHANGED <<refVars, fileVars, life, cur, lastHead, worker, userVars, recorded, dropped,
                   overtaken, budget>>

\* git refused: HEAD moved meanwhile, or nothing was left to stage.
FoldFails ==
    /\ step = "fold"
    /\ Goto("idle", NoJob)
    /\ UNCHANGED <<repoVars, refVars, fileVars, life, cur, lastHead, worker, userVars, history, budget>>

\* post-commit, which the tracker's own `git commit` runs before it returns.  It looks at HEAD,
\* which may be a commit of the user's by now, with nothing folded: the turns stay on the refs.
FoldHook ==
    /\ step = "hook"
    /\ IF Folded
         THEN MoveRefs(refFile, Tip.id) /\ trailer' = {} /\ signal' = TRUE /\ UNCHANGED raced
         ELSE raced' = raced \cup (job.turns \cap OnBranch) /\ UNCHANGED <<refVars, trailer, signal>>
    /\ Goto("mark", job)
    /\ UNCHANGED <<repoVars, refFile, hooks, life, cur, lastHead, worker, userVars, recorded, dropped,
                   overtaken, budget>>

\* mark_folded: every ref names HEAD.
MarkFolded ==
    /\ step = "mark"
    /\ MoveRefs(RefsToFold, Tip.id)
    /\ lastHead' = Tip.id
    /\ Goto("render", NoJob)
    /\ UNCHANGED <<repoVars, fileVars, life, cur, worker, userVars, history, budget>>

\* setup: the hooks, every stale ref, the baseline HEAD, and a first trailer.  A new tracker
\* has seen no signal; it continues the session or opens a new one.
Setup(s) ==
    /\ life = "down"
    /\ hooks' = TRUE
    /\ cur' = s
    /\ MoveRefs({r \in Sessions : Stale(r)}, Tip.id)
    /\ lastHead' = Tip.id
    /\ \E unseen \in BOOLEAN : signal' = (signal \/ unseen)
    /\ Goto("render", NoJob)
    /\ UNCHANGED <<repoVars, refFile, trailer, worker, userVars, history, budget>>

Start(s) == Setup(s) /\ life' = "up" /\ (s = cur \/ base[s] = 0)

\* precommit_sync: no tracker runs, so the pre-commit hook captures for this one commit.
SyncOnce == Setup(cur) /\ life' = "once" /\ user = "idle"

\* discard_pending: a start the user typed asks what to do with turns an earlier run left, and
\* the answer is to drop them, as a fold would.
Discard ==
    /\ life = "down" /\ Pending # {}
    /\ Spend("drops")
    /\ life' = "asked"
    /\ MoveRefs(RefsToFold, Tip.id)
    /\ lastHead' = Tip.id
    /\ dropped' = dropped \cup Pending
    /\ Goto("render", NoJob)
    /\ UNCHANGED <<repoVars, fileVars, cur, worker, userVars, recorded, overtaken, raced>>

Finish ==
    /\ life \in {"once", "asked"} /\ step = "idle"
    /\ life' = "down"
    /\ UNCHANGED <<repoVars, refVars, fileVars, cur, lastHead, step, job, worker, userVars, history, budget>>

\* The teardown takes the hooks with it.
Stop ==
    /\ life = "up" /\ step = "idle"
    /\ Spend("ends")
    /\ life' = "down"
    /\ hooks' = FALSE
    /\ worker' = Resting
    /\ UNCHANGED <<repoVars, refVars, refFile, trailer, signal, cur, lastHead, step, job, userVars, history>>

\* The process dies; a `git commit` it was running finishes by itself.
Crash ==
    /\ life # "down" /\ step # "hook"
    /\ Spend("ends")
    /\ life' = "down"
    /\ Goto("idle", NoJob)
    /\ worker' = Resting
    /\ UNCHANGED <<repoVars, refVars, fileVars, cur, lastHead, userVars, history>>

-----------------------------------------------------------------------------
(* The user's git.                                                         *)

\* prepare-commit-msg: the trailer goes into a new message; an amend keeps the old one.
StartCommit(amend) ==
    /\ user = "idle" /\ life # "once"
    /\ Spend("commits")
    /\ user' = "editing"
    /\ draft' = [amend |-> amend, head |-> Tip.id,
                 turns |-> IF amend THEN Tip.turns ELSE IF hooks THEN trailer ELSE {}]
    /\ raced' = raced \cup IF step = "hook" THEN trailer \cap job.turns ELSE {}
    /\ UNCHANGED <<repoVars, refVars, fileVars, trackerVars, worker, recorded, dropped, overtaken>>

Abort ==
    /\ user = "editing"
    /\ user' = "idle" /\ draft' = NoDraft
    /\ UNCHANGED <<repoVars, refVars, fileVars, trackerVars, worker, history, budget>>

\* git moves HEAD only from the commit it started on.
Land ==
    /\ user = "editing" /\ draft.head = Tip.id
    /\ made' = made + 1
    /\ branch' = Append(IF draft.amend THEN Front(branch) ELSE branch,
                        [id |-> made + 1, turns |-> draft.turns])
    /\ user' = "landed"
    /\ UNCHANGED <<thrown, refVars, fileVars, trackerVars, worker, draft, history, budget>>

\* post-commit, if it is still there and HEAD's message shows a fold: every ref of manual-ref
\* names HEAD now, whatever was chained on it since the trailer was written.
AdvanceRefs ==
    /\ user = "landed" /\ hooks /\ Folded
    /\ MoveRefs(refFile, Tip.id)
    /\ overtaken' = overtaken \cup (PendingIn(refFile) \ OnBranch)
    /\ user' = "advanced"
    /\ UNCHANGED <<repoVars, fileVars, trackerVars, worker, draft, recorded, dropped, raced, budget>>

\* ... and then the trailer is emptied and the tracker told.
ClearTrailer ==
    /\ user = "advanced"
    /\ trailer' = {}
    /\ signal' = TRUE
    /\ user' = "idle" /\ draft' = NoDraft
    /\ UNCHANGED <<repoVars, refVars, refFile, hooks, trackerVars, worker, history, budget>>

\* No hook, or nothing folded.
NoAdvance ==
    /\ user = "landed" /\ ~(hooks /\ Folded)
    /\ raced' = raced \cup IF hooks \/ draft.amend THEN {} ELSE draft.turns
    /\ user' = "idle" /\ draft' = NoDraft
    /\ UNCHANGED <<repoVars, refVars, fileVars, trackerVars, worker, recorded, dropped, overtaken, budget>>

\* `git reset` of the newest commit, with the turns it holds and those recorded on top of it.
Reset ==
    /\ user \in {"idle", "editing"} /\ Len(branch) > 1
    /\ Spend("drops")
    /\ branch' = Front(branch)
    /\ thrown' = thrown \cup {Tip.id}
    /\ dropped' = dropped \cup Tip.turns \cup ChainedOn(Tip.id)
                     \cup (IF step = "link" /\ job.base = Tip.id THEN job.turns ELSE {})
    /\ UNCHANGED <<made, refVars, fileVars, trackerVars, worker, userVars, recorded, overtaken, raced>>

-----------------------------------------------------------------------------
Tracker == \/ RecordRead \/ RecordLink \/ RenderRead \/ RenderWrite \/ SummaryRead \/ SummaryWrite
           \/ Service \/ Flush \/ FoldRead \/ FoldCommit \/ FoldFails \/ FoldHook \/ MarkFolded
           \/ \E s \in Sessions : Start(s)
           \/ SyncOnce \/ Discard \/ Finish \/ Stop \/ Crash

Git == \/ \E amend \in BOOLEAN : StartCommit(amend)
       \/ Abort \/ Land \/ AdvanceRefs \/ ClearTrailer \/ NoAdvance \/ Reset

Next == Tracker \/ Git

Spec == Init /\ [][Next]_vars

-----------------------------------------------------------------------------
(* What a record's way into a commit promises.                             *)

Turns == 1..recorded

\* Types; the files and readings hold recorded turns only, one being recorded excepted, and
\* manual-ref always names a ref.
TypeOK ==
    /\ branch \in Seq([id : 1..made, turns : SUBSET Turns]) /\ branch # <<>>
    /\ made \in Nat /\ recorded \in Nat
    /\ thrown \subseteq 1..made
    /\ base \in [Sessions -> 0..made]
    /\ chain \in [Sessions -> SUBSET Turns]
    /\ refFile \in SUBSET Sessions /\ refFile # {}
    /\ trailer \subseteq Turns
    /\ signal \in BOOLEAN /\ hooks \in BOOLEAN
    /\ life \in {"down", "up", "once", "asked"}
    /\ cur \in Sessions
    /\ lastHead \in 1..made
    /\ step \in {"idle", "link", "render", "write", "fold", "hook", "mark"}
    /\ job \in [base : 0..made, turns : SUBSET (1..(recorded + 1))]
    /\ step # "link" => job.turns \subseteq Turns
    /\ life = "down" => step = "idle"
    /\ worker \in [reading : BOOLEAN, turns : SUBSET Turns, late : BOOLEAN]
    /\ user \in {"idle", "editing", "landed", "advanced"}
    /\ draft \in [amend : BOOLEAN, head : 0..made, turns : SUBSET Turns]
    /\ budget \in [Events -> Nat]

\* A recorded turn is pending, in a commit of the branch, thrown away by the user (a reset, a
\* discard), or marked as folded by a post-commit hook whose commit folded other turns: no step of the
\* tracker, no crash and no restart loses one.
OnlyTheHookLosesTurns ==
    \A t \in Turns : t \in Pending \cup OnBranch \cup dropped \cup overtaken

\* No two commits of the branch hold one turn, so its trace and tokens count once there, unless
\* a commit took it while the tracker was writing it back or had withdrawn the hooks, or another
\* commit landed on the tracker's own before its hook looked at HEAD.
FoldedOnce ==
    \A i, j \in DOMAIN branch : i # j => branch[i].turns \cap branch[j].turns \subseteq raced

\* When the tracker has nothing left to do, the trailer the next commit will use holds all the
\* pending turns and no turn a commit holds, and manual-ref names the refs of the pending ones,
\* unless the summary thread wrote it last from a reading that was out of date.
\* (It may still hold a turn that was thrown away: a commit and its reset between two polls
\* leave HEAD where the tracker last saw it.)
Quiet ==
    /\ life = "up" /\ step = "idle" /\ user = "idle" /\ ~worker.reading
    /\ ~signal /\ lastHead = Tip.id

Current ==
    /\ Pending \subseteq trailer
    /\ trailer \subseteq Pending \cup (dropped \ OnBranch)
    /\ \A s \in Sessions : PendingOn(s) # {} => s \in refFile

TrailerCurrent == Quiet /\ ~worker.late => Current

\* The flush is answered on one thread, so no other one renders against it.
OneThreadRenders == Quiet => Current

\* What reset_stale_ref says once a commit holds its turns: they are never folded again.
NeverFoldedAgain ==
    \A i, j \in DOMAIN branch : i # j => branch[i].turns \cap branch[j].turns = {}

\* What reset_stale_ref says of a turn: it is kept until a commit carries it (a reset is the
\* user's own answer).
KeptUntilACommitCarriesIt ==
    \A t \in Turns : t \in Pending \cup OnBranch \cup dropped
=============================================================================
