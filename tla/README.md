# aGiTrack in TLA+

The specifications kept beside aGiTrack's source. aGiTrack runs or watches a coding agent
(Claude Code, Codex, OpenCode) and turns each of the agent's turns into git history: a commit
(or a hidden "latent" commit folded into the user's own commit) that carries the interaction
trace and the token metadata of the turns it covers. Most of the program is text, rendering
and statistics. What is hard in it is that many short-lived and long-lived processes touch one
repository and its `.agitrack/` directory at once, and that nothing may be recorded twice,
lost, or recorded while the user has said stop. That is what is modelled here.

Paths below are relative to `src/agitrack/`.

| To find | Look in |
|---|---|
| what one module models, its state and actions against the code, its runs and bounds | the section named after it |
| which lines a definition translates | `PROJECT.json`, `map` |
| what a test would hardly reach, and the property that watches it | `PROJECT.json`, `hazards` |
| where the code and its comments disagree | `PROJECT.json`, `findings`; "Disagreements" below |
| what holds for any number of processes, sessions and turns | "What is proved" below, the `*Proofs` modules |

## Inventory

| Component | Source | State it keeps | Operations |
|---|---|---|---|
| Repository lock | `git/lock.py` | open descriptor, kernel lock, owner record in `.agitrack/lock` | acquire, release, still_guards_path, clear_owner_record |
| Commit engine (turn capture) | `proxy/commit_engine.py`, `transcripts/types.py`, `config/state.py` | watermark, marked_at, capture record, pending trace, pending tokens | start_parse, finish_parse_if_ready, commit_turns, _add_turn_usage |
| Tracking gap (stop record) | `tracking_gap.py` | stopped_at, resumed_at | mark_stopped, resume_tracking, discard_before, split_untracked_turns |
| Transcript parsers | `transcripts/*` | the agent's session files | export of a conversation as turns |
| Latent commits and the fold | `commits/manual.py`, `git/hooks.py`, `git/repo.py` | one latent ref per session, trailer file, `manual-ref`, signal file, hooks | record, render_trailer, prepare-commit-msg, post-commit, service, auto fold, discard |
| Tracker lifecycle | `proxy/background.py`, `update/restart.py`, `stop.py`, `cli.py` | handshake file, replacing marker, stop record, hooks, lock | start, stop, replace, update restart, auto-start, stand down |
| Commit flush handshake | `proxy/background.py`, `proxy/manual_commits.py` | request, started and done nonces | request_daemon_flush, _service_flush_requests |
| State file | `fileio.py`, `config/state.py`, `config/settings.py` | per-instance values and baseline, the file | load, set, save (three-way merge), suspend |
| Worktree integration | `proxy/integration.py`, `git/worktree.py`, `proxy/branch_watch.py`, `recovery.py` | turn branches, worktrees, base branches, merge contexts | integrate, align, resolve, retarget, stop, exit, clean up, recover |
| Shared sessions | `sessions/*`, `proxy/sharing.py` | the shared ref, its mirror, the remote's copy, what was auto-shared | share, auto-share, overwrite, unshare, list, resume |
| Interactive proxy | `proxy/runner.py` and its helpers | sessions, panes, modal mailbox, pipeline lock, parse result, held prompt | submit, resume, git worker's pass, timers, modals, exit |
| Summaries | `summaries/*` | pending summary, its thread and result | request, await, amend, store |
| Routed conversations | `routing.py`, `repos.py` | which repositories a conversation edits | route, follow |
| Commit messages | `commits/message.py`, `actions.py`, `foreign.py` | none | render, parse, merge metadata |
| Metrics and dashboard | `metrics/*` | caches, hub, its lock | build, serve, story, learn |
| Self update | `update/*` | update lock, marker | check, install |
| Daemon registry | `daemons.py` | one file per pid | register, deregister, list, stop all |
| VS Code bridge and extension | `shell/bridge.py`, `src/editors/vscode` | pending question | ask, answer, close |
| Redaction, recovery, backtrace | `redact.py`, `recovery.py`, `metrics/backtrace_commit.py` | rewritten history | rewrite, recover |
| Backends, command line, configuration, process helpers | `backends`, `cli.py`, `shell`, `config`, `proc.py`, ... | settings files | I/O and argument parsing |

### How they interact

Per working tree there is one *writer*: either a background tracker or an interactive proxy.
Writers and would-be writers meet at the **lock**. The writer polls the agent's transcript
through a **parser** and hands what is new to the **commit engine**, which asks the **tracking
gap** which turns may be recorded, counts their tokens in the **state file**, and gives the
record to git: directly (a worktree session, whose branch **integration** merges), or as a
latent commit. Latent commits reach history through two **git hooks**, which run inside the
user's own `git commit` and talk to the tracker by files only: the trailer and `manual-ref` one
way, a signal file and the **flush handshake** the other. When no tracker runs, a pre-commit
hook captures for that one commit. Agent hooks start trackers; `agitrack stop` ends them. A
thread of the tracker asks a model for **summaries** and renders them into the same trailer.

### What is hard, and what makes each part correct

* **Lock.** The file can be deleted under its holder (the directory is ignored, `git clean`
  removes it), and its record is written by path. Correct: one writer reachable through the
  path; the record names the writer or nobody; a holder of a deleted file notices.
* **Commit engine.** Five saves per capture, with the agent appending, the user stopping and
  the process dying between any two. Turns are caught before they end, conversations compacted.
  Correct: tokens counted at most once; every answered turn in a commit in the end; nothing of
  a stopped stretch; the watermark only advances, and never past what no commit holds.
* **Fold.** Three processes and a thread use one set of refs and files with no lock between
  them. Correct: no recorded turn disappears; no turn is in two commits; the trailer the next
  commit uses is the list of pending turns.
* **Lifecycle.** Check-then-act on a pid file, a lock that is handed to a replacement and taken
  back, auto-starts that race with a stop. Correct: whoever records has the lock; a teardown
  spares its successor; a tracker told to stop goes.
* **Flush.** A timeout races a late answer, and the tracker may restart in between. Correct: a
  commit that was told "done" was served by a recording that ended; an answered request is not served again.
* **State file.** Read, merge, replace without a lock, from copies hours old and shared by
  threads. Correct: the newest change of every key is in the file, except where the code lets
  two saves cross.
* **Integration.** Three git commands per turn, each may fail; the user commits to the base and
  checks out other branches meanwhile; a start or exit sweeps every worktree. Correct: no
  commit becomes unreachable; a user's branch only fast-forwards; no conflict marker lands.
* **Shared sessions.** Rejected pushes, leases, timeouts, a local copy that is rolled back.
  Correct: turns reported as pushed stay on the remote; a share takes nobody else's turns away.
* **Interactive proxy and summaries.** Two threads commit, merge and amend in one worktree, on
  the word of parse results and flags read earlier. Correct: a turn is in one commit; what was
  merged is never rewritten; a held prompt is sent; what is committed gets merged.

## Plan

In this order, the most important behaviour first. What is in *italics* is not done yet.

| # | Module | Abstract specification | Properties it is for | Theorems |
|---|---|---|---|---|
| 1 | RepoLock | SingleWriter | one writer, honest record, orphan stands down | type, exclusion, record, sparing release, refinement |
| 2 | TurnCapture | | counted once, stopped stretch stays out, answered turn kept, liveness | type, stopped stretch, watermark; counted once (no capture cut off, one caught mid-flight at a time) |
| 3 | LatentFold | | no turn lost, folded once, trailer current | all of its properties |
| 4 | Tracker (lock as its abstract owner) | | one writer across a hand-over, honest flush answers, stop obeyed | all of its safety properties |
| 5 | SharedStore | SharedShelf | pushed turns stay, menu honest | type, refinement, all of its properties |
| 6 | Integration | | nothing lost, fast-forwards only, no markers | all of its properties |
| 7 | TurnPipeline | | recorded once, merged history stands, held prompts sent, commits land | all of its safety properties |
| 8 | StateFile | | newest change stands, a setter writes its value | all of its properties |
| 9 | Routing | | a turn that edits several repositories is recorded in the right ones | all of its properties |
| 10 | *Conversations* (a switch inside the backend), *Daemons*, *Bridge*, *Replay* (`backtrace_commit.py`) | | see "Not modelled" | |

The modules meet where the code's components meet. `Tracker` uses the lock as `SingleWriter`
states it (one owner), which `ExclusionProofs` shows the lock file to give; that this is all
`Tracker` asks of it is `TrackersShareTheLock` in `TrackerProofs`. `TurnCapture` is one
tracker's capture; `Tracker` only needs to know when a capture is over (`recorded`).
`LatentFold` takes turns as recorded and follows them into commits. `TurnPipeline` has one
session and a base that this session alone moves; `Integration` has several sessions and leaves
the threads out. `Routing` has several trackers and the outcome of each capture.

Each module that is proved about has its type invariant as the theorem `TypeCorrect`
(`LockTypeCorrect` for RepoLock, whose `LockInit`, `LockNext`, `LockSpec` and `LockTypeOK` bear
the prefix because `ExclusionProofs` extends TurnPipeline as well); it is
also an INVARIANT of the runs of Routing and Integration.

## RepoLock

`git/lock.py` at the grain of its system calls; `SingleWriter` is what it promises.

| State | Code |
|---|---|
| `path` | the file reachable as `.agitrack/lock`, or none |
| `locked` | the kernel's `flock` (or `msvcrt.locking`) per file |
| `opened` | `RepoLock._fd`, or the descriptor `acquire` has opened so far |
| `record` | the owner record written in the file |
| `pc` | where the process is in `acquire` or `release` |

A file is an inode: deleting the directory leaves the holder's open, and the next `OpenLockFile`
creates another. `TryLock` and `WriteRecord` are the rest of `acquire`; `Release` and `Unlock`
are `release`, which empties the record first and unlocks afterwards; `StandDown` is the
tracker's poll (`_repo_still_ours`) releasing a lock that no longer guards the path, after which
it competes like anybody else; `ClearOwnerRecord` is what a stopper does to the record of a
tracker it ended; `Crash` is a process dying anywhere, which drops its kernel lock and leaves
the record.

*Runs.* `repo_lock`: two trackers and one interactive session, three files (a process opens a
file only while it holds none, so as many files as processes always suffice). All safety, the
action property that a release never wipes a successor's record, the liveness of an orphaned
tracker standing down, and the refinement of SingleWriter. `AnyModeStandsDown`, the same
liveness for every process instead of trackers only, is defined in the module and fails (see
"Disagreements"): add it to the cfg's PROPERTIES to see how.

*Fairness.* Weak fairness of `StandDown` and `Unlock`: a tracker polls as long as it runs, and
`release` has no waiting step. Nothing is assumed of acquiring: a process may never try.

## TurnCapture

The tracker's loop turning conversations into records, one action per save of the state file.

| State | Code |
|---|---|
| `transcript` | the backend's session file: turns with their prompt row, reply id, newest row, tokens |
| `marks` | `backend_message_ids` and `backend_message_marked_at` |
| `captured` | `partial_turn_tokens`, the one record of a turn caught mid-flight |
| `pending`, `recorded` | `pending_token_usage`, and the tokens in the commits made |
| `gapOpen`, `floor` | `tracking_gap`: an open stop, and the second tracking resumed |
| `life`, `settled` | the tracker, and the conversations its teardown has looked at |
| `step`, `job` | where a capture is, and what it has read |

| Action | Code |
|---|---|
| `StartParse` | `start_parse`: transcript and watermark, read now and used later |
| `ChooseTurns` | `finish_parse_if_ready`: turns after the mark, the stopped prefix skipped (which moves the watermark), trailing unanswered turns trimmed, deferral, cancelled turns |
| `CountTurns` | `commit_turns` to the save of the tokens: the stop record is asked again, `says_something_new`, what each turn still owes |
| `WriteRecord`, `WriteFails` | the record or commit, or git's refusal, an exception that leaves the poll |
| `ClearTrace`, `MoveMark`, `RememberCapture` | the three saves after it |
| `UserStop`, `UserStart`, `Start`, `Terminate`, `Exit`, `Crash` | the stop record and the tracker's life |
| `Prompt`, `Reply`, `Interrupt`, `Delegate`, `HelperReports`, `Compact` | the agent writing its transcript |

The modes are `poll` (the loop: waits for a running turn and for sub-agents), `flush` (a
`git commit`: takes running turns as they are) and `final` (the last look of a teardown). A row
is named by the clock at which it was written and a second is `RowsPerSecond` rows, because the
code compares whole seconds.

*Runs.*

| Run | Events | Shows |
|---|---|---|
| `capture_stop` | 2 turns, 1 stop, 1 exit, 1 compaction, flushes | counted at most once, nothing of the stopped stretch, the watermark never goes back |
| `capture_crash` | 2 turns, 1 crash, 1 refused record, flushes | the watermark never passes an answered turn that no commit holds |
| `capture_live` | 2 conversations, 2 turns, 1 sub-agent, polls only | every answer is recorded in the end |

*Bounds.* `MaxClock` leaves room for every row and every stop and start the budget allows, so it
cuts no behaviour short. Two turns of two replies are the least in which a mark can name the
wrong turn, a compaction can remove it, and a stop can fall between prompt and reply; one stop
gives the three places a turn can be (before, inside, after). Crash and stop are in separate
runs only for size. `capture_stop` has no refused record, and one conversation only, because
`CountedOnce` is false with a refused record and false with two conversations in one flush
("Disagreements" 2 and 3). `MCTurnCapture` has the budgets that show both, `RefusedBudget` and
`TwoConvBudget`, and `FinalTurnBudget` for `StopRecordsFinalTurn`.

*`EveryMessageIds`* are conversations whose backend gives every assistant message an id; the
others have one only for messages with text. The crash run needs the first kind, where a mark on
a reply would name a message the next reply replaces.

*Fairness.* The poll loop visits every conversation each cycle (strong fairness of `StartParse`:
other captures come in between) and finishes what it begins (`Capture`); a tracker that no stop
forbids is started again (the agent's hooks); a turn the agent has begun ends and a sub-agent
reports. The last two are assumptions about the agent: without them the deferral may wait for
ever, and the code means it to. In `capture_live` the flushes are left out (`FlushConvs` is
empty): what a sub-agent spends after a flush is in no export, see "Disagreements".

*Left out.* The wording of the trace; redaction; the interactive cancel dialog; a monitor-tick's
deferral and awaited follow-ups, which only ever delay a poll; a cover commit (the same
saves around a commit of the whole tree); `discard_before`. Which turns another repository
takes is `Routing`.

## LatentFold

Recorded turns on their way into the user's commits: the tracker's thread, its summary thread,
the user's git with its hooks, and a pre-commit hook's own capture, all step by step.

| State | Code |
|---|---|
| `branch`, `made`, `thrown` | HEAD's history, commits made, commits a reset left behind |
| `base`, `chain` | `refs/agitrack/manual/<session>`: the real commit under it, the records on top |
| `refFile`, `trailer`, `signal`, `hooks` | `manual-ref`, `manual-pending-trailer`, `manual-commit-signal`, the two commit hooks |
| `life`, `cur`, `lastHead` | who holds the lock, its session, the HEAD it saw last |
| `step`, `job`, `worker` | what the tracker's thread and the summary thread have read and not yet written |
| `user`, `draft` | the user's `git commit` |

| Action | Code |
|---|---|
| `RecordRead`, `RecordLink` | `record`: read the ref, write the latent commit, update the ref without an old value |
| `RenderRead`, `RenderWrite`, `SummaryRead`, `SummaryWrite` | `render_trailer` by either thread |
| `Service`, `Flush` | a signal or a moved HEAD; a flush request |
| `FoldRead`, `FoldCommit`, `FoldFails`, `FoldHook`, `MarkFolded` | auto mode's commit of the pending turns |
| `Setup`, `Start`, `SyncOnce`, `Discard`, `Finish`, `Stop`, `Crash` | hooks and refs at a start, pre-commit capture, the discard answer, the end |
| `StartCommit`, `Abort`, `Land`, `AdvanceRefs`, `ClearTrailer`, `NoAdvance`, `Reset` | git: prepare-commit-msg, the commit, post-commit, `git reset` |

The variables `dropped`, `overtaken` and `raced` are history: turns the user threw away, turns a
post-commit hook marked as folded although its commit does not hold them, and turns that a
commit took while somebody else was using them. They let a property say exactly which losses and
repetitions the code allows. `raced` names these crossings and nothing else: a ref update,
trailer or auto fold that was read before a commit took the turns; a user's commit begun between
an auto fold and its hook, or landed beside one; a commit that lands after the hooks are
withdrawn; and an auto fold whose hook finds another commit at HEAD, with nothing folded in it,
and leaves the turns on the refs until `mark_folded` (which a crash may prevent).

*Runs.*

| Run | Events | Shows |
|---|---|---|
| `latent_fold` | 2 sessions, 2 turns, 2 user commits (new or amend), an auto fold, a reset or discard, a stop or crash, a summary | no step but the post-commit hook loses a turn; two commits hold one turn only by a named crossing; the trailer is current when the tracker rests |

The stronger promises that the code's comments make, `KeptUntilACommitCarriesIt`,
`NeverFoldedAgain` and `OneThreadRenders`, are defined in the module and each fails when added
to the cfg ("Disagreements" 5 to 7).

*Bounds.* Two turns are enough for "recorded while another is being folded", two sessions for a
pending ref that is not the current one, two commits for folding twice and for amending a fold.
One auto fold, one reset or discard and one end can each fall at any of the tracker's steps; two
of the same kind are not checked, the theorems cover them. (The last crossing above was found that
way: it takes three commits, and the proof of `FoldedOnce` did not go through without it.)

*Left out.* The text of the trailer and its age cap (`age_out_pending` rewrites the same turns);
the in-flight attribution block; the poll-and-cover fallback for a custom `core.hooksPath`; git
gc of latent commits; `git commit --amend -m`, which drops the header. Updating several refs is
one step, although the code runs one command per ref.


## Tracker

Background trackers and the short commands that act on them: the lifecycle and the flush
handshake are one module because they share files and meet in every hazard.

| State | Code |
|---|---|
| `lock` | the owner of `.agitrack/lock` |
| `handshake`, `replacing`, `gap` | `background.json`, `tracker-replacing`, the stop record |
| `armed`, `folds` | the pre-commit hook that asks for a flush, the fold hooks |
| `request`, `started`, `done` | the nonces in the three flush files |
| `pc`, `child` | where each tracker is, the replacement it spawned |
| `stop` | `_stop`, `_explicit_stop`, `_restart_cmd` |
| `nonce` | `_last_flush_nonce`, and the nonce being served |
| `kind`, `cpc`, `seen`, `reply` | each command: what it is, where it is, the pid it has read, what it reports |

| Actions | Code |
|---|---|
| `Boot`, `BootRefused`, `Arm`, `InstallSignalHandlers` | a tracker process up to its loop |
| `BeginFlush`, `EndFlush`, `FlushOutcome` | `_service_flush_requests` |
| `UpdateSeen`, `LeaveLoop`, `FinalRecord`, `Close` | an update or a signal, `_teardown` |
| `HandOver`, `ReplacementCameUp`, `ReplacementFailed`, `AbandonReplacement`, `Reclaim`, `ReclaimRefused` | the restart of `run`, with `update/restart.py` |
| `StartBegin`, `FaceOwner`, `Relock`, `Launch`, `Decide`, `SpawnTracker`, `Waited` | `agitrack -b` |
| `StopBegin`, `StopTracker`, `Terminated`, `OutlivedWait`, `Disarm` | `agitrack stop` |
| `CommitBegin`, `AskForFlush`, `Answered`, `GaveUp`, `CommitRecord` | the pre-commit hook |
| `CheckStop`, `LookForTracker`, `Probe`, `Probed` | an agent's session hook that starts a tracker |

A command reads the handshake in a step of its own (`Look`) and acts on the pid it saw.

*Run.* `tracker`: three trackers (one that may serve already, its replacement, one more), two
commands of any kinds up to their order, one update, one killed tracker. Two commands are the
least in which one acts on what the other has changed; the third tracker is needed for a
successor that is neither the old tracker nor its child.

*Properties.* `WriterHoldsLock`: whoever records, tears down or publishes the handshake owns the
lock, across the hand-over in which the old tracker lets go of it and may take it back.
`AnswerMeansServed`: a commit told "done" was served by a recording begun after it asked, and that
recording has ended; an exception in it is swallowed and answered like a success, so a commit told
"done" may carry nothing of the turn (`raised` is the history of those).
`AnsweredNotServedAgain`: a request served is not served again, not even by a tracker that
restarted in between.
`ReplacementKeepsTurn`: a tracker that is being replaced leaves the running turn to its
successor, unless two starts met over the one marker file (the history says so).
`TeardownSparesSuccessor`: the fold hooks and the handshake of a tracker that serves are removed
by commands only, never by another tracker on its way out.
`StopEndsTracker`: a tracker in its loop that hears a stop ends.

*Fairness.* Weak fairness of the tracker's own steps past its loop: none of them waits for
anybody without a timeout. Serving, spawning and the user's commands are not assumed.

*Left out.* Auto mode's waits, the interactive session's side of the handshake (`LatentFold` has
the commit's), the contents of the handshake, Windows' way of detaching a process.

## SharedStore

Conversations shared through one git ref, at the grain of the git commands of `sessions/store.py`.

| State | Code |
|---|---|
| `remote`, `local`, `mirror` | the ref on origin, a clone's copy, what its menu fetched |
| `conv` | the conversations on a clone's disk |
| `digest` | `_auto_share_hash` |
| `pc`, `op`, `answer` | the worker threads and their operations, what they reported |
| `work` | what an operation in hand has read and made: the tip for the lease, the tree, what it pruned, its try, the blobs it could not read |
| `gone`, `crossed`, `marred` | history: turns taken off the remote by a push that may, threads and clones whose local ref was rewritten under an operation |

A transcript is the set of its turns, and a snapshot without parents is known by whether it is
the remote's tip: that is all the lease compares. `Share`, `AutoShare`, `Unshare` begin an
operation (fetch, guards, local rewrite), `Merge`, `Write`, `PushLands`, `PushRejected`,
`PushFails`, `Sync`, `GiveUp` are its steps, `ListShared` and `ResumeShared` the menu, `Die` a
process that ends under its operations. A push that fails may have landed.

Two things the code does make the promises weaker than its comments, and the model does both.
A clone is one process whose operations run in threads side by side, with one local ref and no
lock; `update_ref` gives no old value, so a rewrite under another thread passes unseen
(`store.py:656`). `Crosses` notes it: of the thread, in `crossed`, whatever of the tree was changed between
its reading and its push; of the clone, in `marred`, until its ref is the remote's tip again with
nobody at it. And a fetch is asked for with a filter, so any blob the clone does not have
already may stay out (`Fetched`): the merge and the recency guard then read nothing (`Blind`).

`SharedShelf` is what the component promises its contributors: a share adds turns and drops
none, or puts a copy at least as long in the place of one it cannot combine with; a shorter copy
only when somebody asked for that or could not read the stored one; only an owner's own entries
leave. While operations of one machine have crossed, `Mix` lets its push be anything.
`ImplementsShelf` maps the remote's tree to it. `PushedStays`, `MenuHonest` and
`AutoDigestPushed` say of everybody else's operations what they say without crossings: a
crossed or blind share of one clone harms no report but through the turns that `gone` names.

*Run.* `shared_store`: two contributors with a clone each, a conversation that combines (Claude)
and one that does not (Codex), one shared entry kept per contributor; one clone starts two
operations, which may overlap, and the other one; one clone has gone on with the conversations
and one more turn is said; one failure, death or listing. A rejected push is retried on a tip
that has the other's turns, read or unread, while a second thread is at the same ref; two
turns let a copy be older, newer or beside another. Three operations, of which the third
changes the tip between a retry's fetch and its push, are in it too.

*Left out:* pruning by size, local-only repositories, redaction, reclaiming of objects, two
processes over one clone's ref (a crossing between them would be one as well).

## Integration

Worktrees, turn branches and the user's branches. A ref is the set of commits it reaches, so a
merge is a union and a fast-forward a superset; only a commit with conflict markers is counted
as a merge commit of its own.

| State | Code |
|---|---|
| `refs`, `checkedOut` | branches, and the one checked out in the repo directory |
| `tree`, `target` | each session's worktree (HEAD, dirty, mid-merge), and the merge branch it records |
| `phase`, `home`, `live`, `turning` | the process, the foreground session, the open ones, those in a turn |
| `ctx`, `job` | `MergeContext`; the operation under the pipeline lock and its git command |
| `left`, `delete`, `runs` | what a start or exit still has to visit, the answer about worktrees, starts so far |

| Actions | Code |
|---|---|
| `MergeClean`, `MergeConflicts`, `MergeRefused`, `MergeAbort`, `FastForward`, `FastForwardRefused`, `Detach`, `DeleteBranch` | `integrate_session_turn` |
| `PromptBranch`, `StartAlign`, `Retargeted`, `StartMerge`, `FinalizeMerge`, `MarkersRemoved` | turn branches, alignment with the base, resolving conflicts |
| `Start`, `CleanupStale`, `RecoverStale`, `FlagStale`, `ForwardDir`, `StaleAgain`, `StaleDone` | the sweep of a start |
| `Exit`, `ExitSession`, `ExitSweep`, `KeepOrDelete`, `RemoveTree`, `RemoveBranches`, `OrphanSweep` | an exit or a stop |
| `Crash`, `Recover` | the process dying between any two git commands; `agitrack --recover` |
| `UserCommits`, `UserChecksOut`, `AgentEdits`, `AgentCommits`, `TurnCommit` | the others |

*Runs.* `integration`: two sessions, two user branches, one turn branch per session at a time,
two commits, two starts or recoveries. Two commits are the least that diverge; two sessions the
least in which one moves the other's base; the second start meets what the first run's crash
left. Sessions are interchangeable (symmetry; no liveness is checked). `integration_markers` is
the same with `WhileMerging`, see "Disagreements".

*Assumed.* An agent does not commit between two git commands of its own session's integration
(it is idle then; hazard at `integration.py:294`). *Left out:* renaming, moving and discarding
sessions, `--delay-merge`, following a branch the agent switched to, copying of environment
files, sessions without worktrees, dirty files offered for copying when a worktree goes.

## TurnPipeline

The interactive proxy's path of a prompt and its turn in the foreground worktree: two threads
(reactor and git worker) and two workers (parse, summary).

| State | Code |
|---|---|
| `turn`, `running`, `queued`, `quiet` | the agent and its terminal |
| `tree`, `index`, `branch`, `base`, `onBranch` | whose edits are uncommitted and staged, the commits, the turn branch |
| `parse`, `cooling`, `mark` | the parse worker's result, the cooldown, the watermark |
| `inFlight`, `awaiting`, `awaited`, `reconciled`, `held` | the flags of a prompt and of a turn |
| `look`, `dirtySeen`, `parsePending` | the worker's reasons to look |
| `pending`, `summarizing`, `summary` | a summary: asked for, being written, written |
| `lock`, `job` | `_pipeline_lock`, and where each thread is |

`Submit`, `Resume*`, `Offer*`, `Begin`, `Forward` are the reactor's way from a prompt to the
agent, `Tick` its timers; `Pass`, `Take*`, `Stage`, `Commit`, `Land`, `MergeOwed`, `CoverNext`
the worker's pass; `Apply`, `Amend` the summary; the rest the agent, the user and the workers.

The lock is taken by the worker's passes, the submit path and the timers. `Resume` takes none, as
in the code: a held prompt's resume reads a result, commits, merges and forwards beside whatever
the worker does. So both threads may get hold of one result (`Cleared`), one may find the index
empty because the other has committed it (`CommitFails`: the worker's pass ends, the reactor
does), one may commit or merge between the other's look at HEAD and its `--amend`, and a merged
commit that was amended comes back with the next merge, beside its new form (`Merged`). Two
variables are history: `overrun`, the commits that were made or merged inside that window, and
`again`, the turns that were read or taken again before the thread that had them committed, or are
in a commit merged inside the window.

*Run.* `turn_pipeline`: two prompts at any moment of the first turn's path, and one commit of
the agent's or edit of the user's (585 thousand states; the safety properties also pass by hand
with both, 2.5 million, and with three prompts and neither, 1.5 million). Two turns are the least in which a result, a summary or a merge belongs to
another turn than the current one. `SubmitsApart` is what the lock gives: a submit or a summary
being applied never meets a pass. `RecordedOnce`, `MergedStands` and `SummaryOnItsCommit` say what
is left across the resume: a violation takes one of the steps the two histories name, and nothing else
breaks them ("Disagreements" 8). `HeldIsForwarded` and `CommitsLand` end with the reactor.

*Fairness.* Weak for the worker, the parse, the summary (each has a timeout) and the agent, whose
turns end; strong for the reactor, which gets the lock before the worker by
`_pipeline_lock_wanted`.

*Left out:* cancelled turns, sub-agents, edits of the user in the base, `--delay-merge`, manual
mode, sessions without a worktree, switching sessions, the exit's finalize, modal dialogs (an
offer has two answers). A cover commit is put on top of the branch as it is: `cover_commit`, which
resets softly to the agent's commit as it was looked up, could leave out what the other thread has
committed since; and two git commands at once, one of which finds git's index lock, are not modelled.

## StateFile

`state.json` and `config.json`: any number of instances over one file, each used by threads.

| State | Code |
|---|---|
| `file`, `form` | the document; plain, with a byte order mark, or broken |
| `data`, `base` | an instance's copy, and the baseline of its merge |
| `open`, `held` | the instances loaded, those whose saves are suspended |
| `job` | the save each thread is in |
| `meant`, `deleted`, `crossed` | history: what the changes meant, deleted keys, keys on which saves may have crossed |

A setter is `Set`, `Merge` (read the file, three-way merge), `Replace` (rename) and `Adopt` (take
what was written as copy and baseline): four steps without a lock. `Save` saves without a
change, `SaveFails` is a rename refused, `UserEdits` and `FileLost` the file's other writers.

*Run.* `state_file`: two instances (one with two threads), two keys, of which one has a default
per instance, two values, two changes, one outside event, an empty file or one of an earlier
run. Every key is merged by itself, so two keys show all that one save can do to another's.

`SetterWrites` is about the document a setter's save puts in place, not about the file from then
on: that is `ChangesKept`, with its exceptions.

*What `ChangesKept` leaves out* is what the code lets happen, and `crossed` names exactly that:
keys written between a saver's read and its rename (no lock); keys while a save cannot read the
file (`_load` accepts a byte order mark, `read_json_object` does not, and a save then takes the
file for empty and puts its old copy over the user's edit); and deleted keys, which an instance
that still holds one writes back ("Disagreements" 9). *Left out:* the dictionaries under one key
merge as one value; quarantine of a broken file is one step.

## Routing

Which repositories record a turn that edited several, one tracker and one watermark each.

| State | Code |
|---|---|
| `turns` | the transcripts: of each turn what it edited, how it stands, whether a sub-agent works for it |
| `twists` | how often a turn has gone on after it looked finished, ended otherwise than with an answer, or left a sub-agent |
| `up`, `stopped`, `resumed` | trackers and stop records (`"other"`: a command holds the lock) |
| `floor` | `routing_since` |
| `mark` | each repository's watermark for a conversation |
| `seen`, `job` | `_PROCESSED`; the conversation listed and not yet read |

`ProcessHome` is `_process_home`; `List` and `Place` are `record_elsewhere`, which lists a
conversation at one moment and reads it at another; both run `Pass`, the filter part of
`finish_parse_if_ready`: `HomeKeeps` or `ForeignKeeps` filter, `Waits` defers a poll for a
running turn or a sub-agent, `Trimmed` drops what follows the last answer, `Refuses` leaves
cancelled turns and monitor ticks. `PlaceFails` is a record git refuses. A turn's place is its
number, as prompts are in order. `fresh` and the removal from `seen` stand for the comparison of
the time a conversation was last written to with the time remembered.

*Run.* `routing`: one conversation of two turns started in `app` that may edit `lib`, one twist
(a turn that goes on after it looked finished, is cancelled, ends without a text or with a
monitor's tick, or starts a sub-agent) and one mishap: a stop, a termination, a crash, another
holder of the lock, a refused record. Two turns are the least in which a home steps past one
(it never does with the last). The home's own stop or end is met by plain turns only (`MCApart`,
an action constraint that keeps the run to 2 million states). The properties also hold without it
(3.2 million), and with the twist and the mishap drawn from one budget of two.

*Properties.* `OwnTurnsStay`: however a turn went on, none that edited its home is left to
others, unless a sub-agent edited the home after another turn had followed (`outgrown`).
`HandedOverIsClaimed`: what a home has left to others each of them records or still has
before it, unless it began to route or was stopped after the prompt. `NothingLeftUnseen`: a
tracker that does not read a conversation again because it has not changed has every answer of
it that is its own, unless git refused the record. It cannot be said of every turn: one that was
cancelled, ended without a text or is a monitor's tick stays before the watermark (`Held`) and
is remembered as seen with the rest, so its edits are recorded only if the conversation goes on
or a commit is made ("Disagreements" 15).

*Left out.* How a candidate is found, with the six hours beyond which nobody looks back;
interactive sessions (without a worktree they route the same way, with one they neither hand
over nor take); the auto-fold's wait for a turn running elsewhere; repositories found late
because the cache of roots is a minute old. What a home reads it places in the same step, since
it waits for its parse thread. A listing that fails changes nothing.

## What is proved

The proofs are about the same definitions the runs check, for every value of the constants.

**ExclusionProofs**, first of processes: RepoLock, from `None` being neither a process nor a file. `LockBacksBelief` is
inductive with the types: a process that believes it is the writer has the kernel's lock on the
file it has open, and whoever has a file's lock has that file open. Exclusion follows: two
writers that both guard the path hold the same file. The record needs the belief as well: only
the lock's owner writes it. `ReleaseIsSparing` is the same for the step that empties the record:
the record it finds is its own. The refinement maps SingleWriter's owner to the kernel's owner of
the file at the path; the step lemma `OwnerStep` shows that it never passes from one process to another.

Then of threads: TurnPipeline, from `PipelineAssumption` alone. `Steady` is inductive:
the types, that the lock and the places of the threads agree (`Locks`), that no more
prompts are on their way or with the agent than were entered (`Counted`, which bounds the turns),
and that what a thread has taken has a newest turn, or is one commit (`Taken`). `SubmitsAlone`
reads `SubmitsApart` off `Locks`. The three others hold with the resume as it is, and the proofs
are about the two threads crossing each other anywhere. `MergedIsKept` is by `Amends`: a thread
about to amend looks at a commit the base does not have, or at one that is marked; `Excuse` is the
lemma that whoever makes or merges a commit marks it if the other is about to amend.
`SummaryIsItsCommits` is by `Summ`: what a thread will write there is that commit's own summary,
unless the agent has committed or the commit is marked. `RecordedOnceOnly` is by `Fresh`: the
recorded turns that are not marked lie behind the watermark, behind the watermark of every result
that waits and behind the newest of the turns a thread has taken, and are not among these; a
result read while a thread has turns tells nothing of them that is not marked; and of two threads
that both have turns, what one has is all marked and reaches as far (`Covers`). The last is what
makes it inductive: the watermark may be set twice, and must not go back over a turn that counts.

**TurnCaptureProofs**, from the bounds being numbers. `TypeCorrect` needs `TypeInv`: besides the
types, a capture past its choice has at least one turn (`Last` of it is used). It rests on
lemmas that an export, the split at a stop and the trimming are segments of what they are given.
`StoppedStretchesStayOut` is the inductive `StretchInv`: stretches lie in the past; when no stop
is open they all ended by the floor; transcripts and the capture under way are ordered by their
prompts, all past; and rows with tokens, recorded or pending, lie outside every stretch. The
order is what makes it work: `split_untracked_turns` takes a prefix, and the turns before the
floor are a prefix only because prompts are in order. The theorem covers crashes, refused
records, compactions and any number of rows per second, which the run does not combine.
`WatermarkNeverGoesBack` is by `MarkInv`: a watermark is of the second its turn ended in, a parse
waiting to be finished was read with the watermark that still stands, and what a capture is about
to record was prompted no earlier than that watermark. It needs
`TurnsBy`, what an export says of time: the rows of a turn follow its prompt, and those of one turn
precede the next prompt.

`NoTurnCountedTwice` says `CountedOnce` of every behaviour in which no capture is cut off after it
has counted (`CutOff`: a crash or a refused commit) and no capture forgets what another
conversation, still marked at that turn, was captured with (`Displaces`). Those two are exactly
"Disagreements" 2 and 3 and the crash between the same saves; with either, TLC finds the turn
counted twice. Everything else is in: captures mid-flight, compactions, sub-agents, stops,
restarts and any number of rows per second. `NoTurnCountedTwiceAlone` is the case in which the
constants rule both out, which is that of `capture_stop`. The invariant `OnceInv` looks ahead: if
the turns a capture has read replace what was counted for their prompts (`Expected`), no turn has
more than its tokens (`Sound`). For that to last it also says that tokens count only at prompts
behind the watermark or about to be passed (`HeldBehindMark`), at the watermark itself only as
many as the turn was captured with (`HeldAtMark`), and that a turn never has fewer tokens than it
was read with. What is counted is a sum over rows. The lemmas about it (`TotalWithout`,
`TotalAtMost`) rest on an induction over sets of rows that is stated without an operator
parameter: of a non-empty collection of sets, one is minimal (`Smallest`).

`AnsweredTurnKept` has no theorem. Outside the bounds of `capture_crash` it is false: TLC finds an
answer passed over with two rows to a second and a crash (what a turn adds in the second of the
watermark is taken for counted), with a sub-agent and a flush, and with a compaction between the
read and the move of the watermark. All three are ordinary, so a theorem that excluded them would
say little about the code; the run shows that crashes, refusals and stops alone lose no answer.

**LatentFoldProofs**, from `SessionsAssumption`. `TypeCorrect`; and `NoTurnLost` by `FoldInv`:
commits of a branch are numbered in order and none was thrown away (so a ref that stands on a
commit of the branch is not abandoned); an amend still holds the turns of the commit it is about
to replace; and what the tracker has read covers what it is about to overwrite (`ReadsCover`):
the turns pending on its ref before a record, every pending turn before an auto fold, and after
it nothing is pending that is not also in a commit, thrown away or marked as folded. That third
part is the reason an update of a ref without its old value repeats turns and does not lose them.
`NoTurnFoldedTwice` by `OnceInv`: a turn that a commit holds, and that did not cross, is pending or
in the trailer only while the hook of that commit is yet to run; and a commit being written shares
a turn only with commits that landed since it began, which git will not let it follow. It needs
`RefsListed`: manual-ref names every ref with records on it, so that moving those refs leaves
nothing pending. `TrailerCurrentAtRest` by `RestInv`: as long as no commit has folded anything since the
tracker was last told, what a render has read still fits what is pending; a reset throws away
only turns that no older commit holds, because a turn is chained on a commit older than any that
holds it (`ChainedBefore`). The proof uses neither that HEAD is where the tracker last saw it nor
that the summary thread is idle.

**TrackerProofs**, from the pids being distinct (`PidsAssumption`) and "none" being no report
(`ReportsAssumption`). `Parts` has the types and that a flushing tracker serves a command's nonce.
`WriterHoldsLock` is inductive with it: a hand-over leaves the old tracker without the lock and
without a step that records, and `Reclaim` gives it both at once. `TeardownSparesSuccessor` then
follows from the lock: while a tracker tears down nobody else can have armed. The answers rest on
`AnswersOK`: what is recorded or requested was asked by a command that is asking or over; what
`flush-done` says is recorded; a request that is recorded is answered; a flushing tracker's own
nonce is the request, or the request is newer; and a tracker that read the files when it began
knows the request that was settled by then. The last part is why a restart does not serve again.
`ReplacedTurnIsKept` is by `TurnKept`, which reads off what a tracker was told what it may have
recorded: told nothing, it is on its way to a hand-over or not on its way at all; told of its
replacement and of nothing else, it has the marker naming it for as long as it lives.

**IntegrationProofs**, from `IntegrationAssumption`. One invariant in three parts gives all:
`RepoOK` (a worktree is on a turn branch of its own session or at commits some user branch
has; a turn branch that no worktree is on has landed; every commit is in some branch), `JobOK`
(what each git command of an operation relies on: that the merge was made before the
fast-forward, the fast-forward before the detach, the detach before the deletion) and `ProcOK`.
There is one lemma per action, with three conclusions: the invariant again, user branches only
grow, and a worktree goes only when its work is on one. `NoMarkersLand` assumes `~WhileMerging`.

**StateFileProofs**, from `StateAssumption`. `NewestChangeStands` by `LooksHold`: a save that has
looked at the file agrees with it on every key that is not its own change, has not been written
since and is present; at the rename that is the whole difference between what is written and
what everybody meant. `SetterAchieves` by `SettersOK`: a setter alone in its instance has its
value in the copy as a change against the baseline, and after the merge in the document it writes
(a process that merged before may still take it out of the file afterwards: `crossed`).

**SharedStoreProofs**, from `StoreAssumption` alone. A local ref is the remote's tip, or none, or
the clone's own rewrite of it (`RefsOK`). What a write relies on is stated for the moment its
lease still holds (`TreeOK`): the tree it made then carries what the remote has, but for the
entries it replaces on purpose or unread; and as long as nobody crossed it, that tree is the one
the local ref has (`StandsOK`, `FreshOK`). A push that lands changes the tip, so every other lease
is void. What one thread's step does to another is one notion, `Spared`: it may outdate its
lease, and what it rewrites of its ref is noted; `CrossMeans` shows that `Crosses` notes all of
it. `PushedStays`, `MenuHonest` and `AutoDigestPushed` come from that, and `ShelfStep` maps each
landing to a share, an unshare or a mix of SharedShelf and every other step to a stutter.

**RoutingProofs**, from `RoutingAssumption`. A turn that another one follows is over and gets nothing
more (`Frozen`), so only a sub-agent can change what it edited when a home steps past
it, and `outgrown` names those turns. Everything behind a watermark is recorded, skipped by a
stop, recorded in part or never the repository's (`Behind`); one lemma, `PassFacts`, says that of
what a pass chooses. `NothingLeftUnseen` needs a second part: a conversation that is remembered
has not been written to since it was gone through, and no sub-agent works for it (`Quiet`), so
what that pass said of its turns still stands (`NothingLeft`).

### Only model-checked

Liveness, which TLAPS does not do, as it does not do ENABLED: `EveryAnswerRecorded`,
`OrphanStandsDown`, `StopEndsTracker`, `HeldIsForwarded`, `CommitsLand`. Every safety property of
a passing run is proved but `AnsweredTurnKept`; `CountedOnce` under the hypotheses above, outside
which it is false. What a recursive operator computes for every input cannot be proved with the installed
provers: their induction theorems take an operator as a parameter. The one fold that the
theorems need, the sum in `CountedFor`, is proved about by minimality instead, and no module
that is proved about declares a RECURSIVE operator.

## Disagreements

Where the code does not do what a comment, docstring or test of it says. The first has a run of
its own that is expected to fail (`findings` in `PROJECT.json`); the others were each seen in a
counterexample, and the property or the constant that brings it back is named.

0. A turn committed while its worktree is in the middle of a conflicted merge concludes the
   merge with the markers in it, and the next integration takes it to the user's branch.
   (run `integration_markers`)
1. An interactive session never checks that its lock file still exists (`lock.py:115` against
   `background.py:2007`), so a second writer can run beside it. (`AnyModeStandsDown`)
2. One capture record serves all conversations (`commit_engine.py:1254`, "EXACTLY ONCE" at 1382);
   a flush that catches two counts the first again in full. (`CountedOnce` with `TwoConvBudget`)
3. Tokens are added before git is asked (`commit_engine.py:674` against 440) and not taken back
   when it refuses. (`CountedOnce` with `RefusedBudget`)
4. A stop is recorded before the tracker is told (`background.py:187` against 177 and 226), so
   its last look drops turns answered before the stop. (`StopRecordsFinalTurn`)
5. post-commit marks everything on the refs as folded, not what the message holds
   (`hooks.py:200`). (`KeptUntilACommitCarriesIt`)
6. Two threads render the trailer (`background.py:3005` against 2078). (`OneThreadRenders`)
7. A stop withdraws the hooks under a commit in progress (`manual.py:131` against 314).
   (`NeverFoldedAgain`)
8. The reactor resumes a held prompt without the pipeline lock (`runner.py:11038`), yet
   commits and merges in it: the worker then amends what was merged ("amending would rewrite
   integrated history", `runner.py:9829`; "so the two never run at once", 6923), and a reactor that
   finds nothing left to commit does not survive git's error. (`MergedStands` without `overrun`,
   `RecordedOnce` without `again`, `SummaryOnItsCommit` without `overrun`)
9. A deleted key comes back from an instance that never touched it (`fileio.py`, "deletions must
   propagate"), and a save takes a file with a byte order mark for empty.
   (`ChangesKept` without `deleted`, without `crossed`)
10. A SIGTERM that comes while a replacement fails is forgotten: `run` clears `_stop`
   (`background.py:1557` against 1946-1951). (`StopMeansStop` in Tracker)
11. A prompt submitted while the previous turn is parsed is forwarded when the parse is found
   alive; the commit then records one turn and carries the edits of two, or the user is offered
   the agent's edits as their own. (`EditsUnderTheirTurn`, `UserCommitIsUsers`)
12. A retry after a filtered fetch reads no stored transcript and overwrites the other
   contributor's turns (`store.py:395` against 101, "neither side's turns are lost"); and a push
   sends what another thread of the process has made of the local ref meanwhile, or finds it up to
   date, and is reported as pushed. (`PushedStays` without `Blind` in `Loose`; without `crossed`)
13. A manual share remembers its content as pushed even when the push failed ("Cache the digest
   ONLY after a real success"): `AutoDigestPushed` is about automatic shares for this reason.
14. A turn is handed over to a repository that runs a tracker which has not begun to route, or
   whose lock a one-shot command holds, and nobody records it (`routing.py:17-21`, "so a trace is
   never dropped on the floor just because it was meant for somewhere else"). (`NeverDropped`)
15. A turn that edited another repository and was cancelled, or ended without a text behind an
   answer, is not recorded there, and the conversation is remembered as seen
   (`commit_engine.py:1115` and 1167 against `routing.py:417`, "one interrupted turn" in the
   comment above it): its edits wait for the conversation to go on or for a commit.
   (`NothingLeftUnseen` without `Held`)
16. A home steps past a turn another has followed while the turn's sub-agent still works; what
   the sub-agent then edits at home is nobody's ("Only a turn some later turn has followed is
   over for sure", `commit_engine.py:1046-1051`). (`FollowedIsOver`)

Behaviour met while modelling that no comment rules out, which the bounds and histories above
exclude:

* TurnCapture: a turn caught mid-flight that ends without text is not exported again, so
  the rest of its tokens is in no commit; what a sub-agent spends after a commit captured its
  turn is lost; of two turns in one second the second is recorded without its tokens; a turn that
  a compaction merges into one being recorded is passed with it.
* LatentFold: a commit and its reset between two polls leave the thrown-away turn in the trailer
  (`Current` allows for it).
* Tracker: two starts, one of which replaces a tracker about to hand over, share the one marker
  file; the late `Disarm` of a stop removes a newer tracker's hooks; a tracker auto-started
  across a stop runs with the stop open ("this should be unreachable", `background.py:1593`); a
  parent that gives up reclaiming while its abandoned child tears down leaves nobody tracking.
* Integration: an agent's commit between the fast-forward and `branch -D` is on no branch; when a
  worktree's directory has vanished, removing it deletes every turn branch of its name; the sweep
  of a start forwards whatever branch the repo directory is on; a base branch that was deleted
  counts as having everything.
* TurnPipeline: a result with nothing new clears `parse_pending`, so edits can wait for
  the next prompt; a merge that is owed is not done while the worktree is dirty; an agent's commit
  between the look at HEAD and `--amend` is amended.
* Routing: a refused record of another folder's conversation is not tried again until the
  conversation changes or a commit is made (a failed export is); a destination stopped after the
  hand-over skips the turn; a turn may be in both repositories if the destination was down when
  its home placed it.
* Conversations (not modelled): a switch back to a conversation born in this run forgets its
  watermark (`runner.py:3281` against `state.py:434`, "so switching is exact"); the first turn
  after resuming a conversation older than the launch is never recorded; the rolling summary of
  the conversation left lands in the one switched to.

## Not modelled

The components marked `not_modelled` in `PROJECT.json`, each with its reason there. Of the
implementation's 81 thousand lines most are text, statistics and drawing: the dashboard and its
pages, the reconstruction of history for it, message rendering, transcript formats, the terminal
multiplexer's panes and keys, argument parsing, the editor extension. They keep no state that two
parties share, and a model of them would be a transliteration; the lines that decide who records
what, and when, are the ones mapped. Their few concurrent parts (the hub's lock, the updater's
lock, the hub's restart, the registry with one file per pid) repeat RepoLock and Tracker.

What a next version would add, most useful first: the switch of conversations inside the backend
(three disagreements above); the replay of history under the lock in `backtrace_commit.py`, a
pure rewriting of the commit graph; the editor's questions and answers over two queues.

## Checking it

```
tlasany LatentFold.tla
tlc -workers 2 -config MCLatentFold.cfg MCLatentFold
tlapm LatentFoldProofs.tla
```

With two workers `latent_fold` (2.9 million states) and `routing` (2.0 million) take two to three
minutes, `shared_store` (1.5 million) two, `tracker` (1.3 million) less, the other runs seconds to a minute. The eight proof
modules are checked from nothing in a few minutes each, `TurnCaptureProofs`, the largest with
about four thousand lines, in some more. A run whose constant admits a behaviour listed above (`WhileMerging`,
the budgets of TurnCapture) differs from its cfg in that constant only.
