---------------------------- MODULE TurnPipeline ----------------------------
(***************************************************************************)
(* The interactive proxy's path of a prompt and of the turn it starts, for  *)
(* the foreground session in its worktree: the reactor (the main thread)    *)
(* takes the prompts and applies summaries, the git worker commits finished *)
(* turns and merges them, a parse worker reads the conversation and a       *)
(* summary worker asks the model.  _pipeline_lock keeps the worker's git    *)
(* apart from the reactor's, but for a held prompt: the reactor resumes it  *)
(* without the lock.                                                        *)
(*                                                                         *)
(* A turn is its number.  `tree' and `index' hold the turns whose edits are *)
(* uncommitted and staged (0: the user's own edits in the worktree), a      *)
(* commit says whose edits it carries, which turns its message records and  *)
(* whose summary was amended into it.  The base branch is moved by this     *)
(* session alone: merges with other sessions are module Integration's.      *)
(***************************************************************************)
EXTENDS Naturals, FiniteSets, Sequences

CONSTANTS
    MaxTurns,      \* bound: prompts
    Extras         \* bound: `git commit' by the agent and edits of the user, one of each at most

ASSUME PipelineAssumption ==
    /\ MaxTurns \in Nat \ {0}
    /\ Extras \in 0 .. 2

VARIABLES
    turn, running, queued,   \* the agent: last turn begun, whether it runs, prompts waiting
    quiet,                   \* terminal and transcript silent for CHILD_IDLE_SECONDS
    tree, index,             \* whose edits are uncommitted, and staged
    branch, base,            \* commits of the session and of the base branch
    onBranch,                \* on a turn branch (else detached at the base)
    parse,                   \* agent_parse_thread and agent_parse_result
    cooling,                 \* PARSE_COOLDOWN_SECONDS since the last parse
    mark,                    \* last_backend_message_id: the last recorded turn
    inFlight, awaiting,      \* agent_in_flight, turn_awaiting_commit
    awaited,                 \* _awaited_followups
    look,                    \* file_change_event or status_check_pending
    dirtySeen, parsePending, \* last_status, parse_pending
    reconciled,              \* pre_agent_reconciled_status
    held,                    \* pending_forwarded
    lock,                    \* _pipeline_lock
    job,                     \* where each thread is
    pending, summarizing, summary, \* _summary_pending, _summary_thread, _summary_result
    \* The rest is history.
    overrun,                 \* commits made or merged between the other thread's look at
                             \* HEAD and its `--amend'
    again                    \* turns read while a thread had yet to commit what it had taken,
                             \* taken by both threads, or in a commit merged under an amend

agentVars == <<turn, running, queued, quiet>>
gitVars == <<tree, index, branch, base, onBranch>>
parseVars == <<parse, cooling, mark>>
flagVars == <<inFlight, awaiting, awaited, reconciled, held>>
watchVars == <<look, dirtySeen, parsePending>>
sumVars == <<pending, summarizing, summary>>
history == <<overrun, again>>
vars == <<agentVars, gitVars, parseVars, flagVars, watchVars, sumVars, lock, job, history>>

Threads == {"main", "worker"}
Free == "free"
Turns == 1 .. MaxTurns
Commits == Nat \ {0}

NoParse == [st |-> "none", mark |-> 0, upto |-> 0, open |-> FALSE]
Rest == [at |-> "rest", why |-> "none", turns |-> {}, seen |-> {}, got |-> "wait"]

Init ==
    /\ turn = 0 /\ running = FALSE /\ queued = 0 /\ quiet = TRUE
    /\ tree = {} /\ index = {} /\ branch = <<>> /\ base = <<>> /\ onBranch = FALSE
    /\ parse = NoParse /\ cooling = FALSE /\ mark = 0
    /\ inFlight = FALSE /\ awaiting = FALSE /\ awaited = {} /\ reconciled = {} /\ held = FALSE
    /\ look = FALSE /\ dirtySeen = FALSE /\ parsePending = FALSE
    /\ lock = Free /\ job = [t \in Threads |-> Rest]
    /\ pending = 0 /\ summarizing = 0 /\ summary = 0
    /\ overrun = {} /\ again = {}

Dirt == tree \cup index
Top == branch[Len(branch)]
IsAhead == onBranch /\ Len(branch) > Len(base)
Alive == parse.st \in {"run", "read"}
Active == inFlight \/ Alive

\* The agent's own commits that no commit of aGiTrack on the turn branch follows.
Uncovered ==
    {i \in DOMAIN branch : /\ onBranch /\ i > Len(base) /\ branch[i].by = "agent"
                           /\ \A j \in i .. Len(branch) : branch[j].by = "agent"}

Other(t) == IF t = "main" THEN "worker" ELSE "main"

\* A commit of thread t between the other's look at HEAD and its amend.
Over(t) == IF job[Other(t)].at = "amend" THEN {Len(branch')} ELSE {}

Made(by, edits, records) ==
    Append(branch, [n |-> Len(branch) + 1, by |-> by, edits |-> edits,
                    records |-> records, text |-> 0])

Go(t, at) == job' = [job EXCEPT ![t].at = at]
Leave(t) == /\ job' = [job EXCEPT ![t] = Rest]
            /\ lock' = IF lock = t THEN Free ELSE lock

-----------------------------------------------------------------------------
(* The agent, the user's editor and the two helper threads.                 *)

\* The backend takes a prompt: at once, or after the turn that is running.
Handed ==
    IF running THEN /\ queued' = queued + 1
                    /\ UNCHANGED <<turn, running>>
               ELSE /\ turn' = turn + 1 /\ running' = TRUE
                    /\ UNCHANGED queued

AgentSpeaks ==
    /\ running /\ quiet
    /\ quiet' = FALSE
    /\ UNCHANGED <<turn, running, queued, gitVars, parseVars, flagVars, watchVars, sumVars, lock, job, history>>

AgentEdits ==
    /\ running /\ turn \notin tree
    /\ tree' = tree \cup {turn} /\ look' = TRUE /\ quiet' = FALSE
    /\ UNCHANGED <<turn, running, queued, index, branch, base, onBranch, parseVars, flagVars,
                   dirtySeen, parsePending, sumVars, lock, job, history>>

AgentDid == \E i \in DOMAIN branch : branch[i].by = "agent"
UserDid == 0 \in Dirt \/ \E i \in DOMAIN branch : 0 \in branch[i].edits

\* `git commit -a' by the agent; never between aGiTrack's `git add' and its commit.
AgentCommit ==
    /\ ~AgentDid /\ Extras > (IF UserDid THEN 1 ELSE 0)
    /\ running /\ tree # {} /\ index = {}
    /\ \A t \in Threads : job[t].at \notin {"commit", "cover"}
    /\ branch' = Made("agent", tree, {})
    /\ tree' = {} /\ quiet' = FALSE
    /\ UNCHANGED <<turn, running, queued, index, base, onBranch, parseVars, flagVars, watchVars,
                   sumVars, lock, job, history>>

TurnEnds ==
    /\ running
    /\ quiet' = FALSE
    /\ IF queued > 0 THEN turn' = turn + 1 /\ queued' = queued - 1 /\ UNCHANGED running
                     ELSE running' = FALSE /\ UNCHANGED <<turn, queued>>
    /\ UNCHANGED <<gitVars, parseVars, flagVars, watchVars, sumVars, lock, job, history>>

FallsQuiet ==
    /\ ~running /\ ~quiet
    /\ quiet' = TRUE
    /\ UNCHANGED <<turn, running, queued, gitVars, parseVars, flagVars, watchVars, sumVars, lock, job, history>>

UserEdit ==
    /\ ~UserDid /\ Extras > (IF AgentDid THEN 1 ELSE 0)
    /\ tree' = tree \cup {0} /\ look' = TRUE
    /\ UNCHANGED <<agentVars, index, branch, base, onBranch, parseVars, flagVars, dirtySeen,
                   parsePending, sumVars, lock, job, history>>

StartParse == parse' = IF parse.st = "none" THEN [NoParse EXCEPT !.st = "run"] ELSE parse

\* What a thread has taken and not committed is still ahead of the watermark.
Committing(t) == job[t].at \in {"stage", "commit", "cover"}

ParseReads ==
    /\ parse.st = "run"
    /\ parse' = [st |-> "read", mark |-> mark, upto |-> turn, open |-> running]
    /\ again' = IF \E t \in Threads : Committing(t) THEN again \cup (mark + 1 .. turn) ELSE again
    /\ UNCHANGED <<agentVars, gitVars, cooling, mark, flagVars, watchVars, sumVars, lock, job, overrun>>

ParseEnds ==
    /\ parse.st = "read"
    /\ parse' = [parse EXCEPT !.st = "done"] /\ cooling' = TRUE
    /\ UNCHANGED <<agentVars, gitVars, mark, flagVars, watchVars, sumVars, lock, job, history>>

Cools ==
    /\ cooling
    /\ cooling' = FALSE
    /\ UNCHANGED <<agentVars, gitVars, parse, mark, flagVars, watchVars, sumVars, lock, job, history>>

SummaryEnds ==
    /\ summarizing # 0
    /\ summary' = summarizing /\ summarizing' = 0
    /\ UNCHANGED <<agentVars, gitVars, parseVars, flagVars, watchVars, pending, lock, job, history>>

-----------------------------------------------------------------------------
(* A finished parse becomes a commit.  Both threads run these steps.        *)

\* A result is taken and looked at; without one there is nothing to tell yet.
TakeNothing(t) ==
    /\ job[t].at = "take" /\ parse.st # "done"
    /\ job' = [job EXCEPT ![t].at = "next", ![t].got = "wait"]
    /\ UNCHANGED <<agentVars, gitVars, parseVars, flagVars, watchVars, sumVars, lock, history>>

\* Mutant: the last recorded turn counts as new.
NewTurnsInclusive == {k \in 1 .. parse.upto : k >= parse.mark /\ k > 0}

NewTurns == {k \in 1 .. parse.upto : k > parse.mark}
NotSeenYet == {k \in awaited : k > parse.upto}

\* Both threads may have got the result before either clears it.
Cleared(t) ==
    \/ parse' = NoParse /\ UNCHANGED again
    \/ /\ job[Other(t)].at = "take"
       /\ again' = again \cup NewTurns /\ UNCHANGED parse

\* Queued prompts the transcript does not show, or a turn still running: not yet.
TakeDeferred(t) ==
    /\ job[t].at = "take" /\ parse.st = "done"
    /\ IF NotSeenYet # {} /\ inFlight
       THEN awaited' = NotSeenYet
       ELSE awaited' = {} /\ parse.open /\ NewTurns # {}
    /\ Cleared(t)
    /\ job' = [job EXCEPT ![t].at = "next", ![t].got = "wait"]
    /\ UNCHANGED <<agentVars, gitVars, cooling, mark, inFlight, awaiting, reconciled, held,
                   watchVars, sumVars, lock, overrun>>

Concluded == ~(NotSeenYet # {} /\ inFlight) /\ ~(parse.open /\ NewTurns # {})

TakeEmpty(t) ==
    /\ job[t].at = "take" /\ parse.st = "done" /\ Concluded /\ NewTurns = {}
    /\ awaited' = {} /\ awaiting' = FALSE
    /\ Cleared(t)
    /\ job' = [job EXCEPT ![t].at = "next", ![t].got = "no"]
    /\ UNCHANGED <<agentVars, gitVars, cooling, mark, inFlight, reconciled, held, watchVars,
                   sumVars, lock, overrun>>

Take(t) ==
    /\ job[t].at = "take" /\ parse.st = "done" /\ Concluded /\ NewTurns # {}
    /\ awaited' = {}
    /\ Cleared(t)
    /\ job' = [job EXCEPT ![t].at = "stage", ![t].turns = NewTurns]
    /\ UNCHANGED <<agentVars, gitVars, cooling, mark, inFlight, awaiting, reconciled, held,
                   watchVars, sumVars, lock, overrun>>

\* pre_commit_fn puts the session on a turn branch, then everything is staged.
Stage(t) ==
    /\ job[t].at = "stage"
    /\ onBranch' = TRUE
    /\ index' = Dirt /\ tree' = {}
    /\ IF Dirt # {} \/ Uncovered # {}
       THEN Go(t, IF Uncovered # {} THEN "cover" ELSE "commit") /\ UNCHANGED awaiting
       ELSE /\ job' = [job EXCEPT ![t].at = "next", ![t].got = "no"]
            /\ awaiting' = FALSE
    /\ UNCHANGED <<agentVars, branch, base, parseVars, inFlight, awaited, reconciled, held,
                   watchVars, sumVars, lock, history>>

\* The commit, or the cover of the agent's own, the watermark and the summary's start.
Recorded(t) ==
    /\ branch' = Made("agitrack", index, job[t].turns)
    /\ index' = {}
    /\ mark' = CHOOSE k \in job[t].turns : \A j \in job[t].turns : j <= k
    /\ inFlight' = FALSE /\ awaiting' = FALSE /\ dirtySeen' = FALSE
    /\ IF summarizing = 0
       THEN pending' = Len(branch') /\ summarizing' = Len(branch') /\ summary' = 0
       ELSE UNCHANGED sumVars
    /\ overrun' = overrun \cup Over(t)
    /\ job' = [job EXCEPT ![t].got = "yes",
                          ![t].at = IF job[t].why = "cover" THEN "next" ELSE "blocked?"]
    /\ UNCHANGED lock

Commit(t) ==
    /\ job[t].at \in {"commit", "cover"} /\ (job[t].at = "commit" => index # {})
    /\ Recorded(t)
    /\ UNCHANGED <<agentVars, tree, base, onBranch, parse, cooling, awaited, reconciled, held,
                   look, parsePending, again>>

\* git has nothing to commit when the other thread has committed it: the worker gives up its
\* pass, the reactor does not survive.
CommitFails(t) ==
    /\ job[t].at = "commit" /\ index = {}
    /\ IF t = "worker" THEN Leave(t) ELSE Go(t, "dead") /\ UNCHANGED lock
    /\ UNCHANGED <<agentVars, gitVars, parseVars, flagVars, watchVars, sumVars, history>>

\* _summary_blocks_integration: a running summary holds the merge until its deadline.
Blocks(t) ==
    /\ job[t].at = "blocked?" /\ pending # 0 /\ summarizing # 0
    /\ IF job[t].why = "owed" THEN Leave(t) ELSE Go(t, "next") /\ UNCHANGED lock
    /\ UNCHANGED <<agentVars, gitVars, parseVars, flagVars, watchVars, sumVars, history>>

AppliesFirst(t) ==
    /\ job[t].at = "blocked?" /\ pending # 0 /\ summarizing = 0
    /\ Go(t, "apply")
    /\ UNCHANGED <<agentVars, gitVars, parseVars, flagVars, watchVars, sumVars, lock, history>>

Unblocked(t) ==   \* with a summary pending: past SUMMARY_WAIT_SECONDS
    /\ job[t].at = "blocked?"
    /\ CASE job[t].why # "owed" -> Go(t, "land")
         [] Uncovered = {} -> Go(t, "land")
         [] OTHER -> job' = [job EXCEPT ![t].at = "take", ![t].why = "cover"]
    /\ UNCHANGED <<agentVars, gitVars, parseVars, flagVars, watchVars, sumVars, lock, history>>

\* Merging the base in and fast-forwarding it.  A merged commit that was amended since comes
\* back beside its new form.
Merged == IF \A i \in DOMAIN base : base[i] = branch[i]
          THEN branch
          ELSE Append(branch, [n |-> Len(branch) + 1, by |-> "agitrack", edits |-> {}, text |-> 0,
                               records |-> UNION {base[i].records : i \in {j \in DOMAIN base : base[j] # branch[j]}}])

\* The commits of a merge that comes between the other thread's look at HEAD and its amend.
Merge(t) ==
    /\ branch' = Merged /\ base' = Merged
    /\ overrun' = overrun \cup Over(t)
    /\ again' = IF Over(t) = {} THEN again ELSE again \cup Merged[Len(Merged)].records

\* Then the session is detached and the turn branch deleted.
Land(t) ==
    /\ job[t].at = "land"
    /\ IF onBranch THEN Merge(t) ELSE UNCHANGED <<branch, base, history>>
    /\ onBranch' = FALSE
    /\ IF job[t].why \in {"cover", "owed"} THEN Leave(t) ELSE Go(t, "next") /\ UNCHANGED lock
    /\ UNCHANGED <<agentVars, tree, index, parseVars, flagVars, watchVars, sumVars>>

\* Mutants: HEAD is amended whatever commit it is; a merged commit is amended too.
ApplyToHead(t) ==
    /\ job[t].at = "apply"
    /\ summary' = 0 /\ pending' = 0
    /\ IF summary # 0 /\ IsAhead /\ Top.text = 0 /\ index = {}
       THEN job' = [job EXCEPT ![t].at = "amend", ![t].turns = {summary}] /\ UNCHANGED lock
       ELSE IF job[t].why = "tick" THEN Leave(t) ELSE Go(t, "blocked?") /\ UNCHANGED lock
    /\ UNCHANGED <<agentVars, gitVars, parseVars, flagVars, watchVars, summarizing, history>>

ApplyMerged(t) ==
    /\ job[t].at = "apply"
    /\ summary' = 0 /\ pending' = 0
    /\ IF summary # 0 /\ Top.n = summary /\ Top.text = 0 /\ index = {}
       THEN job' = [job EXCEPT ![t].at = "amend", ![t].turns = {summary}] /\ UNCHANGED lock
       ELSE IF job[t].why = "tick" THEN Leave(t) ELSE Go(t, "blocked?") /\ UNCHANGED lock
    /\ UNCHANGED <<agentVars, gitVars, parseVars, flagVars, watchVars, summarizing, history>>

\* _service_commit_summary: a result is amended only into an unmerged HEAD with nothing
\* staged; the model may also have failed.
Apply(t) ==
    /\ job[t].at = "apply"
    /\ summary' = 0 /\ pending' = 0
    /\ \/ /\ summary # 0 /\ IsAhead /\ Top.n = summary /\ Top.text = 0 /\ index = {}
          /\ job' = [job EXCEPT ![t].at = "amend", ![t].turns = {summary}]
          /\ UNCHANGED lock
       \/ IF job[t].why = "tick" THEN Leave(t) ELSE Go(t, "blocked?") /\ UNCHANGED lock
    /\ UNCHANGED <<agentVars, gitVars, parseVars, flagVars, watchVars, summarizing, history>>

Amend(t) ==
    /\ job[t].at = "amend"
    /\ branch' = [branch EXCEPT ![Len(branch)].text = CHOOSE n \in job[t].turns : TRUE]
    /\ IF job[t].why = "tick" THEN Leave(t) ELSE Go(t, "blocked?") /\ UNCHANGED lock
    /\ UNCHANGED <<agentVars, tree, index, base, onBranch, parseVars, flagVars, watchVars, sumVars, history>>

-----------------------------------------------------------------------------
(* The git worker's pass.                                                   *)

\* Mutant: a merge is owed only when the status has just been read.
MergeOwedOnLook == look /\ ~inFlight' /\ ~Alive /\ quiet /\ IsAhead

\* _integrate_agent_made_commits_if_idle: the session is idle and ahead of the base.
MergeOwed == ~inFlight' /\ ~Alive /\ quiet /\ IsAhead

\* One pass of _maybe_agent_commit up to the point where it needs a parse result.
Pass ==
    /\ lock = Free /\ job["worker"].at = "rest" /\ job["main"].at # "dead"
    /\ inFlight' = (inFlight /\ ~quiet)
    /\ quiet \/ ~look
    /\ look' = FALSE
    /\ dirtySeen' = IF look THEN Dirt # {} ELSE dirtySeen
    /\ parsePending' = IF look THEN Dirt # {} ELSE parsePending
    /\ \/ /\ ~dirtySeen'
          /\ awaiting' = FALSE
          /\ IF MergeOwed
             THEN /\ job' = [job EXCEPT !["worker"] = [Rest EXCEPT !.at = "blocked?", !.why = "owed"]]
                  /\ lock' = "worker"
             ELSE UNCHANGED <<job, lock>>
       \/ /\ dirtySeen'
          /\ UNCHANGED awaiting
          /\ IF ~Alive /\ quiet
             THEN /\ job' = [job EXCEPT !["worker"] = [Rest EXCEPT !.at = "take", !.why = "pass"]]
                  /\ lock' = "worker"
             ELSE UNCHANGED <<job, lock>>
    /\ UNCHANGED <<agentVars, gitVars, parseVars, awaited, reconciled, held, sumVars, history>>

\* What the pass does with the answer: a turn that is still running is parsed again.
PassNext ==
    /\ job["worker"].at = "next" /\ job["worker"].why = "pass"
    /\ Leave("worker")
    /\ IF job["worker"].got = "wait"
       THEN /\ IF parsePending /\ ~cooling THEN StartParse ELSE UNCHANGED parse
            /\ UNCHANGED parsePending
       ELSE parsePending' = FALSE /\ UNCHANGED parse
    /\ UNCHANGED <<agentVars, gitVars, cooling, mark, flagVars, look, dirtySeen, sumVars, history>>

\* The agent's own commits go to the base once the conversation is attached to them.
CoverNext ==
    /\ job["worker"].at = "next" /\ job["worker"].why = "cover"
    /\ IF job["worker"].got = "wait" THEN StartParse /\ Leave("worker")
                                     ELSE UNCHANGED <<parse, lock>> /\ Go("worker", "land")
    /\ UNCHANGED <<agentVars, gitVars, cooling, mark, flagVars, watchVars, sumVars, history>>

CoverDeadline ==
    /\ job["worker"].at = "next" /\ job["worker"].why = "cover" /\ job["worker"].got = "wait"
    /\ Go("worker", "land")
    /\ UNCHANGED <<agentVars, gitVars, parseVars, flagVars, watchVars, sumVars, lock, history>>

-----------------------------------------------------------------------------
(* The reactor: prompts, held prompts and summaries.                        *)

Prompts == turn + queued + (IF held THEN 1 ELSE 0)

\* Mutant: the reactor does not wait for the worker.
SubmitUnlocked ==
    /\ job["main"].at = "rest" /\ ~held /\ Prompts < MaxTurns
    /\ inFlight' = (inFlight /\ ~quiet)
    /\ job' = [job EXCEPT !["main"] = [Rest EXCEPT !.at = "take", !.why = "submit", !.seen = Dirt]]
    /\ UNCHANGED <<agentVars, gitVars, parseVars, awaiting, awaited, reconciled, held, watchVars,
                   sumVars, lock, history>>

\* The user presses Enter; one prompt at a time is held.
Submit ==
    /\ lock = Free /\ job["main"].at = "rest" /\ ~held /\ Prompts < MaxTurns
    /\ lock' = "main"
    /\ inFlight' = (inFlight /\ ~quiet)
    /\ job' = [job EXCEPT !["main"] = [Rest EXCEPT !.at = "take", !.why = "submit", !.seen = Dirt]]
    /\ UNCHANGED <<agentVars, gitVars, parseVars, awaiting, awaited, reconciled, held, watchVars, sumVars, history>>

\* The status read before the result was taken, against pre_agent_reconciled_status: the
\* same files may be dirty whoever wrote in them.
MayDiffer == job["main"].seen # {} /\ job["main"].got # "no"
MayEqual == \/ job["main"].seen = {}
            \/ job["main"].got = "no"
            \/ job["main"].got = "wait" /\ reconciled # {}

Reconciled == CASE job["main"].got = "yes" -> {}
                [] job["main"].got = "no" -> job["main"].seen
                [] OTHER -> reconciled

\* A prompt entered while the agent is busy follows the turn that runs.
SubmitFollowUp ==
    /\ job["main"].at = "next" /\ job["main"].why = "submit"
    /\ job["main"].seen # {} /\ Active
    /\ awaited' = awaited \cup {turn + queued + 1}
    /\ reconciled' = IF job["main"].got = "yes" THEN {} ELSE reconciled
    /\ Go("main", "begin") /\ lock' = Free
    /\ UNCHANGED <<agentVars, gitVars, parseVars, inFlight, awaiting, held, watchVars, sumVars, history>>

\* Edits of unknown origin: the prompt is held until the conversation has been read.
SubmitHeld ==
    /\ job["main"].at = "next" /\ job["main"].why = "submit"
    /\ job["main"].seen # {} => ~Active
    /\ MayDiffer /\ parse.st = "none"
    /\ reconciled' = Reconciled
    /\ StartParse
    /\ held' = TRUE
    /\ Leave("main")
    /\ UNCHANGED <<agentVars, gitVars, cooling, mark, inFlight, awaiting, awaited, watchVars, sumVars, history>>

SubmitClear ==
    /\ job["main"].at = "next" /\ job["main"].why = "submit"
    /\ job["main"].seen # {} => ~Active
    /\ MayEqual \/ parse.st # "none"
    /\ reconciled' = Reconciled
    /\ Go("main", "offer")
    /\ UNCHANGED <<agentVars, gitVars, parseVars, inFlight, awaiting, awaited, held, watchVars, sumVars, lock, history>>

\* _resume_pending_prompt_now, which the reactor runs without the lock.
Resume ==
    /\ held /\ job["main"].at = "rest"
    /\ job' = [job EXCEPT !["main"] = [Rest EXCEPT !.at = "take", !.why = "resume"]]
    /\ UNCHANGED <<agentVars, gitVars, parseVars, flagVars, watchVars, sumVars, lock, history>>

\* Mutant: without a result the prompt stays held.
ResumeHolds ==
    /\ job["main"].at = "next" /\ job["main"].why = "resume"
    /\ CASE job["main"].got = "wait" -> Leave("main")
         [] job["main"].got = "no" -> Go("main", "offer") /\ UNCHANGED lock
         [] OTHER -> Go("main", "forward") /\ UNCHANGED lock
    /\ UNCHANGED <<agentVars, gitVars, parseVars, flagVars, watchVars, sumVars, history>>

\* Still parsing: look again.  A result that is gone reads as a turn still running.
ResumeNext ==
    /\ job["main"].at = "next" /\ job["main"].why = "resume"
    /\ CASE job["main"].got = "wait" /\ Alive -> Leave("main")
         [] job["main"].got = "no" -> Go("main", "offer") /\ UNCHANGED lock
         [] OTHER -> Go("main", "forward") /\ UNCHANGED lock
    /\ UNCHANGED <<agentVars, gitVars, parseVars, flagVars, watchVars, sumVars, history>>

\* What a finished turn left is not the user's; anything else may be committed as theirs.  The
\* submit path asks the status it has read already (git_read_cache) unless it committed since.
Offered == /\ ~awaiting /\ Dirt # {}
           /\ job["main"].why = "submit" /\ job["main"].got # "yes" => job["main"].seen # {}

AfterOffer == IF job["main"].why = "submit" THEN Go("main", "begin") /\ lock' = Free
                                            ELSE Go("main", "forward") /\ UNCHANGED lock

OfferSkipped ==
    /\ job["main"].at = "offer" /\ ~Offered
    /\ AfterOffer
    /\ UNCHANGED <<agentVars, gitVars, parseVars, flagVars, watchVars, sumVars, history>>

OfferDeclined ==   \* what was staged for the user to see stays staged
    /\ job["main"].at = "offer" /\ Offered
    /\ onBranch' = TRUE /\ index' = Dirt /\ tree' = {}
    /\ AfterOffer
    /\ UNCHANGED <<agentVars, branch, base, parseVars, flagVars, watchVars, sumVars, history>>

OfferTaken ==
    /\ job["main"].at = "offer" /\ Offered
    /\ onBranch' = TRUE /\ index' = {} /\ tree' = {}
    /\ branch' = Made("user", Dirt, {})
    /\ overrun' = overrun \cup Over("main")
    /\ AfterOffer
    /\ UNCHANGED <<agentVars, base, parseVars, flagVars, watchVars, sumVars, again>>

\* The previous turn is merged unless edits are open, and the session gets a turn branch.
BeforeTurn ==
    /\ IF Dirt = {} /\ IsAhead THEN Merge("main") ELSE UNCHANGED <<branch, base, history>>
    /\ onBranch' = TRUE

Begun == inFlight' = TRUE /\ awaiting' = TRUE

Begin ==
    /\ job["main"].at = "begin"
    /\ Begun
    /\ Go("main", "branch")
    /\ UNCHANGED <<agentVars, gitVars, parseVars, awaited, reconciled, held, watchVars, sumVars, lock, history>>

Branch ==
    /\ job["main"].at = "branch" /\ lock = Free
    /\ BeforeTurn
    /\ Handed
    /\ Leave("main")
    /\ UNCHANGED <<quiet, tree, index, parseVars, flagVars, watchVars, sumVars>>

Forward ==
    /\ job["main"].at = "forward"
    /\ held' = FALSE
    /\ BeforeTurn
    /\ Go("main", "hand")
    /\ UNCHANGED <<agentVars, tree, index, parseVars, inFlight, awaiting, awaited,
                   reconciled, watchVars, sumVars, lock>>

Hand ==
    /\ job["main"].at = "hand"
    /\ Begun
    /\ Handed
    /\ Leave("main")
    /\ UNCHANGED <<quiet, gitVars, parseVars, awaited, reconciled, held, watchVars, sumVars, history>>

\* The timers phase applies a finished summary, under the lock.
Tick ==
    /\ job["main"].at = "rest" /\ lock = Free /\ summary # 0
    /\ lock' = "main"
    /\ job' = [job EXCEPT !["main"] = [Rest EXCEPT !.at = "apply", !.why = "tick"]]
    /\ UNCHANGED <<agentVars, gitVars, parseVars, flagVars, watchVars, sumVars, history>>

-----------------------------------------------------------------------------
Steps(t) ==
    \/ TakeNothing(t) \/ TakeDeferred(t) \/ TakeEmpty(t) \/ Take(t) \/ Stage(t) \/ Commit(t)
    \/ CommitFails(t) \/ Blocks(t) \/ AppliesFirst(t) \/ Unblocked(t) \/ Land(t) \/ Apply(t) \/ Amend(t)

Worker == Pass \/ PassNext \/ CoverNext \/ CoverDeadline \/ Steps("worker")

Reactor ==
    \/ SubmitFollowUp \/ SubmitHeld \/ SubmitClear \/ Resume \/ ResumeNext \/ OfferSkipped
    \/ OfferDeclined \/ OfferTaken \/ Begin \/ Branch \/ Forward \/ Hand \/ Tick \/ Steps("main")

Next ==
    \/ AgentSpeaks \/ AgentEdits \/ AgentCommit \/ TurnEnds \/ FallsQuiet \/ UserEdit
    \/ ParseReads \/ ParseEnds \/ Cools \/ SummaryEnds
    \/ Submit \/ Worker \/ Reactor

Spec == Init /\ [][Next]_vars

\* Every thread goes on, every turn and every model call ends; nobody has to prompt or edit.
Fairness ==
    /\ WF_vars(Worker) /\ SF_vars(Reactor)
    /\ WF_vars(TurnEnds) /\ WF_vars(FallsQuiet)
    /\ WF_vars(ParseReads) /\ WF_vars(ParseEnds) /\ WF_vars(Cools) /\ WF_vars(SummaryEnds)

FairSpec == Spec /\ Fairness

-----------------------------------------------------------------------------
Commit_ == [n : Commits, by : {"agitrack", "agent", "user"}, edits : SUBSET (0 .. MaxTurns),
            records : SUBSET Turns, text : {0} \cup Commits]

Places == {"rest", "take", "stage", "commit", "cover", "next", "blocked?", "apply", "amend", "land", "offer",
           "begin", "branch", "forward", "hand", "dead"}
Reasons == {"none", "pass", "owed", "cover", "submit", "resume", "tick"}

Job == [at : Places, why : Reasons, turns : SUBSET Commits, seen : SUBSET (0 .. MaxTurns),
        got : {"yes", "no", "wait"}]

TypeOK ==
    /\ turn \in 0 .. MaxTurns /\ queued \in 0 .. MaxTurns
    /\ running \in BOOLEAN /\ quiet \in BOOLEAN
    /\ tree \subseteq 0 .. MaxTurns /\ index \subseteq 0 .. MaxTurns
    /\ branch \in Seq(Commit_) /\ base \in Seq(Commit_) /\ onBranch \in BOOLEAN
    /\ parse \in [st : {"none", "run", "read", "done"}, mark : 0 .. MaxTurns,
                  upto : 0 .. MaxTurns, open : BOOLEAN]
    /\ cooling \in BOOLEAN /\ mark \in 0 .. MaxTurns
    /\ inFlight \in BOOLEAN /\ awaiting \in BOOLEAN /\ held \in BOOLEAN
    /\ awaited \subseteq Turns /\ reconciled \subseteq 0 .. MaxTurns
    /\ look \in BOOLEAN /\ dirtySeen \in BOOLEAN /\ parsePending \in BOOLEAN
    /\ lock \in Threads \cup {Free} /\ job \in [Threads -> Job]
    /\ pending \in {0} \cup Commits /\ summarizing \in {0} \cup Commits
    /\ summary \in {0} \cup Commits
    /\ overrun \subseteq Commits /\ again \subseteq Turns

\* What the lock is there for: what the reactor does for a prompt being submitted, or for a
\* finished summary, and the worker's passes never overlap; only a held prompt's resume does.
SubmitsApart ==
    \/ job["main"].at \in {"rest", "begin", "branch", "dead"} \/ job["main"].why = "resume"
    \/ job["worker"].at = "rest"

RecordedBy(i) == UNION {branch[j].records : j \in 1 .. i}

\* A commit aGiTrack makes never carries the edits of a turn that neither it nor a commit
\* before it records: the turn a line is filed under is the turn that wrote it.
EditsUnderTheirTurn ==
    \A i \in DOMAIN branch :
        branch[i].by = "agitrack" => branch[i].edits \ {0} \subseteq RecordedBy(i)

\* What the user is offered to commit as their own before a prompt is theirs.
UserCommitIsUsers ==
    \A i \in DOMAIN branch : branch[i].by = "user" => branch[i].edits \subseteq {0}

\* No turn is recorded by two commits, but one that was read again before the thread that had
\* taken it committed it, and those of a commit that was merged under an amend.
RecordedOnce ==
    \A i, j \in DOMAIN branch : i # j => branch[i].records \cap branch[j].records \subseteq again

\* What was merged into the base stays as it was merged: the base is a prefix of the session,
\* but for a commit that was merged between the other thread's look at HEAD and its amend.
MergedStands == /\ Len(base) <= Len(branch)
                /\ \A i \in DOMAIN base : base[i] = branch[i] \/ i \in overrun

\* A summary is amended into the commit it was written for and no other commit of aGiTrack's
\* or the user's, unless that was made between the look at HEAD and the amend.  (So may the
\* agent's own commits be, and a summary can end up in them.)
SummaryOnItsCommit ==
    \A i \in DOMAIN branch :
        branch[i].text # 0 /\ branch[i].by # "agent" => branch[i].text = branch[i].n \/ i \in overrun

\* A prompt that was held reaches the agent, if the reactor survives.
HeldIsForwarded == held ~> (~held \/ job["main"].at = "dead")

\* Once the worker has seen the worktree clean, the session does not stay ahead of the base
\* for ever: what is committed gets merged, whatever became of its summary.
CommitsLand == []<>(~IsAhead \/ dirtySeen \/ job["main"].at = "dead")
=============================================================================
