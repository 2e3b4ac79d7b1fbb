---------------------------- MODULE TurnCapture ----------------------------
(***************************************************************************)
(* The background tracker turning the agent's conversations into commit    *)
(* records: start_parse reads a conversation, finish_parse_if_ready picks  *)
(* the turns past the watermark, commit_turns counts their tokens, writes  *)
(* the record and clears the pending trace, and then the watermark moves.  *)
(* Each of those saves the state file on its own, so the agent, a stop or  *)
(* a crash can come between any two of them.                               *)
(*                                                                         *)
(* A row of a transcript is named by the clock at which it was written.  A *)
(* turn is [user, said, last, spent, final, state, helper]: the row of its *)
(* prompt, the message that gives it its assistant id (0 while it has      *)
(* none), its newest row, the tokens spent so far, whether some message    *)
(* carried text, whether it is over, and whether an asynchronous sub-agent *)
(* it launched still works.  `recorded` and `pending` split the token      *)
(* totals of the commits and of pending_token_usage by the prompt they     *)
(* were counted for.                                                       *)
(***************************************************************************)
EXTENDS Naturals, Sequences, FiniteSets, SequencesExt, FiniteSetsExt

CONSTANTS
    Convs,          \* the conversations the tracker follows
    EveryMessageIds, \* those whose backend gives every assistant message an id, text or not
    FlushConvs,     \* those with something to say when a `git commit` asks for a flush
    RowsPerSecond,  \* clock ticks per second: time stamps are whole seconds
    MaxClock,       \* bound: the clock stops here
    MaxReplies,     \* bound: assistant messages per turn
    Budget          \* bound: how many of each event of Events may happen

Events == {"prompts", "helpers", "merges", "stops", "exits", "crashes", "failures"}

ASSUME BoundsAssumption ==
    /\ RowsPerSecond \in Nat \ {0}
    /\ MaxClock \in Nat /\ MaxClock >= RowsPerSecond
    /\ MaxReplies \in Nat \ {0}
    /\ Budget \in [Events -> Nat]

VARIABLES
    clock,       \* the newest row or event
    transcript,  \* [Convs -> Seq(Turn)]: the backend's session files
    marks,       \* [Convs -> [id, at]]: backend_message_ids and backend_message_marked_at
    captured,    \* [user, spent]: partial_turn_tokens, one for all conversations
    pending,     \* pending_token_usage
    recorded,    \* the tokens the commits made so far account for
    gapOpen,     \* tracking is stopped (stopped_at > resumed_at)
    floor,       \* the second tracking last resumed, 0 if it was never stopped
    stretches,   \* history: the stopped stretches, to = 0 while one is open
    life,        \* the tracker: down | up | stopping | replaced
    settled,     \* conversations the teardown has gone through
    step,        \* where the tracker is in one capture
    job,         \* that capture: [conv, mode, turns, mark]
    budget       \* what is left of Budget

agentVars   == <<transcript>>
savedVars   == <<marks, captured, pending, recorded>>
gapVars     == <<gapOpen, floor, stretches>>
trackerVars == <<life, settled, step, job>>
vars == <<clock, transcript, savedVars, gapVars, trackerVars, budget>>

Rows   == 1..MaxClock
NoJob  == [conv |-> "none", mode |-> "poll", turns |-> <<>>, mark |-> 0]
NoMark == [id |-> 0, at |-> 0]
NoCapture == [user |-> 0, spent |-> 0]
Nothing   == [c \in Convs |-> [r \in Rows |-> 0]]
Second(row) == row \div RowsPerSecond

Turn == [user : Rows, said : 0..MaxClock, last : Rows, spent : Nat, final : BOOLEAN,
         state : {"running", "done", "interrupted"}, helper : BOOLEAN]

Began(t)    == Second(t.user)
Ended(t)    == Second(t.last)
Replied(t)  == t.said # 0             \* it has an assistant id
Finished(t) == t.state # "running"      \* turn_is_finished

Init ==
    /\ clock = RowsPerSecond
    /\ transcript = [c \in Convs |-> <<>>]
    /\ marks = [c \in Convs |-> NoMark]
    /\ captured = NoCapture
    /\ pending = Nothing
    /\ recorded = Nothing
    /\ gapOpen = FALSE
    /\ floor = 0
    /\ stretches = {}
    /\ life = "up"
    /\ settled = {}
    /\ step = "idle"
    /\ job = NoJob
    /\ budget = Budget

Tick == clock < MaxClock /\ clock' = clock + 1
Spend(event) == budget[event] > 0 /\ budget' = [budget EXCEPT ![event] = @ - 1]

-----------------------------------------------------------------------------
(* The agent: the backend appends to its transcript whatever the tracker   *)
(* is doing.                                                               *)

Prompt(c) ==
    /\ \A i \in DOMAIN transcript[c] : Finished(transcript[c][i])
    /\ Tick
    /\ Spend("prompts")
    /\ transcript' = [transcript EXCEPT ![c] =
           Append(@, [user |-> clock', said |-> 0, last |-> clock', spent |-> 0, final |-> FALSE,
                      state |-> "running", helper |-> FALSE])]
    /\ UNCHANGED <<savedVars, gapVars, trackerVars>>

\* One assistant message: more tokens, perhaps text, perhaps the turn's last. The id of the
\* turn is that of its newest message with text, or of its newest message.
Reply(c, text, over) ==
    /\ transcript[c] # <<>>
    /\ LET i == Len(transcript[c])
           t == transcript[c][i]
       IN /\ ~Finished(t)
          /\ over \/ t.spent + 1 < MaxReplies
          /\ Tick
          /\ transcript' = [transcript EXCEPT ![c][i] =
                 [t EXCEPT !.last = clock', !.spent = @ + 1, !.final = @ \/ text,
                           !.said = IF text \/ c \in EveryMessageIds THEN clock' ELSE @,
                           !.state = IF over THEN "done" ELSE "running"]]
    /\ UNCHANGED <<savedVars, gapVars, trackerVars, budget>>

Interrupt(c) ==
    /\ transcript[c] # <<>>
    /\ ~Finished(Last(transcript[c]))
    /\ transcript' = [transcript EXCEPT ![c][Len(transcript[c])].state = "interrupted"]
    /\ UNCHANGED <<clock, savedVars, gapVars, trackerVars, budget>>

\* A turn launches a sub-agent that outlives it; its tokens are added to that turn.
Delegate(c) ==
    /\ transcript[c] # <<>>
    /\ ~Finished(Last(transcript[c]))
    /\ ~Last(transcript[c]).helper
    /\ Last(transcript[c]).spent > 0
    /\ Spend("helpers")
    /\ transcript' = [transcript EXCEPT ![c][Len(transcript[c])].helper = TRUE]
    /\ UNCHANGED <<clock, savedVars, gapVars, trackerVars>>

HelperReports(c) ==
    \E i \in DOMAIN transcript[c] :
        /\ transcript[c][i].helper
        /\ transcript' = [transcript EXCEPT ![c][i].helper = FALSE, ![c][i].spent = @ + 1]
        /\ UNCHANGED <<clock, savedVars, gapVars, trackerVars, budget>>

\* A context compaction reshapes the boundaries: two turns become one, and the ids at the
\* old boundary name no turn any more.
Compact(c) ==
    \E i \in 1..(Len(transcript[c]) - 1) :
        LET a == transcript[c][i]
            b == transcript[c][i + 1]
            both == [b EXCEPT !.user = a.user, !.said = IF Replied(b) THEN @ ELSE a.said,
                              !.final = a.final \/ b.final, !.spent = a.spent + b.spent,
                              !.helper = a.helper \/ b.helper]
        IN /\ Finished(b)
           /\ Spend("merges")
           /\ transcript' = [transcript EXCEPT ![c] =
                  SubSeq(@, 1, i - 1) \o <<both>> \o SubSeq(@, i + 2, Len(@))]
           /\ UNCHANGED <<clock, savedVars, gapVars, trackerVars>>

-----------------------------------------------------------------------------
(* The capture.                                                            *)

TurnsAfter(turns, mark, markedAt) ==
    LET marked == {i \in DOMAIN turns : mark \in {turns[i].user, turns[i].said}}
        i == CHOOSE k \in marked : TRUE
        continued == mark = turns[i].user /\ Replied(turns[i]) /\ turns[i].final
        older == Cardinality({k \in DOMAIN turns : Began(turns[k]) <= markedAt})
    IN IF mark = 0 THEN turns
       ELSE IF marked = {} THEN SubSeq(turns, older + 1, Len(turns))
       ELSE SubSeq(turns, IF continued THEN i ELSE i + 1, Len(turns))

\* Fault: an open stretch has no floor yet.
FaultFloorOnly(t) == Began(t) < floor

\* The stop record as it is when this is asked, not as it was when the turn was read.
BeforeFloor(t) == gapOpen \/ Began(t) < floor

\* split_untracked_turns: turns are in order, so the untracked ones are a prefix.
UntrackedCount(turns)  == Cardinality({i \in DOMAIN turns : BeforeFloor(turns[i])})
UntrackedTurns(turns)  == SubSeq(turns, 1, UntrackedCount(turns))
TrackedTurns(turns)    == SubSeq(turns, UntrackedCount(turns) + 1, Len(turns))

\* Trailing turns without a text reply wait, except a sole one.
Trimmed(turns) ==
    LET kept == Cardinality({i \in DOMAIN turns : \E j \in i..Len(turns) : turns[j].final})
    IN SubSeq(turns, 1, IF kept = 0 /\ turns # <<>> THEN 1 ELSE kept)

\* Fault: an interrupted turn counts as still running.
FaultDeferInterrupted(mode, turns, session) ==
    /\ mode = "poll"
    /\ turns # <<>>
    /\ Last(turns).state # "done" \/ \E i \in DOMAIN session : session[i].helper

\* A poll waits for a running turn and for sub-agents, whichever turn launched them.
Deferred(mode, turns, session) ==
    /\ mode = "poll"
    /\ turns # <<>>
    /\ ~Finished(Last(turns)) \/ \E i \in DOMAIN session : session[i].helper

Cancelled(turns) ==
    /\ Last(turns).state = "interrupted"
    /\ \A i \in DOMAIN turns : ~turns[i].final

Modes(c) ==
    (IF life = "up" \/ (life = "replaced" /\ c \notin settled) THEN {"poll"} ELSE {})
    \cup (IF life \in {"up", "down"} /\ ~gapOpen /\ c \in FlushConvs THEN {"flush"} ELSE {})
    \cup (IF life = "stopping" /\ c \notin settled THEN {"final"} ELSE {})

\* Fault: the parse does not read the conversation's watermark.
FaultParseUnmarked(c, mode) ==
    /\ step = "idle"
    /\ mode \in Modes(c)
    /\ step' = "parsed"
    /\ job' = [conv |-> c, mode |-> mode, turns |-> transcript[c], mark |-> 0]
    /\ settled' = IF life \in {"stopping", "replaced"} THEN settled \cup {c} ELSE settled
    /\ UNCHANGED <<clock, agentVars, savedVars, gapVars, life, budget>>

\* start_parse: the watermark and the transcript as they are now.
StartParse(c, mode) ==
    /\ step = "idle"
    /\ mode \in Modes(c)
    /\ step' = "parsed"
    /\ job' = [conv |-> c, mode |-> mode, turns |-> transcript[c], mark |-> marks[c].id]
    /\ settled' = IF life \in {"stopping", "replaced"} THEN settled \cup {c} ELSE settled
    /\ UNCHANGED <<clock, agentVars, savedVars, gapVars, life, budget>>

Done == step' = "idle" /\ job' = NoJob

MarkPast(t) == [id |-> IF Replied(t) THEN t.said ELSE t.user, at |-> Ended(t)]

\* finish_parse_if_ready, up to the call that commits.
ChooseTurns ==
    LET c == job.conv
        fresh == TurnsAfter(job.turns, job.mark, marks[c].at)
        untracked == UntrackedTurns(fresh)
        tracked == TrackedTurns(fresh)
        batch == IF job.mode = "flush" THEN tracked ELSE Trimmed(tracked)
    IN /\ step = "parsed"
       /\ marks' = IF untracked = <<>> THEN marks
                   ELSE [marks EXCEPT ![c] = MarkPast(Last(untracked))]
       /\ IF Deferred(job.mode, tracked, job.turns) \/ batch = <<>> \/ Cancelled(batch)
          THEN Done
          ELSE step' = "chosen" /\ job' = [job EXCEPT !.turns = batch]
       /\ UNCHANGED <<clock, agentVars, captured, pending, recorded, gapVars, life, settled,
                      budget>>

\* says_something_new: the turn captured mid-flight is recorded again only once it moved on.
SaysSomethingNew(turns) ==
    \E i \in DOMAIN turns :
        turns[i].user # captured.user \/ turns[i].spent > captured.spent

\* Fault: the rest of a captured turn is counted from the start again.
FaultOweWhole(c, t) == IF marks[c].at > 0 /\ Ended(t) <= marks[c].at THEN 0 ELSE t.spent

\* _add_turn_usage: what a turn adds to the pending usage.
Owed(c, t) ==
    IF t.user = captured.user
    THEN IF t.spent > captured.spent THEN t.spent - captured.spent ELSE 0
    ELSE IF marks[c].at > 0 /\ Ended(t) <= marks[c].at THEN 0 ELSE t.spent

CountTurns ==
    LET c == job.conv
        turns == TrackedTurns(job.turns)
        Of(r) == {i \in DOMAIN turns : turns[i].user = r}
    IN /\ step = "chosen"
       /\ IF turns = <<>> \/ ~SaysSomethingNew(job.turns)
          THEN Done /\ UNCHANGED <<captured, pending>>
          ELSE /\ pending' = [pending EXCEPT ![c] = [r \in Rows |->
                      IF Of(r) = {} THEN pending[c][r]
                      ELSE pending[c][r] + Owed(c, turns[CHOOSE i \in Of(r) : TRUE])]]
               /\ captured' = IF Of(captured.user) = {} THEN captured ELSE NoCapture
               /\ step' = "counted"
               /\ UNCHANGED job
       /\ UNCHANGED <<clock, agentVars, marks, recorded, gapVars, life, settled, budget>>

WriteRecord ==
    /\ step = "counted"
    /\ recorded' = [c \in Convs |-> [r \in Rows |-> recorded[c][r] + pending[c][r]]]
    /\ step' = "recorded"
    /\ UNCHANGED <<clock, agentVars, marks, captured, pending, gapVars, life, settled, job,
                   budget>>

\* git refuses the record: the exception leaves the poll, and the next one starts over.
WriteFails ==
    /\ step = "counted"
    /\ Spend("failures")
    /\ Done
    /\ UNCHANGED <<clock, agentVars, savedVars, gapVars, life, settled>>

ClearTrace ==
    /\ step = "recorded"
    /\ pending' = Nothing
    /\ step' = "cleared"
    /\ UNCHANGED <<clock, agentVars, marks, captured, recorded, gapVars, life, settled, job,
                   budget>>

\* Fault: a running turn that has replied is marked by that reply.
FaultAnchorOnReply(t) == ~Replied(t)

\* A turn that can still grow is marked by its prompt, any other by its newest message.
AnchorOnUser(t) == ~Replied(t) \/ ~Finished(t)

MoveMark ==
    LET t == Last(job.turns)
    IN /\ step = "cleared"
       /\ marks' = [marks EXCEPT ![job.conv] =
              [id |-> IF AnchorOnUser(t) THEN t.user ELSE t.said, at |-> Ended(t)]]
       /\ IF AnchorOnUser(t) THEN step' = "marked" /\ UNCHANGED job ELSE Done
       /\ UNCHANGED <<clock, agentVars, captured, pending, recorded, gapVars, life, settled,
                      budget>>

RememberCapture ==
    /\ step = "marked"
    /\ captured' = [user |-> Last(job.turns).user, spent |-> Last(job.turns).spent]
    /\ Done
    /\ UNCHANGED <<clock, agentVars, marks, pending, recorded, gapVars, life, settled, budget>>

-----------------------------------------------------------------------------
(* Stops and starts.                                                       *)

\* `agitrack stop` writes the stop record first and signals the tracker afterwards.
UserStop ==
    /\ ~gapOpen
    /\ Tick
    /\ Spend("stops")
    /\ gapOpen' = TRUE
    /\ stretches' = stretches \cup {[from |-> Second(clock'), to |-> 0]}
    /\ UNCHANGED <<agentVars, savedVars, floor, trackerVars>>

\* `agitrack -b`: ends the stretch, and starts a tracker if none runs.
UserStart ==
    /\ gapOpen
    /\ Tick
    /\ gapOpen' = FALSE
    /\ floor' = Second(clock')
    /\ stretches' = {[s EXCEPT !.to = IF s.to = 0 THEN Second(clock') ELSE s.to] : s \in stretches}
    /\ life' = IF life = "down" /\ step = "idle" THEN "up" ELSE life
    /\ UNCHANGED <<agentVars, savedVars, settled, step, job, budget>>

\* A hook or the user starts the tracker where no stop stands.
Start ==
    /\ life = "down"
    /\ ~gapOpen
    /\ step = "idle"
    /\ life' = "up"
    /\ UNCHANGED <<clock, agentVars, savedVars, gapVars, settled, step, job, budget>>

\* SIGTERM, from a stop, a replacement or the system.
Terminate(how) ==
    /\ life = "up"
    /\ Spend("exits")
    /\ life' = how
    /\ settled' = {}
    /\ UNCHANGED <<clock, agentVars, savedVars, gapVars, step, job>>

Exit ==
    /\ life \in {"stopping", "replaced"}
    /\ settled = Convs
    /\ step = "idle"
    /\ life' = "down"
    /\ settled' = {}
    /\ UNCHANGED <<clock, agentVars, savedVars, gapVars, step, job, budget>>

Crash ==
    /\ life # "down"
    /\ Spend("crashes")
    /\ life' = "down"
    /\ settled' = {}
    /\ Done
    /\ UNCHANGED <<clock, agentVars, savedVars, gapVars>>

-----------------------------------------------------------------------------
Agent(c) ==
    \/ Prompt(c)
    \/ \E text, over \in BOOLEAN : Reply(c, text, over)
    \/ Interrupt(c)
    \/ Delegate(c)
    \/ HelperReports(c)
    \/ Compact(c)

Capture == ChooseTurns \/ CountTurns \/ WriteRecord \/ ClearTrace \/ MoveMark \/ RememberCapture

Lifecycle ==
    \/ UserStop \/ UserStart \/ Start \/ Exit \/ Crash
    \/ \E how \in {"stopping", "replaced"} : Terminate(how)

Next ==
    \/ \E c \in Convs : Agent(c) \/ \E mode \in {"poll", "flush", "final"} : StartParse(c, mode)
    \/ Capture
    \/ WriteFails
    \/ Lifecycle

Spec == Init /\ [][Next]_vars

\* The poll loop goes through every conversation each cycle and finishes what it starts; a
\* turn the agent has begun ends, and a sub-agent reports.
Fairness ==
    /\ WF_vars(Capture)
    /\ WF_vars(Start)
    /\ \A c \in Convs :
        /\ SF_vars(StartParse(c, "poll"))
        /\ WF_vars(\E text, over \in BOOLEAN : Reply(c, text, over))
        /\ WF_vars(HelperReports(c))

FairSpec == Spec /\ Fairness

-----------------------------------------------------------------------------
(* What the capture promises.                                              *)

TurnsOf(c)      == {transcript[c][i] : i \in DOMAIN transcript[c]}
CountedFor(c, t) == MapThenSumSet(LAMBDA r : recorded[c][r], t.user .. t.last)
Answered(t)     == Finished(t) /\ t.final /\ ~t.helper
\* No later parse returns the turn any more.
Passed(c, t) ==
    ~ \E u \in ToSet(TurnsAfter(transcript[c], marks[c].id, marks[c].at)) : u.user = t.user

\* Types of the saved state, the capture in progress and the transcripts.
TypeOK ==
    /\ clock \in 1..MaxClock
    /\ transcript \in [Convs -> Seq(Turn)]
    /\ marks \in [Convs -> [id : 0..MaxClock, at : Nat]]
    /\ captured \in [user : 0..MaxClock, spent : Nat]
    /\ pending \in [Convs -> [Rows -> Nat]]
    /\ recorded \in [Convs -> [Rows -> Nat]]
    /\ gapOpen \in BOOLEAN
    /\ floor \in Nat
    /\ stretches \subseteq [from : Nat, to : Nat]
    /\ life \in {"down", "up", "stopping", "replaced"}
    /\ settled \subseteq Convs
    /\ step \in {"idle", "parsed", "chosen", "counted", "recorded", "cleared", "marked"}
    /\ IF step = "idle" THEN job = NoJob
       ELSE job \in [conv : Convs, mode : {"poll", "flush", "final"}, turns : Seq(Turn),
                     mark : 0..MaxClock]
    /\ budget \in [Events -> Nat]

\* No turn's tokens are counted twice, however often it is captured, re-exported after a
\* capture or a compaction, or met again after a restart (_add_turn_usage).
CountedOnce ==
    \A c \in Convs : \A t \in TurnsOf(c) : CountedFor(c, t) <= t.spent

\* Nothing prompted while tracking was stopped reaches a commit, whatever was being parsed
\* or counted when the stop or the start came (tracking_gap).
StoppedStretchUnrecorded ==
    \A c \in Convs : \A t \in TurnsOf(c) : \A s \in stretches :
        (s.from < Began(t) /\ (s.to = 0 \/ Began(t) < s.to)) => recorded[c][t.user] = 0

\* The watermark passes a finished, answered turn only once its tokens are all in a commit,
\* unless a stop says it is not to be recorded.  It holds through crashes, refused commits
\* and stops while a row has a second of its own, no sub-agent outlives its turn and no
\* compaction merges turns; with any of these the code may pass an answered turn.
AnsweredTurnKept ==
    \A c \in Convs : \A t \in TurnsOf(c) :
        (Answered(t) /\ Passed(c, t) /\ ~gapOpen /\ Began(t) >= floor) => CountedFor(c, t) >= t.spent

\* The watermark never goes back over turns it has passed (set_backend_message_id).
WatermarkAdvances == [][\A c \in Convs : marks'[c].id >= marks[c].id]_vars

\* A turn that ends with an answer is in a commit in the end, all of its tokens counted.
EveryAnswerRecorded ==
    \A r \in Rows :
        (\E c \in Convs : \E t \in TurnsOf(c) : t.user = r /\ Answered(t))
            ~> (\E c \in Convs : \E t \in TurnsOf(c) : t.user = r /\ CountedFor(c, t) = t.spent)

\* "it records any final turn and removes its hooks", and only "conversations from now" stay
\* out: when the last look of a stopped tracker is over, every turn it saw that was answered
\* before the stop is in a commit (stop_background).
StopRecordsFinalTurn ==
    [][(step # "idle" /\ step' = "idle" /\ job.mode = "final" /\ gapOpen) =>
          \A t \in ToSet(job.turns) :
              (Answered(t) /\ \A s \in stretches : Ended(t) < s.from)
                  => CountedFor(job.conv, t) = t.spent]_vars

=============================================================================
