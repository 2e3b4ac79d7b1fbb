------------------------------ MODULE Routing ------------------------------
(***************************************************************************)
(* Which repository a turn is recorded in.  A conversation belongs to the  *)
(* folder it was started in and may edit other repositories; the tracker   *)
(* of each repository takes the turns that are its own, each by its own    *)
(* reading of the transcript and its own watermark, and nothing but those  *)
(* readings connects them.                                                 *)
(***************************************************************************)
EXTENDS Integers, Sequences, FiniteSets, FiniteSetsExt

CONSTANTS
    Repos,
    Convs,
    None,
    HomeOf,      \* [Convs -> Repos]
    MaxTurns,    \* bound on the turns of a conversation
    MaxTwists,   \* bound on turns that go on after they looked finished or end otherwise
                 \* than with an answer, and on sub-agents
    MaxMishaps   \* bound on stops, terminations, crashes, other holders of a lock and
                 \* records that git refuses

ASSUME RoutingAssumption ==
    /\ None \notin Repos \cup Convs
    /\ HomeOf \in [Convs -> Repos]
    /\ {MaxTurns, MaxTwists, MaxMishaps} \subseteq Nat

VARIABLES
    turns,     \* [Convs -> the turns of the transcript]
    twists,    \* how often a turn has not gone the plain way
    up,        \* [Repos -> "down", "up", "ending", or "other" for a lock without a tracker]
    stopped,   \* the repositories with an open stop record
    resumed,   \* [Repos -> [Convs -> the turns begun by the time tracking resumed]]
    floor,     \* [Repos -> None, or [Convs -> the turns begun by the time routing began]]
    mark,      \* [Repos -> [Convs -> the watermark]]
    seen,      \* [Repos -> the conversations not written to since the process remembered them]
    job,       \* [Repos -> the conversation being gone through]
    mishaps,
    \* The rest is history.
    recorded,  \* [Repos -> the turns that its commits record, over when they were]
    caught,    \* [Repos -> the turns that its commits record as far as they were]
    skipped,   \* [Repos -> the turns it left out because it was stopped]
    forgotten, \* [Repos -> the turns whose record was refused while it was elsewhere's]
    outgrown   \* the turns a sub-agent edited for after another turn had followed

agent == <<turns, twists>>
life == <<up, stopped, resumed, floor>>
history == <<recorded, caught, skipped, forgotten, outgrown>>
vars == <<agent, life, mark, seen, job, mishaps, history>>

NoJob == [conv |-> None, how |-> "poll", fresh |-> FALSE]
Idle(r) == job[r] = NoJob

\* Why a tracker looks: its loop polls, a commit flushes, a teardown has a last look.
Hows == {"poll", "flush", "final"}

\* How a turn stands: it runs, or is over with an answer, with a trivial answer to a
\* background monitor, without a text, or because the user cancelled it.
Ends == {"running", "answered", "tick", "silent", "cancelled"}

\* A turn: the repositories it has edited, how it stands, whether a sub-agent works for it.
Turn == [edits : SUBSET Repos, end : Ends, helped : BOOLEAN]
Transcript == UNION {[1..n -> Turn] : n \in 0..MaxTurns}

Over(t) == t.end # "running"
Answers(t) == t.end \in {"answered", "tick"}

\* A watermark stands behind `past' turns; `part' when the next is recorded as far as it was.
Mark == [past : 0..MaxTurns, part : BOOLEAN]

Names == Convs \X (1..MaxTurns)

TypeOK ==
    /\ turns \in [Convs -> Transcript] /\ stopped \subseteq Repos
    /\ up \in [Repos -> {"down", "up", "ending", "other"}]
    /\ resumed \in [Repos -> [Convs -> 0..MaxTurns]]
    /\ \A r \in Repos : floor[r] # None => floor[r] \in [Convs -> 0..MaxTurns]
    /\ mark \in [Repos -> [Convs -> Mark]]
    /\ seen \in [Repos -> SUBSET Convs]
    /\ \A r \in Repos :
          ~Idle(r) => /\ job[r].conv \in Convs /\ up[r] \in {"up", "ending"}
                      /\ job[r].how \in Hows /\ job[r].fresh \in BOOLEAN
    /\ mishaps \in 0..MaxMishaps /\ twists \in 0..MaxTwists
    /\ {recorded, caught, skipped, forgotten} \subseteq [Repos -> SUBSET Names]
    /\ outgrown \subseteq Names

Init ==
    /\ turns = [c \in Convs |-> <<>>] /\ twists = 0
    /\ up \in [Repos -> {"down", "up"}] /\ stopped = {}
    /\ resumed = [r \in Repos |-> [c \in Convs |-> 0]]
    /\ floor \in [Repos -> {None, [c \in Convs |-> 0]}]
    /\ mark = [r \in Repos |-> [c \in Convs |-> [past |-> 0, part |-> FALSE]]]
    /\ seen = [r \in Repos |-> {}]
    /\ job = [r \in Repos |-> NoJob]
    /\ mishaps = 0
    /\ recorded = [r \in Repos |-> {}] /\ caught = [r \in Repos |-> {}]
    /\ skipped = [r \in Repos |-> {}] /\ forgotten = [r \in Repos |-> {}] /\ outgrown = {}

Mishap == mishaps < MaxMishaps /\ mishaps' = mishaps + 1

---------------------------------------------------------------------------
(* The agent *)

Twist == twists < MaxTwists /\ twists' = twists + 1

Running(c) == turns[c] # <<>> /\ ~Over(turns[c][Len(turns[c])])

\* Every write changes when the conversation was last written to.
Write(c, text) ==
    /\ turns' = [turns EXCEPT ![c] = text]
    /\ seen' = [r \in Repos |-> seen[r] \ {c}]
    /\ job' = [r \in Repos |-> IF job[r].conv = c THEN [job[r] EXCEPT !.fresh = FALSE] ELSE job[r]]
    /\ UNCHANGED <<life, mark, mishaps, history>>

Prompt(c) ==
    /\ ~Running(c) /\ Len(turns[c]) < MaxTurns
    /\ Write(c, Append(turns[c], [edits |-> {}, end |-> "running", helped |-> FALSE]))
    /\ UNCHANGED twists

Edit(c, r) ==
    /\ Running(c) /\ r \notin turns[c][Len(turns[c])].edits
    /\ Write(c, [turns[c] EXCEPT ![Len(turns[c])].edits = @ \cup {r}])
    /\ UNCHANGED twists

\* An asynchronous sub-agent, which may outlive the turn.
Delegate(c) ==
    /\ Running(c) /\ ~turns[c][Len(turns[c])].helped /\ Twist
    /\ Write(c, [turns[c] EXCEPT ![Len(turns[c])].helped = TRUE])

Finish(c, end) ==
    /\ Running(c) /\ end # "running"
    /\ IF end = "answered" THEN UNCHANGED twists ELSE Twist
    /\ Write(c, [turns[c] EXCEPT ![Len(turns[c])].end = end])

\* A backend that closes each step of a turn lets it look finished between two edits; a turn
\* that the user has cancelled receives nothing more.
GoOn(c) ==
    /\ turns[c] # <<>> /\ turns[c][Len(turns[c])].end \in {"answered", "silent"} /\ Twist
    /\ Write(c, [turns[c] EXCEPT ![Len(turns[c])].end = "running"])

\* A sub-agent writes to a file of its own: its edits are its turn's, and the conversation
\* looks as it did.
HelperEdit(c, i, r) ==
    /\ turns[c][i].helped /\ r \notin turns[c][i].edits
    /\ turns' = [turns EXCEPT ![c][i].edits = @ \cup {r}]
    /\ outgrown' = IF i < Len(turns[c]) THEN outgrown \cup {<<c, i>>} ELSE outgrown
    /\ UNCHANGED <<twists, life, mark, seen, job, mishaps, recorded, caught, skipped, forgotten>>

HelperEnd(c, i) ==
    /\ turns[c][i].helped
    /\ turns' = [turns EXCEPT ![c][i].helped = FALSE]
    /\ UNCHANGED <<twists, life, mark, seen, job, mishaps, history>>

---------------------------------------------------------------------------
(* Which turns are whose *)

\* turns_after: what the watermark has not covered; a turn recorded before it was finished
\* comes again, whole, once it is answered.
\* Fault: it never does.
FaultAfterOnce(m, text) == {i \in (m.past + 1)..Len(text) : ~(m.part /\ i = m.past + 1)}
After(m, text) ==
    {i \in (m.past + 1)..Len(text) : (m.part /\ i = m.past + 1) => Answers(text[i])}

\* _tracking_floor: the turns begun while the repository was stopped, all of them while it is.
Untracked(r, c, new) == IF r \in stopped THEN new ELSE {i \in new : i <= resumed[r][c]}

\* is_tracked: a tracker runs there, is on its way out, or somebody else holds the lock.
Tracked(r) == up[r] # "down"

\* Router.home_filter.
HomeKeeps(r, t) ==
    \/ ~Over(t) \/ t.edits = {} \/ r \in t.edits
    \/ \E s \in t.edits : ~Tracked(s)

\* Router.foreign_filter.
ForeignKeeps(r, c, i, t) == i > floor[r][c] /\ r \in t.edits

Keeps(r, c, i, t) == IF HomeOf[c] = r THEN HomeKeeps(r, t) ELSE ForeignKeeps(r, c, i, t)

---------------------------------------------------------------------------
(* A tracker goes through a conversation *)

\* The loop polls, a commit flushes, and a tracker on its way out has a last look.
Looking(r, how) ==
    /\ Idle(r)
    /\ \/ up[r] = "up" /\ how \in {"poll", "flush"}
       \/ up[r] = "ending" /\ how = "final"

\* routing_floor, the first time anybody looks elsewhere from here.
BeginRouting(r) ==
    /\ up[r] \in {"up", "ending"} /\ Idle(r) /\ floor[r] = None
    /\ floor' = [floor EXCEPT ![r] = [c \in Convs |-> Len(turns[c])]]
    /\ UNCHANGED <<agent, up, stopped, resumed, mark, seen, job, mishaps, history>>

\* candidates: what has changed, or everything when a commit is being made.
List(r, c, how) ==
    /\ Looking(r, how) /\ floor[r] # None
    /\ HomeOf[c] # r /\ turns[c] # <<>>
    /\ how # "flush" => c \notin seen[r]
    /\ job' = [job EXCEPT ![r] = [conv |-> c, how |-> how, fresh |-> TRUE]]
    /\ UNCHANGED <<agent, life, mark, seen, mishaps, history>>

\* The turns a pass leaves to others: it steps past those that another turn has followed.
\* Fault: all of them.
FaultStepPastAll(rest) == rest
StepPast(rest) == rest \ {Max(rest)}

\* Unless a commit is being made, what follows the last answer waits for the next one; of
\* turns without any the first is left.
Trimmed(how, text, kept) ==
    LET answers == {i \in kept : Answers(text[i])}
        last == IF answers # {} THEN Max(answers) ELSE Min(kept)
    IN IF how = "flush" \/ kept = {} THEN kept ELSE {i \in kept : i <= last}

\* A poll waits for a running turn and for sub-agents.
Waits(how, text, kept) ==
    how = "poll" /\ (~Over(text[Max(kept)]) \/ \E i \in DOMAIN text : text[i].helped)

\* A poll leaves trivial answers to a monitor alone, and nobody records turns without an
\* answer of which the last was cancelled.
Refuses(how, text, some) ==
    LET answers == {i \in some : Answers(text[i])}
    IN IF answers = {} THEN text[Max(some)].end = "cancelled"
       ELSE how = "poll" /\ \A i \in answers : text[i].end = "tick"

\* finish_parse_if_ready: the turns skipped, those stepped past and those recorded.
Pass(r, c, how, text) ==
    LET new == After(mark[r][c], text)
        gone == Untracked(r, c, new)
        rest == new \ gone
        kept == {i \in rest : Keeps(r, c, i, text[i])}
        some == Trimmed(how, text, kept)
        taken == IF kept = {} \/ Waits(how, text, kept) \/ Refuses(how, text, some)
                 THEN {} ELSE some
        passed == gone \cup (IF kept = {} /\ rest # {} THEN StepPast(rest) ELSE {})
    IN [text |-> text, gone |-> gone, passed |-> passed, taken |-> taken]

StepOver(m, p) == IF p.passed = {} THEN m ELSE [past |-> Max(p.passed), part |-> FALSE]

\* Fault: the watermark goes behind all that was read.
FaultMarkPastAll(m, p) ==
    IF p.taken = {} THEN StepOver(m, p) ELSE [past |-> Len(p.text), part |-> FALSE]

\* The watermark stands behind the last turn taken, or before it while it is unfinished.
MarkAfter(m, p) ==
    IF p.taken = {} THEN StepOver(m, p)
    ELSE LET last == Max(p.taken)
         IN IF Over(p.text[last]) THEN [past |-> last, part |-> FALSE]
            ELSE [past |-> last - 1, part |-> TRUE]

Named(c, S) == {<<c, i>> : i \in S}

Placed(r, c, p) ==
    /\ mark' = [mark EXCEPT ![r][c] = MarkAfter(@, p)]
    /\ recorded' = [recorded EXCEPT ![r] = @ \cup Named(c, {i \in p.taken : Over(p.text[i])})]
    /\ caught' = [caught EXCEPT ![r] = @ \cup Named(c, {i \in p.taken : ~Over(p.text[i])})]
    /\ skipped' = [skipped EXCEPT ![r] = @ \cup Named(c, p.gone)]

\* _process_home reads and places in one go.
ProcessHome(r, c, how) ==
    /\ Looking(r, how) /\ HomeOf[c] = r
    /\ Placed(r, c, Pass(r, c, how, turns[c]))
    /\ UNCHANGED <<agent, life, seen, job, mishaps, forgotten, outgrown>>

Helped(c) == \E i \in DOMAIN turns[c] : turns[c][i].helped

\* record_elsewhere remembers the conversation as it was listed, whatever came of it, unless
\* sub-agents were working.
\* Fault: and then too.
FaultRememberHelped(r) ==
    LET c == job[r].conv
    IN [seen EXCEPT ![r] = IF job[r].fresh THEN @ \cup {c} ELSE @ \ {c}]
Remembered(r) ==
    LET c == job[r].conv
    IN IF Helped(c) THEN seen
       ELSE [seen EXCEPT ![r] = IF job[r].fresh THEN @ \cup {c} ELSE @ \ {c}]

Place(r) ==
    /\ ~Idle(r)
    /\ LET c == job[r].conv IN Placed(r, c, Pass(r, c, job[r].how, turns[c]))
    /\ seen' = Remembered(r)
    /\ job' = [job EXCEPT ![r] = NoJob]
    /\ UNCHANGED <<agent, life, mishaps, forgotten, outgrown>>

\* git refuses the record: the watermark stays, and the conversation is remembered all the same.
PlaceFails(r) ==
    /\ ~Idle(r) /\ Mishap
    /\ LET c == job[r].conv
           p == Pass(r, c, job[r].how, turns[c])
       IN /\ p.taken # {}
          /\ mark' = [mark EXCEPT ![r][c] = StepOver(@, p)]
          /\ skipped' = [skipped EXCEPT ![r] = @ \cup Named(c, p.gone)]
          /\ forgotten' = [forgotten EXCEPT ![r] = @ \cup Named(c, p.taken)]
    /\ seen' = Remembered(r)
    /\ job' = [job EXCEPT ![r] = NoJob]
    /\ UNCHANGED <<agent, life, recorded, caught, outgrown>>

---------------------------------------------------------------------------
(* Trackers come and go *)

Boot(r) ==
    /\ up' = [up EXCEPT ![r] = "up"]
    /\ seen' = [seen EXCEPT ![r] = {}]
    /\ UNCHANGED <<agent, floor, mark, job, mishaps, history>>

Start(r) ==
    /\ up[r] = "down" /\ r \notin stopped
    /\ Boot(r)
    /\ UNCHANGED <<stopped, resumed>>

\* The user starts tracking again after a stop.
Resume(r) ==
    /\ up[r] = "down" /\ r \in stopped
    /\ stopped' = stopped \ {r}
    /\ resumed' = [resumed EXCEPT ![r] = [c \in Convs |-> Len(turns[c])]]
    /\ Boot(r)

Stop(r) ==
    /\ up[r] \in {"down", "up"} /\ r \notin stopped /\ Mishap
    /\ stopped' = stopped \cup {r}
    /\ up' = [up EXCEPT ![r] = IF @ = "up" THEN "ending" ELSE @]
    /\ UNCHANGED <<agent, resumed, floor, mark, seen, job, history>>

Terminate(r) ==
    /\ up[r] = "up" /\ Mishap
    /\ up' = [up EXCEPT ![r] = "ending"]
    /\ UNCHANGED <<agent, stopped, resumed, floor, mark, seen, job, history>>

\* Fault: what was being gone through is gone on with.
FaultLeaveBusy(r) ==
    /\ \/ up[r] = "ending" /\ UNCHANGED mishaps
       \/ up[r] = "up" /\ Mishap
    /\ up' = [up EXCEPT ![r] = "down"]
    /\ UNCHANGED <<agent, stopped, resumed, floor, mark, seen, job, history>>

\* The end of a teardown, however much of its last look it has had; a crash has none.
Leave(r) ==
    /\ \/ up[r] = "ending" /\ UNCHANGED mishaps
       \/ up[r] = "up" /\ Mishap
    /\ up' = [up EXCEPT ![r] = "down"]
    /\ job' = [job EXCEPT ![r] = NoJob]
    /\ UNCHANGED <<agent, stopped, resumed, floor, mark, seen, history>>

\* A command that holds the repository's lock for as long as it runs, and routes nothing.
Hold(r) ==
    /\ up[r] = "down" /\ Mishap
    /\ up' = [up EXCEPT ![r] = "other"]
    /\ UNCHANGED <<agent, stopped, resumed, floor, mark, seen, job, history>>

LetGo(r) ==
    /\ up[r] = "other"
    /\ up' = [up EXCEPT ![r] = "down"]
    /\ UNCHANGED <<agent, stopped, resumed, floor, mark, seen, job, mishaps, history>>

Next ==
    \/ \E c \in Convs : Prompt(c) \/ Delegate(c) \/ GoOn(c)
    \/ \E c \in Convs, end \in Ends : Finish(c, end)
    \/ \E c \in Convs, r \in Repos : Edit(c, r)
    \/ \E c \in Convs : \E i \in DOMAIN turns[c] : HelperEnd(c, i) \/ \E r \in Repos : HelperEdit(c, i, r)
    \/ \E r \in Repos, c \in Convs, how \in Hows : ProcessHome(r, c, how) \/ List(r, c, how)
    \/ \E r \in Repos :
          \/ BeginRouting(r) \/ Place(r) \/ PlaceFails(r)
          \/ Start(r) \/ Resume(r) \/ Stop(r) \/ Terminate(r) \/ Leave(r) \/ Hold(r) \/ LetGo(r)

Spec == Init /\ [][Next]_vars

---------------------------------------------------------------------------

Ended(c) == {i \in 1..Len(turns[c]) : Over(turns[c][i])}

\* A turn is in a repository's commits: whole, or, if no answer came, as far as it was when
\* a commit was made.
InCommits(r, c, i) ==
    <<c, i>> \in recorded[r] \/ (<<c, i>> \in caught[r] /\ ~Answers(turns[c][i]))

\* A turn that its home has done with and that is in none of its commits.
Left(c, i) ==
    LET h == HomeOf[c]
    IN i <= mark[h][c].past /\ ~InCommits(h, c, i) /\ <<c, i>> \notin skipped[h]

\* A repository that will not have a turn although the turn edited it: it had not begun to
\* route when the turn was prompted, it was stopped, or git refused the record.
Misses(r, c, i) ==
    \/ floor[r] = None \/ i <= floor[r][c]
    \/ <<c, i>> \in skipped[r]

\* The turns a home has done with are in its commits if they edited it, or nothing: however
\* often a turn went on after it looked finished, however it ended, whichever repositories were
\* tracked when it was looked at.  Not so when a sub-agent edited the home after its turn had
\* been followed by another: the home may have stepped past the turn by then.
OwnTurnsStay ==
    \A c \in Convs : \A i \in Ended(c) : Left(c, i) =>
        \/ turns[c][i].edits # {} /\ HomeOf[c] \notin turns[c][i].edits
        \/ <<c, i>> \in outgrown

\* A turn that its home has left to others is recorded by every one of them, or still before
\* its watermark, unless that repository began to route, or to track again, only after the
\* turn was prompted, or the turn is outgrown as above.
HandedOverIsClaimed ==
    \A c \in Convs : \A i \in Ended(c) : Left(c, i) =>
        \A r \in turns[c][i].edits :
            \/ Misses(r, c, i) \/ InCommits(r, c, i) \/ i > mark[r][c].past
            \/ <<c, i>> \in outgrown

\* A turn without an answer proper that waits for the conversation to go on.
Held(r, c, i) == i > mark[r][c].past /\ turns[c][i].end # "answered"

\* A conversation that a tracker does not look at again until it changes has no answer for it:
\* every turn of it that edited the repository is recorded, unless it is none of the tracker's,
\* git refused the record, or it was cancelled, ended without a text or is a monitor's tick -
\* such a turn is left where it is, and if the conversation does not go on here it stays there.
NothingLeftUnseen ==
    \A c \in Convs : \A r \in Repos \ {HomeOf[c]} :
        (up[r] = "up" /\ c \in seen[r] /\ ~Running(c)) =>
            \A i \in Ended(c) :
                r \in turns[c][i].edits =>
                    \/ InCommits(r, c, i) \/ Held(r, c, i) \/ Misses(r, c, i)
                    \/ <<c, i>> \in forgotten[r] \cup outgrown

\* "Only a turn some later turn has followed is over for sure": true only while no sub-agent
\* outlives its turn.
FollowedIsOver ==
    \A c \in Convs : \A i \in Ended(c) :
        Left(c, i) => HomeOf[c] \notin turns[c][i].edits

\* A turn left to others is recorded by one of them in the end: true only of repositories that
\* had begun to route when the turn was prompted and are never stopped (routing.py:17-21).
NeverDropped ==
    \A c \in Convs : \A i \in Ended(c) : Left(c, i)
             => \E r \in turns[c][i].edits :
                   InCommits(r, c, i) \/ (i > mark[r][c].past /\ ~Misses(r, c, i))
=============================================================================
