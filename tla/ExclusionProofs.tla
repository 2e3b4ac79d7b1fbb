-------------------------- MODULE ExclusionProofs --------------------------
(***************************************************************************)
(* Proofs about the two exclusions of the program: of processes, by the    *)
(* repository lock (RepoLock), and of the threads of one interactive       *)
(* session, by its pipeline lock (TurnPipeline).  The first part is for    *)
(* any processes, trackers and files: the lock admits one reachable        *)
(* writer, its owner record never names another process, and it implements *)
(* SingleWriter.  The second is for any number of prompts: as long as the  *)
(* threads keep apart a turn is recorded once, merged history stands and a *)
(* summary stays with its commit.                                          *)
(***************************************************************************)
EXTENDS RepoLock, TurnPipeline, SequenceTheorems, TLAPS

-----------------------------------------------------------------------------
(* Processes: the repository lock.                                         *)

\* Every variable keeps its type.
THEOREM LockTypeCorrect == LockSpec => []LockTypeOK
<1>1. LockInit => LockTypeOK
  BY DEF LockInit, LockTypeOK, States
<1>2. LockTypeOK /\ [LockNext]_lockVars => LockTypeOK'
  <2> SUFFICES ASSUME LockTypeOK, [LockNext]_lockVars PROVE LockTypeOK'
    OBVIOUS
  <2> USE DEF LockTypeOK, States
  <2>1. CASE ClearOwnerRecord
    BY <2>1 DEF ClearOwnerRecord
  <2>2. CASE DeleteStateDir
    BY <2>2 DEF DeleteStateDir
  <2>3. ASSUME NEW p \in Procs, OpenLockFile(p) PROVE LockTypeOK'
    BY <2>3 DEF OpenLockFile, Unused
  <2>4. ASSUME NEW p \in Procs, TryLock(p) PROVE LockTypeOK'
    BY <2>4 DEF TryLock
  <2>5. ASSUME NEW p \in Procs, WriteRecord(p) PROVE LockTypeOK'
    BY <2>5 DEF WriteRecord
  <2>6. ASSUME NEW p \in Procs, Release(p) PROVE LockTypeOK'
    BY <2>6 DEF Release, ClearRecord
  <2>7. ASSUME NEW p \in Procs, StandDown(p) PROVE LockTypeOK'
    BY <2>7 DEF StandDown, ClearRecord
  <2>8. ASSUME NEW p \in Procs, Unlock(p) PROVE LockTypeOK'
    BY <2>8 DEF Unlock
  <2>9. ASSUME NEW p \in Procs, Crash(p) PROVE LockTypeOK'
    BY <2>9 DEF Crash
  <2>10. CASE UNCHANGED lockVars
    BY <2>10 DEF lockVars
  <2> QED
    BY <2>1, <2>2, <2>3, <2>4, <2>5, <2>6, <2>7, <2>8, <2>9, <2>10 DEF LockNext
<1> QED
  BY <1>1, <1>2, PTL DEF LockSpec

\* One step preserves the agreement of kernel lock and belief.
LEMMA BeliefStep ==
  ASSUME LockTypeOK, LockBacksBelief, [LockNext]_lockVars PROVE LockBacksBelief'
<1> USE NoneAssumption DEF LockTypeOK, States, LockBacksBelief
<1>1. CASE ClearOwnerRecord
  BY <1>1 DEF ClearOwnerRecord
<1>2. CASE DeleteStateDir
  BY <1>2 DEF DeleteStateDir
<1>3. ASSUME NEW p \in Procs, OpenLockFile(p) PROVE LockBacksBelief'
  BY <1>3 DEF OpenLockFile, Unused
<1>4. ASSUME NEW p \in Procs, TryLock(p) PROVE LockBacksBelief'
  BY <1>4 DEF TryLock
<1>5. ASSUME NEW p \in Procs, WriteRecord(p) PROVE LockBacksBelief'
  BY <1>5 DEF WriteRecord
<1>6. ASSUME NEW p \in Procs, Release(p) PROVE LockBacksBelief'
  BY <1>6 DEF Release, ClearRecord
<1>7. ASSUME NEW p \in Procs, StandDown(p) PROVE LockBacksBelief'
  BY <1>7 DEF StandDown, ClearRecord
<1>8. ASSUME NEW p \in Procs, Unlock(p) PROVE LockBacksBelief'
  BY <1>8 DEF Unlock
<1>9. ASSUME NEW p \in Procs, Crash(p) PROVE LockBacksBelief'
  BY <1>9 DEF Crash
<1>10. CASE UNCHANGED lockVars
  BY <1>10 DEF lockVars
<1> QED
  BY <1>1, <1>2, <1>3, <1>4, <1>5, <1>6, <1>7, <1>8, <1>9, <1>10 DEF LockNext

\* A process that acts as the writer really has its file's kernel lock.
THEOREM BeliefIsBacked == LockSpec => []LockBacksBelief
<1>1. LockInit => LockBacksBelief
  BY NoneAssumption DEF LockInit, LockBacksBelief
<1>2. LockTypeOK /\ LockBacksBelief /\ [LockNext]_lockVars => LockBacksBelief'
  BY BeliefStep
<1> QED
  BY <1>1, <1>2, LockTypeCorrect, PTL DEF LockSpec

\* Two processes that both hold the lock and guard the path are the same one.
THEOREM WriterIsAlone == LockSpec => []OneReachableWriter
<1>1. LockTypeOK /\ LockBacksBelief => OneReachableWriter
  <2> SUFFICES ASSUME LockBacksBelief, NEW p \in Procs, NEW q \in Procs,
                      pc[p] = "held", pc[q] = "held",
                      opened[p] = path, opened[q] = path
               PROVE p = q
    BY DEF OneReachableWriter, IsHeldBySelf, StillGuardsPath
  <2>1. locked[path] = p /\ locked[path] = q
    BY DEF LockBacksBelief
  <2> QED
    BY <2>1
<1> QED
  BY <1>1, LockTypeCorrect, BeliefIsBacked, PTL

\* The owner record of a held lock file names its holder or nobody.
THEOREM RecordHonest == LockSpec => []RecordNeverLies
<1>1. LockInit => RecordNeverLies
  BY DEF LockInit, RecordNeverLies, IsHeldBySelf
<1>2. LockTypeOK /\ LockBacksBelief /\ RecordNeverLies /\ [LockNext]_lockVars => RecordNeverLies'
  <2> SUFFICES ASSUME LockTypeOK, LockBacksBelief, RecordNeverLies, [LockNext]_lockVars
               PROVE RecordNeverLies'
    OBVIOUS
  <2> USE NoneAssumption DEF LockTypeOK, States, LockBacksBelief, RecordNeverLies, IsHeldBySelf
  <2>1. CASE ClearOwnerRecord
    BY <2>1 DEF ClearOwnerRecord
  <2>2. CASE DeleteStateDir
    BY <2>2 DEF DeleteStateDir
  <2>3. ASSUME NEW p \in Procs, OpenLockFile(p) PROVE RecordNeverLies'
    BY <2>3 DEF OpenLockFile, Unused
  <2>4. ASSUME NEW p \in Procs, TryLock(p) PROVE RecordNeverLies'
    BY <2>4 DEF TryLock
  <2>5. ASSUME NEW p \in Procs, WriteRecord(p) PROVE RecordNeverLies'
    BY <2>5 DEF WriteRecord
  <2>6. ASSUME NEW p \in Procs, Release(p) PROVE RecordNeverLies'
    BY <2>6 DEF Release, ClearRecord
  <2>7. ASSUME NEW p \in Procs, StandDown(p) PROVE RecordNeverLies'
    BY <2>7 DEF StandDown, ClearRecord
  <2>8. ASSUME NEW p \in Procs, Unlock(p) PROVE RecordNeverLies'
    BY <2>8 DEF Unlock
  <2>9. ASSUME NEW p \in Procs, Crash(p) PROVE RecordNeverLies'
    BY <2>9 DEF Crash
  <2>10. CASE UNCHANGED lockVars
    BY <2>10 DEF lockVars
  <2> QED
    BY <2>1, <2>2, <2>3, <2>4, <2>5, <2>6, <2>7, <2>8, <2>9, <2>10 DEF LockNext
<1> QED
  BY <1>1, <1>2, LockTypeCorrect, BeliefIsBacked, PTL DEF LockSpec

\* One step takes the record of a process that keeps the lock away only when
\* it is clear_owner_record on the file at the path: by LockBacksBelief every
\* other writer of a record holds another file open.
LEMMA RecordStep ==
  ASSUME LockTypeOK, LockBacksBelief, [LockNext]_lockVars,
         NEW p \in Procs, pc[p] = "held", pc'[p] = "held",
         record[opened[p]] = p, record'[opened[p]] # p
  PROVE  opened[p] = path /\ locked = locked' /\ pc = pc'
<1> USE NoneAssumption DEF LockTypeOK, States, LockBacksBelief
<1> DEFINE Sparing == opened[p] = path /\ locked = locked' /\ pc = pc'
<1>1. CASE ClearOwnerRecord
  BY <1>1 DEF ClearOwnerRecord
<1>2. CASE DeleteStateDir
  BY <1>2 DEF DeleteStateDir
<1>3. ASSUME NEW q \in Procs, OpenLockFile(q) PROVE Sparing
  BY <1>3 DEF OpenLockFile, Unused
<1>4. ASSUME NEW q \in Procs, TryLock(q) PROVE Sparing
  BY <1>4 DEF TryLock
<1>5. ASSUME NEW q \in Procs, WriteRecord(q) PROVE Sparing
  BY <1>5 DEF WriteRecord
<1>6. ASSUME NEW q \in Procs, Release(q) PROVE Sparing
  BY <1>6 DEF Release, ClearRecord
<1>7. ASSUME NEW q \in Procs, StandDown(q) PROVE Sparing
  BY <1>7 DEF StandDown, ClearRecord
<1>8. ASSUME NEW q \in Procs, Unlock(q) PROVE Sparing
  BY <1>8 DEF Unlock
<1>9. ASSUME NEW q \in Procs, Crash(q) PROVE Sparing
  BY <1>9 DEF Crash
<1>10. CASE UNCHANGED lockVars
  BY <1>10 DEF lockVars
<1> QED
  BY <1>1, <1>2, <1>3, <1>4, <1>5, <1>6, <1>7, <1>8, <1>9, <1>10 DEF LockNext

\* Letting go of the lock, in whatever order the others open, take and crash,
\* never wipes the record of the process that holds it by then.
THEOREM ReleaseIsSparing == LockSpec => ReleaseSparesSuccessor
<1>1. LockTypeOK /\ LockBacksBelief /\ [LockNext]_lockVars =>
        [\A p \in Procs :
          (IsHeldBySelf(p) /\ IsHeldBySelf(p)' /\ record[opened[p]] = p
              /\ record'[opened[p]] # p)
          => opened[p] = path /\ locked = locked' /\ pc = pc']_lockVars
  BY RecordStep DEF IsHeldBySelf
<1> QED
  BY <1>1, LockTypeCorrect, BeliefIsBacked, PTL DEF LockSpec, ReleaseSparesSuccessor

\* Every step of the lock is a step of the abstract single writer or a
\* stutter: the reachable lock changes hands only through nobody.
LEMMA OwnerStep ==
  ASSUME LockTypeOK, LockBacksBelief, [LockNext]_lockVars PROVE [Abstract!Next]_Owner
<1> USE NoneAssumption DEF LockTypeOK, States, LockBacksBelief, Owner,
        Abstract!Next, Abstract!Take, Abstract!Give
<1>1. CASE ClearOwnerRecord
  BY <1>1 DEF ClearOwnerRecord
<1>2. CASE DeleteStateDir
  BY <1>2 DEF DeleteStateDir
<1>3. ASSUME NEW p \in Procs, OpenLockFile(p) PROVE [Abstract!Next]_Owner
  BY <1>3 DEF OpenLockFile, Unused
<1>4. ASSUME NEW p \in Procs, TryLock(p) PROVE [Abstract!Next]_Owner
  BY <1>4 DEF TryLock
<1>5. ASSUME NEW p \in Procs, WriteRecord(p) PROVE [Abstract!Next]_Owner
  BY <1>5 DEF WriteRecord
<1>6. ASSUME NEW p \in Procs, Release(p) PROVE [Abstract!Next]_Owner
  BY <1>6 DEF Release, ClearRecord
<1>7. ASSUME NEW p \in Procs, StandDown(p) PROVE [Abstract!Next]_Owner
  BY <1>7 DEF StandDown, ClearRecord
<1>8. ASSUME NEW p \in Procs, Unlock(p) PROVE [Abstract!Next]_Owner
  BY <1>8 DEF Unlock
<1>9. ASSUME NEW p \in Procs, Crash(p) PROVE [Abstract!Next]_Owner
  BY <1>9 DEF Crash
<1>10. CASE UNCHANGED lockVars
  BY <1>10 DEF lockVars
<1> QED
  BY <1>1, <1>2, <1>3, <1>4, <1>5, <1>6, <1>7, <1>8, <1>9, <1>10 DEF LockNext

THEOREM LockImplementsSingleWriter == LockSpec => ImplementsSingleWriter
<1>1. LockInit => Abstract!Init
  BY DEF LockInit, Owner, Abstract!Init
<1>2. LockTypeOK /\ LockBacksBelief /\ [LockNext]_lockVars => [Abstract!Next]_Owner
  BY OwnerStep
<1> QED
  BY <1>1, <1>2, LockTypeCorrect, BeliefIsBacked, PTL
     DEF LockSpec, ImplementsSingleWriter, Abstract!Spec

-----------------------------------------------------------------------------
(* Threads: the inductive invariant.                                       *)

At(t) == job[t].at
Why(t) == job[t].why

\* Where the reactor has let go of the lock.
Out == {"rest", "begin", "branch"}

\* Who has the lock is in a pass, and who is in a pass has the lock; but the reactor resumes a
\* held prompt without.
Locks ==
    /\ At("worker") # "rest" <=> lock = "worker"
    /\ lock = "main" => At("main") \notin Out
    /\ At("main") \notin Out => lock = "main" \/ Why("main") = "resume"

\* The prompt that is on its way through the reactor.
Submitting == At("main") # "rest" /\ Why("main") = "submit"
OnItsWay == IF held \/ Submitting \/ At("main") = "hand" THEN 1 ELSE 0

\* No more prompts are on their way, or with the agent, than were entered.
Counted ==
    /\ turn + queued + OnItsWay <= MaxTurns
    /\ held => ~Submitting /\ At("main") # "hand"
    /\ At("main") \notin {"rest", "hand"} /\ Why("main") = "resume" => held
    /\ At("main") \in {"forward", "hand"} => Why("main") = "resume"
    /\ At("main") \in {"begin", "branch"} => Why("main") = "submit"
    /\ At("main") = "offer" => Why("main") \in {"submit", "resume"}
    /\ Why("main") \in {"none", "submit", "resume", "tick"}

\* The turns a thread is about to record, and the commit whose summary it is about to amend.
Newest(turns, u) == u \in turns /\ \A k \in turns : k <= u

Taken ==
    \A t \in Threads :
        /\ Committing(t) => job[t].turns \subseteq Turns /\ \E u \in Turns : Newest(job[t].turns, u)
        /\ At(t) = "amend" => branch # <<>> /\ \E n \in Commits : job[t].turns = {n}

Steady == TypeOK /\ Locks /\ Counted /\ Taken

\* A thread that ends its pass leaves the other's alone.
LEMMA LeaveJob ==
  ASSUME job \in [Threads -> Job], NEW t \in Threads, Leave(t)
  PROVE  /\ job' \in [Threads -> Job]
         /\ job'[t].at = "rest" /\ job'[t].why = "none" /\ job'[t].turns = {}
         /\ \A u \in Threads : u # t => job'[u] = job[u]
         /\ lock' = IF lock = t THEN Free ELSE lock
<1>1. Rest \in Job
  BY DEF Rest, Job, Places, Reasons
<1> QED
  BY <1>1 DEF Leave, Rest

\* A thread that goes on with its pass as well.
LEMMA GoJob ==
  ASSUME job \in [Threads -> Job], NEW t \in Threads, NEW at, Go(t, at)
  PROVE  /\ job'[t].at = at /\ job'[t].why = job[t].why /\ job'[t].turns = job[t].turns
         /\ job'[t].seen = job[t].seen /\ job'[t].got = job[t].got
         /\ \A u \in Threads : u # t => job'[u] = job[u]
         /\ at \in Places => job' \in [Threads -> Job]
  BY DEF Go, Job

\* A thread that goes on with an answer, with the turns it has taken or with another reason.
LEMMA GotJob ==
  ASSUME job \in [Threads -> Job], NEW t \in Threads, NEW at \in Places,
         NEW got \in {"yes", "no", "wait"},
         job' = [job EXCEPT ![t].at = at, ![t].got = got]
  PROVE  /\ job' \in [Threads -> Job]
         /\ job'[t].at = at /\ job'[t].why = job[t].why /\ job'[t].turns = job[t].turns
         /\ \A u \in Threads : u # t => job'[u] = job[u]
BY DEF Job

LEMMA TurnsJob ==
  ASSUME job \in [Threads -> Job], NEW t \in Threads, NEW at \in Places,
         NEW turns \in SUBSET Commits,
         job' = [job EXCEPT ![t].at = at, ![t].turns = turns]
  PROVE  /\ job' \in [Threads -> Job]
         /\ job'[t].at = at /\ job'[t].why = job[t].why /\ job'[t].turns = turns
         /\ \A u \in Threads : u # t => job'[u] = job[u]
BY DEF Job

LEMMA WhyJob ==
  ASSUME job \in [Threads -> Job], NEW t \in Threads, NEW at \in Places, NEW why \in Reasons,
         job' = [job EXCEPT ![t].at = at, ![t].why = why]
  PROVE  /\ job' \in [Threads -> Job]
         /\ job'[t].at = at /\ job'[t].why = why /\ job'[t].turns = job[t].turns
         /\ \A u \in Threads : u # t => job'[u] = job[u]
BY DEF Job

\* A pass that begins.
LEMMA FreshJob ==
  ASSUME job \in [Threads -> Job], NEW t \in Threads, NEW at \in Places, NEW why \in Reasons,
         NEW seen \in SUBSET (0 .. MaxTurns),
         job' = [job EXCEPT ![t] = [Rest EXCEPT !.at = at, !.why = why, !.seen = seen]]
  PROVE  /\ job' \in [Threads -> Job]
         /\ job'[t].at = at /\ job'[t].why = why /\ job'[t].turns = {}
         /\ \A u \in Threads : u # t => job'[u] = job[u]
<1>1. [Rest EXCEPT !.at = at, !.why = why, !.seen = seen] \in Job
  BY DEF Rest, Job
<1> QED
  BY <1>1 DEF Rest

\* What the steps that both threads run do to lock and threads: the thread goes on, still
\* in its pass, or its pass is over; only a merge that is owed turns into a cover.
InPass == {"take", "stage", "commit", "cover", "next", "blocked?", "apply", "amend", "land", "dead"}

Moves(t) ==
    /\ job' \in [Threads -> Job]
    /\ \A u \in Threads : u # t => job'[u] = job[u]
    /\ \/ /\ job'[t].at = "rest" /\ job'[t].why = "none"
          /\ lock' = IF lock = t THEN Free ELSE lock
       \/ /\ job'[t].at \in InPass
          /\ job'[t].why = job[t].why \/ (job[t].why = "owed" /\ job'[t].why = "cover")
          /\ lock' = lock

LEMMA LeaveMoves ==
  ASSUME job \in [Threads -> Job], NEW t \in Threads, Leave(t) PROVE Moves(t)
BY LeaveJob DEF Moves

LEMMA GoMoves ==
  ASSUME job \in [Threads -> Job], NEW t \in Threads, NEW at \in InPass, Go(t, at), lock' = lock
  PROVE  Moves(t)
<1>1. at \in Places
  BY DEF InPass, Places
<1> QED
  BY <1>1, GoJob DEF Moves

LEMMA GotMoves ==
  ASSUME job \in [Threads -> Job], NEW t \in Threads, NEW at \in InPass,
         NEW got \in {"yes", "no", "wait"},
         job' = [job EXCEPT ![t].at = at, ![t].got = got], lock' = lock
  PROVE  Moves(t)
<1>1. at \in Places
  BY DEF InPass, Places
<1> QED
  BY <1>1, GotJob DEF Moves

LEMMA TurnsMoves ==
  ASSUME job \in [Threads -> Job], NEW t \in Threads, NEW at \in InPass,
         NEW turns \in SUBSET Commits,
         job' = [job EXCEPT ![t].at = at, ![t].turns = turns], lock' = lock
  PROVE  Moves(t)
<1>1. at \in Places
  BY DEF InPass, Places
<1> QED
  BY <1>1, TurnsJob DEF Moves

LEMMA StepMoves ==
  ASSUME TypeOK, NEW t \in Threads, Steps(t)
  PROVE  Moves(t) /\ job[t].at \in InPass \ {"next"} /\ UNCHANGED <<agentVars, held>>
<1> DEFINE Goal == Moves(t) /\ job[t].at \in InPass \ {"next"} /\ UNCHANGED <<agentVars, held>>
<1>0. job \in [Threads -> Job]
  BY DEF TypeOK
<1>1. CASE TakeNothing(t)
  <2>1. job' = [job EXCEPT ![t].at = "next", ![t].got = "wait"] /\ lock' = lock
    BY <1>1 DEF TakeNothing
  <2>2. Moves(t)
    BY <1>0, <2>1, GotMoves DEF InPass
  <2> QED
    BY <1>1, <2>2 DEF TakeNothing, InPass, flagVars
<1>2. CASE TakeDeferred(t)
  <2>1. job' = [job EXCEPT ![t].at = "next", ![t].got = "wait"] /\ lock' = lock
    BY <1>2 DEF TakeDeferred
  <2>2. Moves(t)
    BY <1>0, <2>1, GotMoves DEF InPass
  <2> QED
    BY <1>2, <2>2 DEF TakeDeferred, InPass
<1>3. CASE TakeEmpty(t)
  <2>1. job' = [job EXCEPT ![t].at = "next", ![t].got = "no"] /\ lock' = lock
    BY <1>3 DEF TakeEmpty
  <2>2. Moves(t)
    BY <1>0, <2>1, GotMoves DEF InPass
  <2> QED
    BY <1>3, <2>2 DEF TakeEmpty, InPass
<1>4. CASE Take(t)
  <2>1. NewTurns \in SUBSET Commits
    BY DEF NewTurns, Commits, TypeOK
  <2>2. job' = [job EXCEPT ![t].at = "stage", ![t].turns = NewTurns] /\ lock' = lock
    BY <1>4 DEF Take
  <2>3. Moves(t)
    BY <1>0, <2>1, <2>2, TurnsMoves DEF InPass
  <2> QED
    BY <1>4, <2>3 DEF Take, InPass
<1>5. CASE Stage(t)
  <2>1. lock' = lock /\ job[t].at = "stage" /\ UNCHANGED <<agentVars, held>>
    BY <1>5 DEF Stage
  <2>2. CASE Go(t, "commit") \/ Go(t, "cover")
    BY <1>0, <2>1, <2>2, GoMoves DEF InPass
  <2>3. CASE job' = [job EXCEPT ![t].at = "next", ![t].got = "no"]
    BY <1>0, <2>1, <2>3, GotMoves DEF InPass
  <2> QED
    BY <1>5, <2>1, <2>2, <2>3 DEF Stage
<1>6. CASE Commit(t)
  <2> DEFINE next == IF job[t].why = "cover" THEN "next" ELSE "blocked?"
  <2>1. job[t].at \in {"commit", "cover"} /\ UNCHANGED <<agentVars, held>>
    BY <1>6 DEF Commit
  <2>2. job' = [job EXCEPT ![t].got = "yes", ![t].at = next] /\ lock' = lock
    BY <1>6 DEF Commit, Recorded
  <2>3. next \in InPass /\ next \in Places
    BY DEF InPass, Places
  <2> HIDE DEF next
  <2>4. Moves(t)
    BY <1>0, <2>2, <2>3, GotMoves
  <2> QED
    BY <2>1, <2>4 DEF InPass
<1>7. CASE Blocks(t)
  <2>1. job[t].at = "blocked?" /\ UNCHANGED <<agentVars, held>>
    BY <1>7 DEF Blocks, flagVars
  <2>2. Leave(t) \/ (Go(t, "next") /\ lock' = lock)
    BY <1>7 DEF Blocks
  <2> QED
    BY <1>0, <2>1, <2>2, LeaveMoves, GoMoves DEF InPass
<1>8. CASE AppliesFirst(t)
  BY <1>0, <1>8, GoMoves DEF AppliesFirst, InPass, flagVars
<1>9. CASE Unblocked(t)
  <2>1. job[t].at = "blocked?" /\ lock' = lock /\ UNCHANGED <<agentVars, held>>
    BY <1>9 DEF Unblocked, flagVars
  <2>2. \/ Go(t, "land")
        \/ job[t].why = "owed" /\ job' = [job EXCEPT ![t].at = "take", ![t].why = "cover"]
    BY <1>9 DEF Unblocked
  <2>3. CASE job[t].why = "owed" /\ job' = [job EXCEPT ![t].at = "take", ![t].why = "cover"]
    BY <1>0, <2>1, <2>3 DEF Moves, Job, InPass, Places, Reasons
  <2> QED
    BY <1>0, <2>1, <2>2, <2>3, GoMoves DEF InPass
<1>10. CASE Land(t)
  <2>1. job[t].at = "land" /\ UNCHANGED <<agentVars, held>>
    BY <1>10 DEF Land, flagVars
  <2>2. Leave(t) \/ (Go(t, "next") /\ lock' = lock)
    BY <1>10 DEF Land
  <2> QED
    BY <1>0, <2>1, <2>2, LeaveMoves, GoMoves DEF InPass
<1>11. CASE Apply(t)
  <2>1. job[t].at = "apply" /\ UNCHANGED <<agentVars, held>>
    BY <1>11 DEF Apply, flagVars
  <2>2. \/ /\ summary # 0 /\ job' = [job EXCEPT ![t].at = "amend", ![t].turns = {summary}]
           /\ lock' = lock
        \/ Leave(t)
        \/ Go(t, "blocked?") /\ lock' = lock
    BY <1>11 DEF Apply
  <2>3. CASE /\ summary # 0 /\ job' = [job EXCEPT ![t].at = "amend", ![t].turns = {summary}]
             /\ lock' = lock
    <3>1. {summary} \in SUBSET Commits
      BY <2>3 DEF TypeOK
    <3> QED
      BY <1>0, <2>1, <2>3, <3>1, TurnsMoves DEF InPass
  <2> QED
    BY <1>0, <2>1, <2>2, <2>3, LeaveMoves, GoMoves DEF InPass
<1>12. CASE Amend(t)
  <2>1. job[t].at = "amend" /\ UNCHANGED <<agentVars, held>>
    BY <1>12 DEF Amend, flagVars
  <2>2. Leave(t) \/ (Go(t, "blocked?") /\ lock' = lock)
    BY <1>12 DEF Amend
  <2> QED
    BY <1>0, <2>1, <2>2, LeaveMoves, GoMoves DEF InPass
<1>13. CASE CommitFails(t)
  <2>1. job[t].at = "commit" /\ UNCHANGED <<agentVars, held>>
    BY <1>13 DEF CommitFails, flagVars
  <2>2. Leave(t) \/ (Go(t, "dead") /\ lock' = lock)
    BY <1>13 DEF CommitFails
  <2> QED
    BY <1>0, <2>1, <2>2, LeaveMoves, GoMoves DEF InPass
<1> QED
  BY <1>1, <1>2, <1>3, <1>4, <1>5, <1>6, <1>7, <1>8, <1>9, <1>10, <1>11, <1>12, <1>13 DEF Steps

\* One step keeps lock and threads in agreement.
LEMMA LocksStep ==
  ASSUME TypeOK, Locks, [Next]_vars PROVE Locks'
<1> USE DEF TypeOK, Locks, At, Why, Out, Threads, Free, agentVars, gitVars, parseVars,
           flagVars, watchVars, sumVars
<1>1. CASE AgentSpeaks
  BY <1>1 DEF AgentSpeaks
<1>2. CASE AgentEdits
  BY <1>2 DEF AgentEdits
<1>3. CASE AgentCommit
  BY <1>3 DEF AgentCommit, Made
<1>4. CASE TurnEnds
  BY <1>4 DEF TurnEnds
<1>5. CASE FallsQuiet
  BY <1>5 DEF FallsQuiet
<1>6. CASE UserEdit
  BY <1>6 DEF UserEdit
<1>7. CASE ParseReads
  BY <1>7 DEF ParseReads
<1>8. CASE ParseEnds
  BY <1>8 DEF ParseEnds
<1>9. CASE Cools
  BY <1>9 DEF Cools
<1>10. CASE SummaryEnds
  BY <1>10 DEF SummaryEnds
<1>11. CASE SubmitFollowUp
  BY <1>11, GoJob DEF SubmitFollowUp
<1>12. CASE SubmitHeld
  BY <1>12, LeaveJob DEF SubmitHeld, StartParse, Reconciled
<1>13. CASE SubmitClear
  BY <1>13, GoJob DEF SubmitClear, Reconciled
<1>14. CASE Resume
  BY <1>14 DEF Resume, Rest
<1>15. CASE ResumeNext
  BY <1>15, LeaveJob, GoJob DEF ResumeNext
<1>16. CASE OfferSkipped
  BY <1>16, GoJob DEF OfferSkipped, AfterOffer
<1>17. CASE OfferDeclined
  BY <1>17, GoJob DEF OfferDeclined, AfterOffer, Dirt
<1>18. CASE OfferTaken
  BY <1>18, GoJob DEF OfferTaken, AfterOffer, Made, Dirt
<1>19. CASE Begin
  BY <1>19, GoJob DEF Begin, Begun
<1>20. CASE Branch
  BY <1>20, LeaveJob DEF Branch, BeforeTurn, Handed
<1>21. CASE Forward
  BY <1>21, GoJob DEF Forward, BeforeTurn
<1>22. CASE Hand
  BY <1>22, LeaveJob DEF Hand, Begun, Handed
<1>23. CASE Tick
  BY <1>23 DEF Tick, Rest
<1>24. CASE Submit
  BY <1>24 DEF Submit, Prompts, Rest, Dirt
<1>25. CASE Pass
  <2>1. CASE UNCHANGED <<job, lock>>
    BY <1>25, <2>1 DEF Pass
  <2>2. CASE /\ job' = [job EXCEPT !["worker"] = [Rest EXCEPT !.at = "blocked?", !.why = "owed"]]
             /\ lock' = "worker"
    BY <1>25, <2>2 DEF Pass, Rest
  <2>3. CASE /\ job' = [job EXCEPT !["worker"] = [Rest EXCEPT !.at = "take", !.why = "pass"]]
             /\ lock' = "worker"
    BY <1>25, <2>3 DEF Pass, Rest
  <2> QED
    BY <1>25, <2>1, <2>2, <2>3 DEF Pass
<1>26. CASE PassNext
  BY <1>26, LeaveJob DEF PassNext, StartParse, NoParse
<1>27. CASE CoverNext
  BY <1>27, LeaveJob, GoJob DEF CoverNext, StartParse, NoParse
<1>28. CASE CoverDeadline
  BY <1>28, GoJob DEF CoverDeadline
<1>29. ASSUME NEW t \in Threads, Steps(t) PROVE Locks'
  BY <1>29, StepMoves DEF Moves, InPass
<1>30. CASE UNCHANGED vars
  BY <1>30 DEF vars
<1> QED
  BY <1>1, <1>2, <1>3, <1>4, <1>5, <1>6, <1>7, <1>8, <1>9, <1>10,
     <1>11, <1>12, <1>13, <1>14, <1>15, <1>16, <1>17, <1>18, <1>19, <1>20,
     <1>21, <1>22, <1>23, <1>24, <1>25, <1>26, <1>27, <1>28, <1>29, <1>30 DEF Next, Worker, Reactor

\* One step keeps the count of the prompts.
LEMMA CountedStep ==
  ASSUME TypeOK, Locks, Counted, [Next]_vars PROVE Counted'
<1> USE PipelineAssumption DEF TypeOK, Locks, Counted, OnItsWay, Submitting, At, Why, Out,
           Threads, Free, agentVars, gitVars, parseVars, flagVars, watchVars, sumVars
<1>1. CASE AgentSpeaks
  BY <1>1 DEF AgentSpeaks
<1>2. CASE AgentEdits
  BY <1>2 DEF AgentEdits
<1>3. CASE AgentCommit
  BY <1>3 DEF AgentCommit, Made
<1>4. CASE TurnEnds
  <2>0. UNCHANGED <<job, lock, held>>
    BY <1>4 DEF TurnEnds
  <2>1. turn' + queued' = turn + queued
    <3>1. turn \in Nat /\ queued \in Nat
      OBVIOUS
    <3>2. CASE turn' = turn + 1 /\ queued' = queued - 1
      BY <3>1, <3>2
    <3>3. CASE UNCHANGED <<turn, queued>>
      BY <3>3
    <3> QED
      BY <1>4, <3>2, <3>3 DEF TurnEnds
  <2>2. OnItsWay \in {0, 1}
    OBVIOUS
  <2> QED
    BY <2>0, <2>1, <2>2, <1>4 DEF TurnEnds
<1>5. CASE FallsQuiet
  BY <1>5 DEF FallsQuiet
<1>6. CASE UserEdit
  BY <1>6 DEF UserEdit
<1>7. CASE ParseReads
  BY <1>7 DEF ParseReads
<1>8. CASE ParseEnds
  BY <1>8 DEF ParseEnds
<1>9. CASE Cools
  BY <1>9 DEF Cools
<1>10. CASE SummaryEnds
  BY <1>10 DEF SummaryEnds
<1>11. CASE SubmitFollowUp
  BY <1>11, GoJob DEF SubmitFollowUp
<1>12. CASE SubmitHeld
  BY <1>12, LeaveJob DEF SubmitHeld, StartParse, Reconciled
<1>13. CASE SubmitClear
  BY <1>13, GoJob DEF SubmitClear, Reconciled
<1>14. CASE Resume
  BY <1>14 DEF Resume, Rest
<1>15. CASE ResumeNext
  BY <1>15, LeaveJob, GoJob DEF ResumeNext
<1>16. CASE OfferSkipped
  <2>1. /\ At("main") = "offer" /\ UNCHANGED <<agentVars, held>>
        /\ \/ Why("main") = "submit" /\ Go("main", "begin") /\ lock' = Free
           \/ Why("main") = "resume" /\ Go("main", "forward") /\ UNCHANGED lock
    BY <1>16 DEF OfferSkipped, AfterOffer
  <2> QED
    BY <2>1, GoJob
<1>17. CASE OfferDeclined
  <2>1. /\ At("main") = "offer" /\ UNCHANGED <<agentVars, held>>
        /\ \/ Why("main") = "submit" /\ Go("main", "begin") /\ lock' = Free
           \/ Why("main") = "resume" /\ Go("main", "forward") /\ UNCHANGED lock
    BY <1>17 DEF OfferDeclined, AfterOffer
  <2> QED
    BY <2>1, GoJob
<1>18. CASE OfferTaken
  <2>1. /\ At("main") = "offer" /\ UNCHANGED <<agentVars, held>>
        /\ \/ Why("main") = "submit" /\ Go("main", "begin") /\ lock' = Free
           \/ Why("main") = "resume" /\ Go("main", "forward") /\ UNCHANGED lock
    BY <1>18 DEF OfferTaken, AfterOffer
  <2> QED
    BY <2>1, GoJob
<1>19. CASE Begin
  BY <1>19, GoJob DEF Begin, Begun
<1>20. CASE Branch
  BY <1>20, LeaveJob DEF Branch, BeforeTurn, Handed
<1>21. CASE Forward
  BY <1>21, GoJob DEF Forward, BeforeTurn
<1>22. CASE Hand
  BY <1>22, LeaveJob DEF Hand, Begun, Handed
<1>23. CASE Tick
  BY <1>23 DEF Tick, Rest
<1>24. CASE Submit
  BY <1>24 DEF Submit, Prompts, Rest, Dirt
<1>25. CASE Pass
  <2>1. CASE UNCHANGED <<job, lock>>
    BY <1>25, <2>1 DEF Pass
  <2>2. CASE /\ job' = [job EXCEPT !["worker"] = [Rest EXCEPT !.at = "blocked?", !.why = "owed"]]
             /\ lock' = "worker"
    BY <1>25, <2>2 DEF Pass, Rest
  <2>3. CASE /\ job' = [job EXCEPT !["worker"] = [Rest EXCEPT !.at = "take", !.why = "pass"]]
             /\ lock' = "worker"
    BY <1>25, <2>3 DEF Pass, Rest
  <2> QED
    BY <1>25, <2>1, <2>2, <2>3 DEF Pass
<1>26. CASE PassNext
  BY <1>26, LeaveJob DEF PassNext, StartParse, NoParse
<1>27. CASE CoverNext
  BY <1>27, LeaveJob, GoJob DEF CoverNext, StartParse, NoParse
<1>28. CASE CoverDeadline
  BY <1>28, GoJob DEF CoverDeadline
<1>29. ASSUME NEW t \in Threads, Steps(t) PROVE Counted'
  <2>1. Moves(t) /\ At(t) \in InPass /\ UNCHANGED <<turn, queued, held>>
    BY <1>29, StepMoves
  <2>2. CASE t = "worker"
    <3>1. UNCHANGED job["main"]
      BY <2>1, <2>2 DEF Moves
    <3> QED
      BY <2>1, <3>1
  <2>3. CASE t = "main"
    <3>1. CASE At("main")' = "rest" /\ Why("main")' = "none"
      BY <2>1, <2>3, <3>1 DEF InPass
    <3>2. CASE At("main")' \in InPass /\ Why("main")' = Why("main")
      BY <2>1, <2>3, <3>2 DEF InPass
    <3> QED
      BY <2>1, <2>3, <3>1, <3>2 DEF Moves
  <2> QED
    BY <2>2, <2>3
<1>30. CASE UNCHANGED vars
  BY <1>30 DEF vars
<1> QED
  BY <1>1, <1>2, <1>3, <1>4, <1>5, <1>6, <1>7, <1>8, <1>9, <1>10,
     <1>11, <1>12, <1>13, <1>14, <1>15, <1>16, <1>17, <1>18, <1>19, <1>20,
     <1>21, <1>22, <1>23, <1>24, <1>25, <1>26, <1>27, <1>28, <1>29, <1>30 DEF Next, Worker, Reactor

\* What a step does to what a thread has taken: nothing, it takes the new turns or the commit
\* whose summary it will amend, or it goes from staging to committing.
Kept(t) ==
    \/ ~Committing(t)' /\ At(t)' # "amend"
    \/ UNCHANGED job[t]
    \/ At(t) = "stage" /\ At(t)' \in {"commit", "cover"} /\ UNCHANGED job[t].turns
    \/ Take(t) /\ At(t)' = "stage" /\ job'[t].turns = NewTurns
    \/ Apply(t) /\ At(t)' = "amend" /\ job'[t].turns = {summary} /\ summary \in Commits
       /\ IsAhead /\ Top.n = summary

AllKept == \A t \in Threads : Kept(t)

LEMMA StepKept ==
  ASSUME TypeOK, NEW t \in Threads, Steps(t) PROVE AllKept
<1> DEFINE Keeps == /\ \A u \in Threads : u # t => job'[u] = job[u]
                    /\ \/ job'[t].at \notin {"stage", "commit", "cover", "amend"}
                       \/ /\ job'[t].at \in {"commit", "cover"} /\ job[t].at = "stage"
                          /\ job'[t].turns = job[t].turns
<1>0. job \in [Threads -> Job]
  BY DEF TypeOK
<1>1. CASE Keeps
  BY <1>1 DEF AllKept, Kept, At, Committing
<1>2. CASE Take(t)
  <2>3. job' = [job EXCEPT ![t].at = "stage", ![t].turns = NewTurns]
    BY <1>2 DEF Take
  <2>5. /\ job'[t].at = "stage" /\ job'[t].turns = NewTurns
        /\ \A u \in Threads : u # t => job'[u] = job[u]
    BY <1>0, <2>3 DEF Job
  <2> QED
    BY <1>2, <2>5 DEF AllKept, Kept, At, Committing
<1>3. CASE Apply(t) /\ job'[t].at = "amend"
  <2>1. /\ summary # 0 /\ IsAhead /\ Top.n = summary
        /\ job' = [job EXCEPT ![t].at = "amend", ![t].turns = {summary}]
    <3>1. CASE Leave(t)
      BY <1>0, <1>3, <3>1, LeaveJob
    <3>2. CASE Go(t, "blocked?")
      BY <1>0, <1>3, <3>2, GoJob
    <3> QED
      BY <1>3, <3>1, <3>2 DEF Apply
  <2>2. summary \in Commits
    BY <2>1 DEF TypeOK
  <2>4. /\ job'[t].turns = {summary}
        /\ \A u \in Threads : u # t => job'[u] = job[u]
    BY <1>0, <2>1 DEF Job
  <2> QED
    BY <1>3, <2>1, <2>2, <2>4 DEF AllKept, Kept, At, Committing
<1>4. CASE TakeNothing(t)
  <2>1. job' = [job EXCEPT ![t].at = "next", ![t].got = "wait"]
    BY <1>4 DEF TakeNothing
  <2> QED
    BY <1>0, <1>1, <2>1, GotJob DEF Places
<1>5. CASE TakeDeferred(t)
  <2>1. job' = [job EXCEPT ![t].at = "next", ![t].got = "wait"]
    BY <1>5 DEF TakeDeferred
  <2> QED
    BY <1>0, <1>1, <2>1, GotJob DEF Places
<1>6. CASE TakeEmpty(t)
  <2>1. job' = [job EXCEPT ![t].at = "next", ![t].got = "no"]
    BY <1>6 DEF TakeEmpty
  <2> QED
    BY <1>0, <1>1, <2>1, GotJob DEF Places
<1>7. CASE Stage(t)
  <2>1. CASE Go(t, "commit") \/ Go(t, "cover")
    BY <1>0, <1>1, <1>7, <2>1, GoJob DEF Stage
  <2>2. CASE job' = [job EXCEPT ![t].at = "next", ![t].got = "no"]
    BY <1>0, <1>1, <2>2, GotJob DEF Places
  <2> QED
    BY <1>7, <2>1, <2>2 DEF Stage
<1>8. CASE Commit(t)
  <2> DEFINE next == IF job[t].why = "cover" THEN "next" ELSE "blocked?"
  <2>1. job' = [job EXCEPT ![t].got = "yes", ![t].at = next]
    BY <1>8 DEF Commit, Recorded
  <2>2. next \in Places /\ next \notin {"stage", "commit", "cover", "amend"}
    BY DEF Places
  <2> HIDE DEF next
  <2>3. job'[t].at = next /\ \A u \in Threads : u # t => job'[u] = job[u]
    BY <1>0, <2>1 DEF Job
  <2> QED
    BY <1>1, <2>2, <2>3
<1>9. CASE AppliesFirst(t)
  BY <1>0, <1>1, <1>9, GoJob DEF AppliesFirst
<1>10. CASE Unblocked(t)
  <2>1. CASE job' = [job EXCEPT ![t].at = "take", ![t].why = "cover"]
    BY <1>0, <1>1, <2>1, WhyJob DEF Places, Reasons
  <2> QED
    BY <1>0, <1>1, <1>10, <2>1, GoJob DEF Unblocked
<1>11. CASE (Blocks(t) \/ Land(t) \/ Apply(t) \/ Amend(t)) /\ job'[t].at # "amend"
  <2>1. \/ Leave(t) \/ Go(t, "next") \/ Go(t, "blocked?")
        \/ job' = [job EXCEPT ![t].at = "amend", ![t].turns = {summary}]
    BY <1>11 DEF Blocks, Land, Apply, Amend
  <2>2. CASE job' = [job EXCEPT ![t].at = "amend", ![t].turns = {summary}]
    BY <1>0, <1>11, <2>2 DEF Job
  <2> QED
    BY <1>0, <1>1, <2>1, <2>2, LeaveJob, GoJob
<1>12. CASE (Blocks(t) \/ Land(t) \/ Amend(t)) /\ job'[t].at = "amend"
  <2>1. Leave(t) \/ Go(t, "next") \/ Go(t, "blocked?")
    BY <1>12 DEF Blocks, Land, Amend
  <2> QED
    BY <1>0, <1>12, <2>1, LeaveJob, GoJob
<1>13. CASE CommitFails(t)
  BY <1>0, <1>1, <1>13, LeaveJob, GoJob DEF CommitFails
<1> QED
  BY <1>2, <1>3, <1>4, <1>5, <1>6, <1>7, <1>8, <1>9, <1>10, <1>11, <1>12, <1>13 DEF Steps

\* One step of the program.
LEMMA KeptStep ==
  ASSUME TypeOK, [Next]_vars PROVE AllKept
<1> USE DEF TypeOK, AllKept, Kept, Committing, At, Why, Threads, agentVars, gitVars,
           parseVars, flagVars, watchVars, sumVars
<1>1. CASE AgentSpeaks
  BY <1>1 DEF AgentSpeaks
<1>2. CASE AgentEdits
  BY <1>2 DEF AgentEdits
<1>3. CASE AgentCommit
  BY <1>3 DEF AgentCommit
<1>4. CASE TurnEnds
  BY <1>4 DEF TurnEnds
<1>5. CASE FallsQuiet
  BY <1>5 DEF FallsQuiet
<1>6. CASE UserEdit
  BY <1>6 DEF UserEdit
<1>7. CASE ParseReads
  BY <1>7 DEF ParseReads
<1>8. CASE ParseEnds
  BY <1>8 DEF ParseEnds
<1>9. CASE Cools
  BY <1>9 DEF Cools
<1>10. CASE SummaryEnds
  BY <1>10 DEF SummaryEnds
<1>11. CASE SubmitFollowUp
  BY <1>11, GoJob DEF SubmitFollowUp
<1>12. CASE SubmitHeld
  BY <1>12, LeaveJob DEF SubmitHeld
<1>13. CASE SubmitClear
  <2>1. Go("main", "offer")
    BY <1>13 DEF SubmitClear
  <2> QED
    BY <2>1, GoJob
<1>14. CASE Resume
  BY <1>14 DEF Resume, Rest
<1>15. CASE ResumeNext
  BY <1>15, LeaveJob, GoJob DEF ResumeNext
<1>16. CASE OfferSkipped
  BY <1>16, GoJob DEF OfferSkipped, AfterOffer
<1>17. CASE OfferDeclined
  BY <1>17, GoJob DEF OfferDeclined, AfterOffer
<1>18. CASE OfferTaken
  BY <1>18, GoJob DEF OfferTaken, AfterOffer
<1>19. CASE Begin
  BY <1>19, GoJob DEF Begin
<1>20. CASE Branch
  BY <1>20, LeaveJob DEF Branch
<1>21. CASE Forward
  BY <1>21, GoJob DEF Forward
<1>22. CASE Hand
  BY <1>22, LeaveJob DEF Hand
<1>23. CASE Tick
  BY <1>23 DEF Tick, Rest
<1>24. CASE Submit
  BY <1>24 DEF Submit, Rest
<1>25. CASE Pass
  <2>1. CASE UNCHANGED <<job, lock>>
    BY <1>25, <2>1 DEF Pass
  <2>2. CASE /\ job' = [job EXCEPT !["worker"] = [Rest EXCEPT !.at = "blocked?", !.why = "owed"]]
             /\ lock' = "worker"
    BY <1>25, <2>2 DEF Pass, Rest
  <2>3. CASE /\ job' = [job EXCEPT !["worker"] = [Rest EXCEPT !.at = "take", !.why = "pass"]]
             /\ lock' = "worker"
    BY <1>25, <2>3 DEF Pass, Rest
  <2> QED
    BY <1>25, <2>1, <2>2, <2>3 DEF Pass
<1>26. CASE PassNext
  BY <1>26, LeaveJob DEF PassNext
<1>27. CASE CoverNext
  BY <1>27, LeaveJob, GoJob DEF CoverNext
<1>28. CASE CoverDeadline
  BY <1>28, GoJob DEF CoverDeadline
<1>29. ASSUME NEW t \in Threads, Steps(t) PROVE AllKept
  BY <1>29, StepKept
<1>30. CASE UNCHANGED vars
  BY <1>30 DEF vars
<1> QED
  BY <1>1, <1>2, <1>3, <1>4, <1>5, <1>6, <1>7, <1>8, <1>9, <1>10,
     <1>11, <1>12, <1>13, <1>14, <1>15, <1>16, <1>17, <1>18, <1>19, <1>20,
     <1>21, <1>22, <1>23, <1>24, <1>25, <1>26, <1>27, <1>28, <1>29, <1>30 DEF Next, Worker, Reactor

\* The steps that write the session's commits or the base's.
Merges(t) == Merge(t) /\ (Land(t) \/ (t = "main" /\ (Branch \/ Forward)))
Writes(t) == Commit(t) \/ Amend(t) \/ Merges(t)

LEMMA Writers ==
  ASSUME [Next]_vars
  PROVE  \/ UNCHANGED <<branch, base>>
         \/ AgentCommit \/ OfferTaken
         \/ \E t \in Threads : Writes(t)
<1>1. CASE UNCHANGED vars
  BY <1>1 DEF vars, gitVars
<1>2. CASE AgentSpeaks \/ AgentEdits \/ TurnEnds \/ FallsQuiet \/ UserEdit \/ ParseReads
            \/ ParseEnds \/ Cools \/ SummaryEnds
  BY <1>2 DEF AgentSpeaks, AgentEdits, TurnEnds, FallsQuiet, UserEdit, ParseReads, ParseEnds,
         Cools, SummaryEnds, gitVars
<1>3. CASE SubmitFollowUp \/ SubmitHeld \/ SubmitClear \/ Resume \/ ResumeNext \/ OfferSkipped
            \/ OfferDeclined \/ Begin \/ Hand \/ Tick
  BY <1>3 DEF SubmitFollowUp, SubmitHeld, SubmitClear, Resume, ResumeNext, OfferSkipped,
         OfferDeclined, Begin, Hand, Tick, gitVars
<1>4. CASE Pass \/ PassNext \/ CoverNext \/ CoverDeadline \/ Submit
  BY <1>4 DEF Pass, PassNext, CoverNext, CoverDeadline, Submit, gitVars
<1>5. CASE Branch \/ Forward
  <2>1. UNCHANGED <<branch, base>> \/ Merge("main")
    BY <1>5 DEF Branch, Forward, BeforeTurn
  <2> QED
    BY <1>5, <2>1 DEF Writes, Merges, Threads
<1>6. ASSUME NEW t \in Threads, Land(t)
      PROVE  UNCHANGED <<branch, base>> \/ Writes(t)
  BY <1>6 DEF Writes, Merges, Land
<1>7. ASSUME NEW t \in Threads, Steps(t)
      PROVE  UNCHANGED <<branch, base>> \/ Writes(t)
  BY <1>6, <1>7 DEF Steps, Writes, TakeNothing, TakeDeferred, TakeEmpty, Take, Stage, CommitFails,
         Blocks, AppliesFirst, Unblocked, Apply, gitVars
<1> QED
  BY <1>1, <1>2, <1>3, <1>4, <1>5, <1>7 DEF Next, Worker, Reactor, Threads

\* The commits.
CommitsOK == branch \in Seq(Commit_) /\ base \in Seq(Commit_)

\* One more commit.
LEMMA MadeOK ==
  ASSUME branch \in Seq(Commit_), NEW by \in {"agitrack", "agent", "user"},
         NEW edits \in SUBSET (0 .. MaxTurns), NEW records \in SUBSET Turns
  PROVE  /\ Made(by, edits, records) \in Seq(Commit_)
         /\ Len(Made(by, edits, records)) = Len(branch) + 1
         /\ Made(by, edits, records)[Len(branch) + 1].n = Len(branch) + 1
         /\ Made(by, edits, records)[Len(branch) + 1].by = by
         /\ Made(by, edits, records)[Len(branch) + 1].records = records
         /\ Made(by, edits, records)[Len(branch) + 1].text = 0
         /\ \A i \in 1 .. Len(branch) : Made(by, edits, records)[i] = branch[i]
<1> DEFINE made == [n |-> Len(branch) + 1, by |-> by, edits |-> edits, records |-> records,
                    text |-> 0]
<1>1. Len(branch) \in Nat
  OBVIOUS
<1>2. Len(branch) + 1 \in Commits
  BY <1>1 DEF Commits
<1>3. made \in Commit_
  BY <1>2 DEF Commit_
<1>4. Made(by, edits, records) = Append(branch, made)
  BY DEF Made
<1>6. made.n = Len(branch) + 1 /\ made.by = by /\ made.records = records /\ made.text = 0
  OBVIOUS
<1> HIDE DEF made
<1>5. /\ Append(branch, made) \in Seq(Commit_) /\ Len(Append(branch, made)) = Len(branch) + 1
      /\ Append(branch, made)[Len(branch) + 1] = made
      /\ \A i \in 1 .. Len(branch) : Append(branch, made)[i] = branch[i]
  BY <1>3, AppendProperties
<1> QED
  BY <1>4, <1>5, <1>6

\* One that records no turn.
LEMMA MadeUnrecorded ==
  ASSUME branch \in Seq(Commit_), NEW by \in {"agitrack", "agent", "user"},
         NEW edits \in SUBSET (0 .. MaxTurns), branch' = Made(by, edits, {})
  PROVE  /\ branch' \in Seq(Commit_) /\ Len(branch') = Len(branch) + 1
         /\ branch'[Len(branch) + 1].n = Len(branch) + 1
         /\ branch'[Len(branch) + 1].by = by
         /\ branch'[Len(branch) + 1].records = {}
         /\ branch'[Len(branch) + 1].text = 0
         /\ \A i \in 1 .. Len(branch) : branch'[i] = branch[i]
<1>1. {} \in SUBSET Turns
  OBVIOUS
<1> QED
  BY <1>1, MadeOK

\* The summary of the last commit.
Amended(n) == [branch EXCEPT ![Len(branch)].text = n]

LEMMA AmendOK ==
  ASSUME branch \in Seq(Commit_), NEW n \in Commits
  PROVE  /\ Amended(n) \in Seq(Commit_) /\ Len(Amended(n)) = Len(branch)
         /\ \A i \in 1 .. Len(branch) :
               /\ Amended(n)[i].n = branch[i].n /\ Amended(n)[i].by = branch[i].by
               /\ Amended(n)[i].records = branch[i].records
               /\ i # Len(branch) => Amended(n)[i] = branch[i]
               /\ i = Len(branch) => Amended(n)[i].text = n
<1>1. Len(branch) \in Nat /\ branch \in [1 .. Len(branch) -> Commit_]
  OBVIOUS
<1>2. Amended(n) \in [1 .. Len(branch) -> Commit_]
  <2>1. \A c \in Commit_ : [c EXCEPT !.text = n] \in Commit_
    BY DEF Commit_
  <2> QED
    BY <1>1, <2>1 DEF Amended
<1>3. Amended(n) \in Seq(Commit_) /\ Len(Amended(n)) = Len(branch)
  BY <1>1, <1>2, SeqDef, LenProperties
<1>4. ASSUME NEW i \in 1 .. Len(branch)
      PROVE  /\ Amended(n)[i].n = branch[i].n /\ Amended(n)[i].by = branch[i].by
             /\ Amended(n)[i].records = branch[i].records
             /\ i # Len(branch) => Amended(n)[i] = branch[i]
             /\ i = Len(branch) => Amended(n)[i].text = n
  <2>1. branch[i] \in Commit_
    BY <1>1
  <2>2. CASE i = Len(branch)
    <3>1. Amended(n)[i] = [branch[i] EXCEPT !.text = n]
      BY <1>1, <2>2 DEF Amended
    <3> QED
      BY <2>1, <2>2, <3>1 DEF Commit_
  <2>3. CASE i # Len(branch)
    BY <1>1, <2>3 DEF Amended
  <2> QED
    BY <2>2, <2>3
<1> QED
  BY <1>3, <1>4

\* What an amend writes.
LEMMA AmendIs ==
  ASSUME Taken, NEW t \in Threads, Amend(t)
  PROVE  \E n \in Commits : job[t].turns = {n} /\ branch' = Amended(n)
<1>1. PICK n \in Commits : job[t].turns = {n}
  BY DEF Amend, Taken, At
<1>2. (CHOOSE k \in job[t].turns : TRUE) = n
  BY <1>1
<1> QED
  BY <1>1, <1>2 DEF Amend, Amended

\* What a merge makes of the session's commits: as they are, or one more on top when a merged
\* one was amended since.
Rewritten == {i \in DOMAIN base : base[i] # branch[i]}

LEMMA MergedOK ==
  ASSUME branch \in Seq(Commit_), base \in Seq(Commit_)
  PROVE  /\ Merged \in Seq(Commit_)
         /\ \/ Merged = branch /\ Rewritten = {}
            \/ /\ Len(Merged) = Len(branch) + 1
               /\ \A i \in 1 .. Len(branch) : Merged[i] = branch[i]
               /\ Merged[Len(branch) + 1].n = Len(branch) + 1
               /\ Merged[Len(branch) + 1].text = 0
               /\ Merged[Len(branch) + 1].records = UNION {base[i].records : i \in Rewritten}
<1>1. CASE Rewritten = {}
  BY <1>1 DEF Merged, Rewritten
<1>2. CASE Rewritten # {}
  <2> DEFINE lost == UNION {base[i].records : i \in Rewritten}
             top == [n |-> Len(branch) + 1, by |-> "agitrack", edits |-> {}, text |-> 0,
                     records |-> lost]
  <2>1. Merged = Append(branch, top)
    BY <1>2 DEF Merged, Rewritten
  <2>2. lost \in SUBSET Turns
    <3>1. ASSUME NEW i \in Rewritten PROVE base[i].records \subseteq Turns
      <4>1. base[i] \in Commit_
        BY DEF Rewritten
      <4> QED
        BY <4>1 DEF Commit_
    <3> QED
      BY <3>1
  <2>3. Len(branch) + 1 \in Commits /\ {} \in SUBSET (0 .. MaxTurns)
    BY DEF Commits
  <2>4. top.n = Len(branch) + 1 /\ top.text = 0 /\ top.records = lost
    OBVIOUS
  <2> HIDE DEF lost
  <2>5. top \in Commit_
    BY <2>2, <2>3 DEF Commit_
  <2> HIDE DEF top
  <2>6. /\ Append(branch, top) \in Seq(Commit_) /\ Len(Append(branch, top)) = Len(branch) + 1
        /\ Append(branch, top)[Len(branch) + 1] = top
        /\ \A i \in 1 .. Len(branch) : Append(branch, top)[i] = branch[i]
    BY <2>5, AppendProperties
  <2> QED
    BY <2>1, <2>4, <2>6 DEF lost
<1> QED
  BY <1>1, <1>2

LEMMA CommitsStep ==
  ASSUME TypeOK, Taken, [Next]_vars PROVE CommitsOK' /\ Len(branch) <= Len(branch')
<1> USE DEF CommitsOK
<1>0. /\ tree \in SUBSET (0 .. MaxTurns) /\ index \in SUBSET (0 .. MaxTurns) /\ {} \in SUBSET Turns
      /\ branch \in Seq(Commit_) /\ base \in Seq(Commit_) /\ Len(branch) \in Nat
  BY DEF TypeOK
<1>1. CASE UNCHANGED <<branch, base>>
  BY <1>0, <1>1
<1>2. CASE AgentCommit
  BY <1>0, <1>2, MadeOK DEF AgentCommit
<1>3. CASE OfferTaken
  <2>1. Dirt \in SUBSET (0 .. MaxTurns)
    BY <1>0 DEF Dirt
  <2>2. branch' = Made("user", Dirt, {}) /\ UNCHANGED base
    BY <1>3 DEF OfferTaken
  <2>3. Made("user", Dirt, {}) \in Seq(Commit_) /\ Len(Made("user", Dirt, {})) = Len(branch) + 1
    BY <1>0, <2>1, MadeOK
  <2> QED
    BY <1>0, <2>2, <2>3
<1>4. ASSUME NEW t \in Threads, Writes(t) PROVE CommitsOK' /\ Len(branch) <= Len(branch')
  <2>1. CASE Commit(t)
    <3>1. job[t].turns \in SUBSET Turns
      BY <2>1 DEF Commit, Taken, Committing
    <3>2. branch' = Made("agitrack", index, job[t].turns)
      BY <2>1 DEF Commit, Recorded
    <3>3. UNCHANGED base
      BY <2>1 DEF Commit
    <3> QED
      BY <1>0, <3>1, <3>2, <3>3, MadeOK
  <2>2. CASE Merges(t)
    BY <1>0, <2>2, MergedOK DEF Merges, Merge
  <2>3. CASE Amend(t)
    <3>1. PICK n \in Commits : branch' = Amended(n)
      BY <2>3, AmendIs
    <3>2. branch' \in Seq(Commit_) /\ Len(branch') = Len(branch)
      BY <1>0, <3>1, AmendOK
    <3> QED
      BY <1>0, <2>3, <3>2 DEF Amend
  <2> QED
    BY <1>4, <2>1, <2>2, <2>3 DEF Writes
<1> QED
  BY <1>1, <1>2, <1>3, <1>4, Writers

\* So what is taken is new, its last turn is the newest, and a summary is for one commit.
LEMMA TakenStep ==
  ASSUME TypeOK, Taken, [Next]_vars PROVE Taken'
<1>1. AllKept
  BY KeptStep
<1>2. ASSUME NEW t \in Threads, Take(t)
      PROVE  NewTurns \subseteq Turns /\ \E u \in Turns : Newest(NewTurns, u)
  <2>1. parse.upto \in 0 .. MaxTurns /\ parse.mark \in 0 .. MaxTurns /\ MaxTurns \in Nat
    BY PipelineAssumption DEF TypeOK
  <2>2. NewTurns \subseteq Turns
    BY <2>1 DEF NewTurns, Turns
  <2>3. PICK k \in NewTurns : TRUE
    BY <1>2 DEF Take
  <2>4. parse.upto \in NewTurns
    BY <2>1, <2>3 DEF NewTurns
  <2>5. \A j \in NewTurns : j <= parse.upto
    BY <2>1 DEF NewTurns
  <2> QED
    BY <2>2, <2>4, <2>5 DEF Newest
<1>3. ASSUME NEW t \in Threads
      PROVE  /\ Committing(t)' =>
                   job'[t].turns \subseteq Turns /\ \E u \in Turns : Newest(job'[t].turns, u)
             /\ At(t)' = "amend" =>
                   branch # <<>> /\ \E n \in Commits : job'[t].turns = {n}
  <2>1. IsAhead => branch # <<>>
    BY DEF IsAhead, TypeOK
  <2> QED
    BY <1>1, <1>2, <2>1 DEF AllKept, Kept, Taken, Committing, At
<1>4. branch # <<>> => branch' # <<>>
  <2>1. branch \in Seq(Commit_) /\ branch' \in Seq(Commit_) /\ Len(branch) <= Len(branch')
    BY CommitsStep DEF TypeOK, CommitsOK
  <2> QED
    BY <2>1
<1> QED
  BY <1>3, <1>4 DEF Taken, Newest, Committing, At

\* The types of the threads' places and of their lock.
ThreadsOK == job \in [Threads -> Job] /\ lock \in Threads \cup {Free}

\* One step keeps the type of the threads' places and of their lock.
LEMMA ThreadStep ==
  ASSUME TypeOK, ThreadsOK, [Next]_vars PROVE ThreadsOK'
<1> USE DEF ThreadsOK, Threads, Free, agentVars, gitVars,
           parseVars, flagVars, watchVars, sumVars
<1>1. CASE AgentSpeaks
  BY <1>1 DEF AgentSpeaks
<1>2. CASE AgentEdits
  BY <1>2 DEF AgentEdits
<1>3. CASE AgentCommit
  BY <1>3 DEF AgentCommit
<1>4. CASE TurnEnds
  BY <1>4 DEF TurnEnds
<1>5. CASE FallsQuiet
  BY <1>5 DEF FallsQuiet
<1>6. CASE UserEdit
  BY <1>6 DEF UserEdit
<1>7. CASE ParseReads
  BY <1>7 DEF ParseReads
<1>8. CASE ParseEnds
  BY <1>8 DEF ParseEnds
<1>9. CASE Cools
  BY <1>9 DEF Cools
<1>10. CASE SummaryEnds
  BY <1>10 DEF SummaryEnds
<1>11. CASE SubmitFollowUp
  BY <1>11, GoJob DEF SubmitFollowUp, Places
<1>12. CASE SubmitHeld
  BY <1>12, LeaveJob DEF SubmitHeld, Places
<1>13. CASE SubmitClear
  BY <1>13, GoJob DEF SubmitClear, Places
<1>14. CASE Resume
  <2>1. [Rest EXCEPT !.at = "take", !.why = "resume"] \in Job
    BY DEF Rest, Job, Places, Reasons, Dirt, TypeOK
  <2> QED
    BY <1>14, <2>1 DEF Resume
<1>15. CASE ResumeNext
  BY <1>15, LeaveJob, GoJob DEF ResumeNext, Places
<1>16. CASE OfferSkipped
  BY <1>16, GoJob DEF OfferSkipped, AfterOffer, Places
<1>17. CASE OfferDeclined
  BY <1>17, GoJob DEF OfferDeclined, AfterOffer, Places
<1>18. CASE OfferTaken
  BY <1>18, GoJob DEF OfferTaken, AfterOffer, Places
<1>19. CASE Begin
  BY <1>19, GoJob DEF Begin, Places
<1>20. CASE Branch
  BY <1>20, LeaveJob DEF Branch, Places
<1>21. CASE Forward
  BY <1>21, GoJob DEF Forward, Places
<1>22. CASE Hand
  BY <1>22, LeaveJob DEF Hand, Places
<1>23. CASE Tick
  <2>1. [Rest EXCEPT !.at = "apply", !.why = "tick"] \in Job
    BY DEF Rest, Job, Places, Reasons, Dirt, TypeOK
  <2> QED
    BY <1>23, <2>1 DEF Tick
<1>24. CASE Submit
  <2>1. [Rest EXCEPT !.at = "take", !.why = "submit", !.seen = Dirt] \in Job
    BY DEF Rest, Job, Places, Reasons, Dirt, TypeOK
  <2> QED
    BY <1>24, <2>1 DEF Submit
<1>25. CASE Pass
  <2>1. CASE UNCHANGED <<job, lock>>
    BY <2>1 DEF Free
  <2>2. CASE /\ job' = [job EXCEPT !["worker"] = [Rest EXCEPT !.at = "blocked?", !.why = "owed"]]
             /\ lock' = "worker"
    <3>1. [Rest EXCEPT !.at = "blocked?", !.why = "owed"] \in Job
      BY DEF Rest, Job, Places, Reasons
    <3> QED
      BY <2>2, <3>1
  <2>3. CASE /\ job' = [job EXCEPT !["worker"] = [Rest EXCEPT !.at = "take", !.why = "pass"]]
             /\ lock' = "worker"
    <3>1. [Rest EXCEPT !.at = "take", !.why = "pass"] \in Job
      BY DEF Rest, Job, Places, Reasons
    <3> QED
      BY <2>3, <3>1
  <2> QED
    BY <1>25, <2>1, <2>2, <2>3 DEF Pass
<1>26. CASE PassNext
  BY <1>26, LeaveJob DEF PassNext, Places
<1>27. CASE CoverNext
  BY <1>27, LeaveJob, GoJob DEF CoverNext, Places
<1>28. CASE CoverDeadline
  BY <1>28, GoJob DEF CoverDeadline, Places
<1>29. ASSUME NEW t \in Threads, Steps(t) PROVE ThreadsOK'
  BY <1>29, StepMoves DEF Moves
<1>30. CASE UNCHANGED vars
  BY <1>30 DEF vars
<1> QED
  BY <1>1, <1>2, <1>3, <1>4, <1>5, <1>6, <1>7, <1>8, <1>9, <1>10,
     <1>11, <1>12, <1>13, <1>14, <1>15, <1>16, <1>17, <1>18, <1>19, <1>20,
     <1>21, <1>22, <1>23, <1>24, <1>25, <1>26, <1>27, <1>28, <1>29, <1>30 DEF Next, Worker, Reactor

\* The flags are Booleans.
FlagsOK ==
    /\ running \in BOOLEAN /\ quiet \in BOOLEAN /\ onBranch \in BOOLEAN /\ cooling \in BOOLEAN
    /\ inFlight \in BOOLEAN /\ awaiting \in BOOLEAN /\ held \in BOOLEAN
    /\ look \in BOOLEAN /\ dirtySeen \in BOOLEAN /\ parsePending \in BOOLEAN

\* One step keeps them so.
LEMMA FlagsStep ==
  ASSUME FlagsOK, [Next]_vars PROVE FlagsOK'
<1> USE DEF FlagsOK, agentVars, gitVars, parseVars, flagVars, watchVars, sumVars
<1>1. CASE AgentSpeaks
  BY <1>1, Zenon DEF AgentSpeaks
<1>2. CASE AgentEdits
  BY <1>2, Zenon DEF AgentEdits
<1>3. CASE AgentCommit
  BY <1>3, Zenon DEF AgentCommit
<1>4. CASE TurnEnds
  BY <1>4, Zenon DEF TurnEnds
<1>5. CASE FallsQuiet
  BY <1>5, Zenon DEF FallsQuiet
<1>6. CASE UserEdit
  BY <1>6, Zenon DEF UserEdit
<1>7. CASE ParseReads
  BY <1>7, Zenon DEF ParseReads
<1>8. CASE ParseEnds
  BY <1>8, Zenon DEF ParseEnds
<1>9. CASE Cools
  BY <1>9, Zenon DEF Cools
<1>10. CASE SummaryEnds
  BY <1>10, Zenon DEF SummaryEnds
<1>11. CASE SubmitFollowUp
  BY <1>11, Zenon DEF SubmitFollowUp
<1>12. CASE SubmitHeld
  BY <1>12, Zenon DEF SubmitHeld
<1>13. CASE SubmitClear
  BY <1>13, Zenon DEF SubmitClear
<1>14. CASE Resume
  BY <1>14, Zenon DEF Resume
<1>15. CASE ResumeNext
  BY <1>15, Zenon DEF ResumeNext
<1>16. CASE OfferSkipped
  BY <1>16, Zenon DEF OfferSkipped
<1>17. CASE OfferDeclined
  BY <1>17, Zenon DEF OfferDeclined
<1>18. CASE OfferTaken
  BY <1>18, Zenon DEF OfferTaken
<1>19. CASE Begin
  BY <1>19, Zenon DEF Begin, Begun
<1>20. CASE Branch
  BY <1>20, Zenon DEF Branch, BeforeTurn, Handed
<1>21. CASE Forward
  BY <1>21, Zenon DEF Forward, BeforeTurn
<1>22. CASE Hand
  BY <1>22, Zenon DEF Hand, Begun, Handed
<1>23. CASE Tick
  BY <1>23, Zenon DEF Tick
<1>24. CASE Submit
  BY <1>24, Zenon DEF Submit
<1>25. CASE Pass
  BY <1>25, Zenon DEF Pass
<1>26. CASE PassNext
  BY <1>26, Zenon DEF PassNext
<1>27. CASE CoverNext
  BY <1>27, Zenon DEF CoverNext
<1>28. CASE CoverDeadline
  BY <1>28, Zenon DEF CoverDeadline
<1>29. ASSUME NEW t \in Threads, TakeNothing(t) PROVE FlagsOK'
  BY <1>29, Zenon DEF TakeNothing
<1>30. ASSUME NEW t \in Threads, TakeDeferred(t) PROVE FlagsOK'
  BY <1>30, Zenon DEF TakeDeferred
<1>31. ASSUME NEW t \in Threads, TakeEmpty(t) PROVE FlagsOK'
  BY <1>31, Zenon DEF TakeEmpty
<1>32. ASSUME NEW t \in Threads, Take(t) PROVE FlagsOK'
  BY <1>32, Zenon DEF Take
<1>33. ASSUME NEW t \in Threads, Stage(t) PROVE FlagsOK'
  BY <1>33, Zenon DEF Stage
<1>34. ASSUME NEW t \in Threads, Commit(t) PROVE FlagsOK'
  BY <1>34, Zenon DEF Commit, Recorded
<1>35. ASSUME NEW t \in Threads, Blocks(t) PROVE FlagsOK'
  BY <1>35, Zenon DEF Blocks
<1>36. ASSUME NEW t \in Threads, AppliesFirst(t) PROVE FlagsOK'
  BY <1>36, Zenon DEF AppliesFirst
<1>37. ASSUME NEW t \in Threads, Unblocked(t) PROVE FlagsOK'
  BY <1>37, Zenon DEF Unblocked
<1>38. ASSUME NEW t \in Threads, Land(t) PROVE FlagsOK'
  BY <1>38, Zenon DEF Land
<1>39. ASSUME NEW t \in Threads, Apply(t) PROVE FlagsOK'
  BY <1>39, Zenon DEF Apply
<1>40. ASSUME NEW t \in Threads, Amend(t) PROVE FlagsOK'
  BY <1>40, Zenon DEF Amend
<1>41. CASE UNCHANGED vars
  BY <1>41, Zenon DEF vars
<1>42. ASSUME NEW t \in Threads, CommitFails(t) PROVE FlagsOK'
  BY <1>42, Zenon DEF CommitFails
<1> HIDE DEF FlagsOK
<1> QED
  BY <1>1, <1>2, <1>3, <1>4, <1>5, <1>6, <1>7, <1>8, <1>9, <1>10,
     <1>11, <1>12, <1>13, <1>14, <1>15, <1>16, <1>17, <1>18, <1>19, <1>20,
     <1>21, <1>22, <1>23, <1>24, <1>25, <1>26, <1>27, <1>28, <1>29, <1>30,
     <1>31, <1>32, <1>33, <1>34, <1>35, <1>36, <1>37, <1>38, <1>39, <1>40,
     <1>41, <1>42 DEF Next, Worker, Reactor, Steps, Threads

\* Numbers and sets of turns; Counted bounds turn and queued, and what Taken says of the turns
\* that are recorded keeps the watermark among them.
NumbersOK ==
    /\ turn \in Nat /\ queued \in Nat /\ mark \in 0 .. MaxTurns
    /\ tree \in SUBSET (0 .. MaxTurns) /\ index \in SUBSET (0 .. MaxTurns)
    /\ awaited \in SUBSET Turns /\ reconciled \in SUBSET (0 .. MaxTurns)
    /\ pending \in {0} \cup Commits /\ summarizing \in {0} \cup Commits
    /\ summary \in {0} \cup Commits

\* One step keeps them so.
LEMMA NumbersStep ==
  ASSUME TypeOK, NumbersOK, Counted, Taken, [Next]_vars PROVE NumbersOK'
<1> USE PipelineAssumption DEF NumbersOK, Threads, Turns, agentVars, gitVars,
           parseVars, flagVars, watchVars, sumVars
<1>1. CASE AgentSpeaks
  BY <1>1 DEF AgentSpeaks
<1>2. CASE AgentEdits
  <2>1. turn \in 0 .. MaxTurns
    BY DEF TypeOK
  <2> QED
    BY <1>2, <2>1 DEF AgentEdits
<1>3. CASE AgentCommit
  BY <1>3 DEF AgentCommit, Made
<1>4. CASE TurnEnds
  <2>1. UNCHANGED <<gitVars, parseVars, flagVars, watchVars, sumVars>>
    BY <1>4 DEF TurnEnds
  <2>2. turn' \in Nat /\ queued' \in Nat
    <3>1. CASE queued > 0 /\ turn' = turn + 1 /\ queued' = queued - 1
      BY <3>1
    <3>2. CASE UNCHANGED <<turn, queued>>
      BY <3>2
    <3> QED
      BY <1>4, <3>1, <3>2 DEF TurnEnds
  <2> QED
    BY <2>1, <2>2
<1>5. CASE FallsQuiet
  BY <1>5 DEF FallsQuiet
<1>6. CASE UserEdit
  BY <1>6 DEF UserEdit
<1>7. CASE ParseReads
  BY <1>7 DEF ParseReads
<1>8. CASE ParseEnds
  BY <1>8 DEF ParseEnds
<1>9. CASE Cools
  BY <1>9 DEF Cools
<1>10. CASE SummaryEnds
  BY <1>10 DEF SummaryEnds
<1>11. CASE SubmitFollowUp
  <2>1. turn + queued + 1 \in Turns
    BY <1>11, PipelineAssumption DEF SubmitFollowUp, Counted, OnItsWay, Submitting, At, Why, TypeOK,
                                       Turns
  <2>2. awaited' \in SUBSET Turns
    BY <1>11, <2>1 DEF SubmitFollowUp
  <2>3. reconciled' \in SUBSET (0 .. MaxTurns)
    BY <1>11 DEF SubmitFollowUp
  <2> HIDE DEF Turns
  <2> QED
    BY <1>11, <2>2, <2>3 DEF SubmitFollowUp
<1>12. CASE SubmitHeld
  <2>1. job["main"].seen \in SUBSET (0 .. MaxTurns)
    BY DEF TypeOK, Job
  <2>2. Reconciled \in SUBSET (0 .. MaxTurns)
    BY <2>1 DEF Reconciled
  <2> QED
    BY <1>12, <2>2 DEF SubmitHeld
<1>13. CASE SubmitClear
  <2>1. job["main"].seen \in SUBSET (0 .. MaxTurns)
    BY DEF TypeOK, Job
  <2>2. Reconciled \in SUBSET (0 .. MaxTurns)
    BY <2>1 DEF Reconciled
  <2> QED
    BY <1>13, <2>2 DEF SubmitClear
<1>14. CASE Resume
  BY <1>14 DEF Resume
<1>15. CASE ResumeNext
  BY <1>15 DEF ResumeNext
<1>16. CASE OfferSkipped
  BY <1>16 DEF OfferSkipped
<1>17. CASE OfferDeclined
  BY <1>17 DEF OfferDeclined, Dirt
<1>18. CASE OfferTaken
  BY <1>18 DEF OfferTaken, Made, Dirt
<1>19. CASE Begin
  BY <1>19 DEF Begin, Begun
<1>20. CASE Branch
  BY <1>20 DEF Branch, BeforeTurn, Handed
<1>21. CASE Forward
  BY <1>21 DEF Forward, BeforeTurn
<1>22. CASE Hand
  BY <1>22 DEF Hand, Begun, Handed
<1>23. CASE Tick
  BY <1>23 DEF Tick
<1>24. CASE Submit
  BY <1>24 DEF Submit, Prompts, Dirt
<1>25. CASE Pass
  BY <1>25 DEF Pass
<1>26. CASE PassNext
  BY <1>26 DEF PassNext, StartParse, NoParse
<1>27. CASE CoverNext
  BY <1>27 DEF CoverNext, StartParse, NoParse
<1>28. CASE CoverDeadline
  BY <1>28 DEF CoverDeadline
<1>29. ASSUME NEW t \in Threads, TakeNothing(t) PROVE NumbersOK'
  BY <1>29 DEF TakeNothing
<1>30. ASSUME NEW t \in Threads, TakeDeferred(t) PROVE NumbersOK'
  BY <1>30 DEF TakeDeferred, NoParse, NotSeenYet
<1>31. ASSUME NEW t \in Threads, TakeEmpty(t) PROVE NumbersOK'
  BY <1>31 DEF TakeEmpty, NoParse
<1>32. ASSUME NEW t \in Threads, Take(t) PROVE NumbersOK'
  BY <1>32 DEF Take, NoParse, NewTurns
<1>33. ASSUME NEW t \in Threads, Stage(t) PROVE NumbersOK'
  BY <1>33 DEF Stage, Dirt
<1>34. ASSUME NEW t \in Threads, Commit(t) PROVE NumbersOK'
  <2>1. UNCHANGED <<turn, queued, tree, awaited, reconciled>>
    BY <1>34 DEF Commit
  <2>2. CASE Recorded(t)
    <3>1. mark' \in 0 .. MaxTurns
      <4>1. PICK u \in Turns : Newest(job[t].turns, u)
        BY <1>34 DEF Commit, Taken, Committing
      <4>2. u \in job[t].turns /\ \A j \in job[t].turns : j <= u
        BY <4>1 DEF Newest
      <4>3. mark' \in job[t].turns
        BY <2>2, <4>2 DEF Recorded
      <4> QED
        BY <1>34, <4>3 DEF Commit, Taken, Committing, Turns
    <3>2. Len(branch') \in Commits
      BY <2>2 DEF Recorded, Made, TypeOK, Commits
    <3>3. /\ pending' \in {0} \cup Commits /\ summarizing' \in {0} \cup Commits
          /\ summary' \in {0} \cup Commits
      BY <2>2, <3>2 DEF Recorded
    <3>4. index' \in SUBSET (0 .. MaxTurns)
      BY <2>2 DEF Recorded
    <3> QED
      BY <2>1, <3>1, <3>3, <3>4
  <2> QED
    BY <1>34, <2>2 DEF Commit
<1>35. ASSUME NEW t \in Threads, Blocks(t) PROVE NumbersOK'
  BY <1>35 DEF Blocks
<1>36. ASSUME NEW t \in Threads, AppliesFirst(t) PROVE NumbersOK'
  BY <1>36 DEF AppliesFirst
<1>37. ASSUME NEW t \in Threads, Unblocked(t) PROVE NumbersOK'
  BY <1>37 DEF Unblocked
<1>38. ASSUME NEW t \in Threads, Land(t) PROVE NumbersOK'
  BY <1>38 DEF Land
<1>39. ASSUME NEW t \in Threads, Apply(t) PROVE NumbersOK'
  BY <1>39 DEF Apply
<1>40. ASSUME NEW t \in Threads, Amend(t) PROVE NumbersOK'
  BY <1>40 DEF Amend
<1>41. CASE UNCHANGED vars
  BY <1>41 DEF vars
<1>42. ASSUME NEW t \in Threads, CommitFails(t) PROVE NumbersOK'
  BY <1>42 DEF CommitFails
<1> QED
  BY <1>1, <1>2, <1>3, <1>4, <1>5, <1>6, <1>7, <1>8, <1>9, <1>10,
     <1>11, <1>12, <1>13, <1>14, <1>15, <1>16, <1>17, <1>18, <1>19, <1>20,
     <1>21, <1>22, <1>23, <1>24, <1>25, <1>26, <1>27, <1>28, <1>29, <1>30,
     <1>31, <1>32, <1>33, <1>34, <1>35, <1>36, <1>37, <1>38, <1>39, <1>40,
     <1>41, <1>42 DEF Next, Worker, Reactor, Steps

\* The parse.
ParseOK ==
    parse \in [st : {"none", "run", "read", "done"}, mark : 0 .. MaxTurns, upto : 0 .. MaxTurns,
               open : BOOLEAN]

LEMMA StartOK ==
  ASSUME ParseOK, StartParse \/ UNCHANGED parse PROVE ParseOK'
<1> DEFINE Results == [st : {"none", "run", "read", "done"}, mark : 0 .. MaxTurns,
                       upto : 0 .. MaxTurns, open : BOOLEAN]
<1>1. NoParse \in Results
  BY PipelineAssumption DEF NoParse
<1>2. [NoParse EXCEPT !.st = "run"] \in Results
  BY <1>1
<1> QED
  BY <1>2 DEF StartParse, ParseOK

LEMMA ClearedOK ==
  ASSUME ParseOK, NEW t \in Threads, Cleared(t) PROVE ParseOK'
<1> DEFINE Results == [st : {"none", "run", "read", "done"}, mark : 0 .. MaxTurns,
                       upto : 0 .. MaxTurns, open : BOOLEAN]
<1>1. parse' = NoParse \/ parse' = parse
  BY DEF Cleared
<1>2. NoParse \in Results
  BY PipelineAssumption DEF NoParse
<1> QED
  BY <1>1, <1>2 DEF ParseOK

\* One step keeps its type.
LEMMA ParseStep ==
  ASSUME TypeOK, ParseOK, [Next]_vars PROVE ParseOK'
<1> USE PipelineAssumption DEF ParseOK, Threads, agentVars, gitVars,
           parseVars, flagVars, watchVars, sumVars
<1>1. CASE AgentSpeaks
  BY <1>1 DEF AgentSpeaks
<1>2. CASE AgentEdits
  BY <1>2 DEF AgentEdits
<1>3. CASE AgentCommit
  BY <1>3 DEF AgentCommit, Made
<1>4. CASE TurnEnds
  BY <1>4 DEF TurnEnds
<1>5. CASE FallsQuiet
  BY <1>5 DEF FallsQuiet
<1>6. CASE UserEdit
  BY <1>6 DEF UserEdit
<1>7. CASE ParseReads
  <2>1. turn \in 0 .. MaxTurns /\ mark \in 0 .. MaxTurns /\ running \in BOOLEAN
    BY DEF TypeOK
  <2>2. parse' = [st |-> "read", mark |-> mark, upto |-> turn, open |-> running]
    BY <1>7 DEF ParseReads
  <2> QED
    BY <2>1, <2>2, Zenon DEF ParseOK
<1>8. CASE ParseEnds
  BY <1>8 DEF ParseEnds
<1>9. CASE Cools
  BY <1>9 DEF Cools
<1>10. CASE SummaryEnds
  BY <1>10 DEF SummaryEnds
<1>11. CASE SubmitFollowUp
  BY <1>11 DEF SubmitFollowUp
<1>12. CASE SubmitHeld
  BY <1>12, StartOK DEF SubmitHeld
<1>13. CASE SubmitClear
  BY <1>13 DEF SubmitClear, Reconciled
<1>14. CASE Resume
  BY <1>14 DEF Resume
<1>15. CASE ResumeNext
  BY <1>15 DEF ResumeNext
<1>16. CASE OfferSkipped
  BY <1>16 DEF OfferSkipped
<1>17. CASE OfferDeclined
  BY <1>17 DEF OfferDeclined, Dirt
<1>18. CASE OfferTaken
  BY <1>18 DEF OfferTaken, Made, Dirt
<1>19. CASE Begin
  BY <1>19 DEF Begin, Begun
<1>20. CASE Branch
  BY <1>20 DEF Branch, BeforeTurn, Handed
<1>21. CASE Forward
  BY <1>21 DEF Forward, BeforeTurn
<1>22. CASE Hand
  BY <1>22 DEF Hand, Begun, Handed
<1>23. CASE Tick
  BY <1>23 DEF Tick
<1>24. CASE Submit
  BY <1>24 DEF Submit, Prompts, Dirt
<1>25. CASE Pass
  BY <1>25 DEF Pass
<1>26. CASE PassNext
  BY <1>26, StartOK DEF PassNext
<1>27. CASE CoverNext
  BY <1>27, StartOK DEF CoverNext
<1>28. CASE CoverDeadline
  BY <1>28 DEF CoverDeadline
<1>29. ASSUME NEW t \in Threads, TakeNothing(t) PROVE ParseOK'
  BY <1>29 DEF TakeNothing
<1>30. ASSUME NEW t \in Threads, TakeDeferred(t) PROVE ParseOK'
  BY <1>30, ClearedOK DEF TakeDeferred
<1>31. ASSUME NEW t \in Threads, TakeEmpty(t) PROVE ParseOK'
  BY <1>31, ClearedOK DEF TakeEmpty
<1>32. ASSUME NEW t \in Threads, Take(t) PROVE ParseOK'
  BY <1>32, ClearedOK DEF Take
<1>33. ASSUME NEW t \in Threads, Stage(t) PROVE ParseOK'
  BY <1>33 DEF Stage, Dirt
<1>34. ASSUME NEW t \in Threads, Commit(t) PROVE ParseOK'
  BY <1>34 DEF Commit, Recorded, Made
<1>35. ASSUME NEW t \in Threads, Blocks(t) PROVE ParseOK'
  BY <1>35 DEF Blocks
<1>36. ASSUME NEW t \in Threads, AppliesFirst(t) PROVE ParseOK'
  BY <1>36 DEF AppliesFirst
<1>37. ASSUME NEW t \in Threads, Unblocked(t) PROVE ParseOK'
  BY <1>37 DEF Unblocked
<1>38. ASSUME NEW t \in Threads, Land(t) PROVE ParseOK'
  BY <1>38 DEF Land
<1>39. ASSUME NEW t \in Threads, Apply(t) PROVE ParseOK'
  BY <1>39 DEF Apply
<1>40. ASSUME NEW t \in Threads, Amend(t) PROVE ParseOK'
  BY <1>40 DEF Amend
<1>41. CASE UNCHANGED vars
  BY <1>41 DEF vars
<1>42. ASSUME NEW t \in Threads, CommitFails(t) PROVE ParseOK'
  BY <1>42 DEF CommitFails
<1> QED
  BY <1>1, <1>2, <1>3, <1>4, <1>5, <1>6, <1>7, <1>8, <1>9, <1>10,
     <1>11, <1>12, <1>13, <1>14, <1>15, <1>16, <1>17, <1>18, <1>19, <1>20,
     <1>21, <1>22, <1>23, <1>24, <1>25, <1>26, <1>27, <1>28, <1>29, <1>30,
     <1>31, <1>32, <1>33, <1>34, <1>35, <1>36, <1>37, <1>38, <1>39, <1>40,
     <1>41, <1>42 DEF Next, Worker, Reactor, Steps

\* The steps that write the parse or the watermark, or take the parse's answer.
Reads(t) == TakeDeferred(t) \/ TakeEmpty(t) \/ Take(t)

\* The history is of commits and of turns.
HistoryOK == overrun \in SUBSET Commits /\ again \in SUBSET Turns

\* Who writes it.
LEMMA Historians ==
  ASSUME [Next]_vars
  PROVE  \/ UNCHANGED history
         \/ ParseReads \/ OfferTaken
         \/ \E t \in Threads : Reads(t) \/ Commit(t) \/ Merges(t)
<1>1. CASE UNCHANGED vars
  BY <1>1 DEF vars
<1>2. CASE AgentSpeaks \/ AgentEdits \/ AgentCommit \/ TurnEnds \/ FallsQuiet \/ UserEdit
            \/ ParseEnds \/ Cools \/ SummaryEnds
  BY <1>2 DEF AgentSpeaks, AgentEdits, AgentCommit, TurnEnds, FallsQuiet, UserEdit, ParseEnds,
         Cools, SummaryEnds
<1>3. CASE SubmitFollowUp \/ SubmitHeld \/ SubmitClear \/ Resume \/ ResumeNext \/ OfferSkipped
            \/ OfferDeclined \/ Begin \/ Hand \/ Tick
  BY <1>3 DEF SubmitFollowUp, SubmitHeld, SubmitClear, Resume, ResumeNext, OfferSkipped,
         OfferDeclined, Begin, Hand, Tick
<1>4. CASE Pass \/ PassNext \/ CoverNext \/ CoverDeadline \/ Submit
  BY <1>4 DEF Pass, PassNext, CoverNext, CoverDeadline, Submit
<1>5. CASE Branch \/ Forward
  <2>1. UNCHANGED history \/ Merge("main")
    BY <1>5 DEF Branch, Forward, BeforeTurn
  <2> QED
    BY <1>5, <2>1 DEF Merges, Threads
<1>6. ASSUME NEW t \in Threads, Land(t)
      PROVE  UNCHANGED history \/ Merges(t)
  BY <1>6 DEF Merges, Land
<1>7. ASSUME NEW t \in Threads, Steps(t)
      PROVE  UNCHANGED history \/ Reads(t) \/ Commit(t) \/ Merges(t)
  BY <1>6, <1>7 DEF Steps, Reads, TakeNothing, Stage, CommitFails, Blocks, AppliesFirst, Unblocked,
         Apply, Amend
<1> QED
  BY <1>1, <1>2, <1>3, <1>4, <1>5, <1>7 DEF Next, Worker, Reactor, Threads

\* One step keeps the types of the history, which only grows.
LEMMA HistoryStep ==
  ASSUME TypeOK, Taken, [Next]_vars
  PROVE  HistoryOK' /\ overrun \subseteq overrun' /\ again \subseteq again'
<1>0. /\ overrun \in SUBSET Commits /\ again \in SUBSET Turns
      /\ branch \in Seq(Commit_) /\ branch' \in Seq(Commit_) /\ Len(branch) <= Len(branch')
  BY CommitsStep DEF TypeOK, CommitsOK
<1>1. ASSUME NEW t \in Threads PROVE Over(t) \in SUBSET Commits
  <2>1. CASE At(Other(t)) = "amend"
    <3>1. branch # <<>>
      BY <2>1 DEF Taken, Other, Threads
    <3>2. Len(branch') \in Commits
      BY <1>0, <3>1 DEF Commits
    <3> QED
      BY <3>2 DEF Over
  <2> QED
    BY <2>1 DEF Over, At
<1>2. NewTurns \in SUBSET Turns
  BY PipelineAssumption DEF NewTurns, TypeOK, Turns
<1>3. CASE UNCHANGED history
  BY <1>0, <1>3 DEF history, HistoryOK
<1>4. CASE ParseReads
  <2>1. mark + 1 .. turn \in SUBSET Turns
    BY PipelineAssumption DEF TypeOK, Turns
  <2>2. overrun' = overrun /\ (again' = again \/ again' = again \cup (mark + 1 .. turn))
    BY <1>4 DEF ParseReads
  <2> QED
    BY <1>0, <2>1, <2>2 DEF HistoryOK
<1>5. CASE OfferTaken
  <2>1. overrun' = overrun \cup Over("main") /\ again' = again /\ "main" \in Threads
    BY <1>5 DEF OfferTaken, Threads
  <2> QED
    BY <1>0, <1>1, <2>1 DEF HistoryOK
<1>6. ASSUME NEW t \in Threads, Reads(t)
      PROVE  HistoryOK' /\ overrun \subseteq overrun' /\ again \subseteq again'
  <2>1. overrun' = overrun /\ (again' = again \/ again' = again \cup NewTurns)
    BY <1>6 DEF Reads, TakeDeferred, TakeEmpty, Take, Cleared
  <2> QED
    BY <1>0, <1>2, <2>1 DEF HistoryOK
<1>7. ASSUME NEW t \in Threads, Commit(t)
      PROVE  HistoryOK' /\ overrun \subseteq overrun' /\ again \subseteq again'
  <2>1. overrun' = overrun \cup Over(t) /\ again' = again
    BY <1>7 DEF Commit, Recorded
  <2> QED
    BY <1>0, <1>1, <2>1 DEF HistoryOK
<1>8. ASSUME NEW t \in Threads, Merge(t), branch' = Merged
      PROVE  HistoryOK' /\ overrun \subseteq overrun' /\ again \subseteq again'
  <2>1. /\ overrun' = overrun \cup Over(t)
        /\ again' = IF Over(t) = {} THEN again ELSE again \cup Merged[Len(Merged)].records
    BY <1>8 DEF Merge
  <2>2. Over(t) # {} => Merged[Len(Merged)].records \in SUBSET Turns
    <3>1. SUFFICES ASSUME Over(t) # {} PROVE Merged[Len(Merged)].records \in SUBSET Turns
      OBVIOUS
    <3>2. Len(Merged) \in Commits
      BY <1>1, <1>8, <3>1 DEF Over
    <3>3. Merged[Len(Merged)] \in Commit_
      BY <1>0, <1>8, <3>2 DEF Commits
    <3> QED
      BY <3>3 DEF Commit_
  <2> QED
    BY <1>0, <1>1, <2>1, <2>2 DEF HistoryOK
<1> QED
  BY <1>3, <1>4, <1>5, <1>6, <1>7, <1>8, Historians DEF Merges, Merge

\* Together they are the type invariant.
LEMMA TypeParts ==
  ASSUME TypeOK PROVE FlagsOK /\ NumbersOK /\ ParseOK /\ ThreadsOK
<1>1. NumbersOK
  BY DEF TypeOK, NumbersOK
<1>2. FlagsOK
  BY Zenon DEF TypeOK, FlagsOK
<1> QED
  BY <1>1, <1>2, Zenon DEF TypeOK, ParseOK, ThreadsOK

LEMMA ShareBound ==
  ASSUME NEW a \in Nat, NEW b \in Nat, NEW c \in {0, 1}, NEW m \in Nat, a + b + c <= m
  PROVE  a \in 0 .. m /\ b \in 0 .. m
OBVIOUS

\* One step keeps the whole invariant.
LEMMA SteadyStep ==
  ASSUME Steady, [Next]_vars PROVE Steady'
<1> USE DEF Steady
<1>1. FlagsOK /\ NumbersOK /\ ParseOK /\ ThreadsOK
  BY TypeParts
<1>2. Locks' /\ Counted' /\ Taken'
  BY LocksStep, CountedStep, TakenStep
<1>3. FlagsOK' /\ NumbersOK' /\ ParseOK' /\ CommitsOK' /\ ThreadsOK' /\ HistoryOK'
  BY <1>1, FlagsStep, NumbersStep, ParseStep, CommitsStep, ThreadStep, HistoryStep
<1>4. turn' \in 0 .. MaxTurns /\ queued' \in 0 .. MaxTurns
  <2>1. turn' \in Nat /\ queued' \in Nat
    BY <1>3 DEF NumbersOK
  <2>2. turn' + queued' + OnItsWay' <= MaxTurns
    BY <1>2 DEF Counted
  <2>3. OnItsWay' \in {0, 1}
    BY DEF OnItsWay
  <2>4. MaxTurns \in Nat
    BY PipelineAssumption
  <2> QED
    BY <2>1, <2>2, <2>3, <2>4, ShareBound
<1>5. TypeOK'
  <2>1. FlagsOK' /\ ParseOK' /\ CommitsOK' /\ ThreadsOK'
    BY <1>3
  <2>2. /\ mark' \in 0 .. MaxTurns /\ tree' \subseteq 0 .. MaxTurns
        /\ index' \subseteq 0 .. MaxTurns /\ awaited' \subseteq Turns
        /\ reconciled' \subseteq 0 .. MaxTurns
        /\ pending' \in {0} \cup Commits /\ summarizing' \in {0} \cup Commits
        /\ summary' \in {0} \cup Commits
        /\ overrun' \subseteq Commits /\ again' \subseteq Turns
    BY <1>3 DEF NumbersOK, HistoryOK
  <2> QED
    BY <1>4, <2>1, <2>2, Zenon DEF TypeOK, FlagsOK, ParseOK, CommitsOK, ThreadsOK
<1> QED
  BY <1>2, <1>5

\* It holds at the start.
LEMMA SteadyInit ==
  ASSUME Init PROVE Steady
<1>1. Rest \in Job
  BY DEF Rest, Job, Places, Reasons
<1>2. job \in [Threads -> Job] /\ \A t \in Threads : job[t] = Rest
  BY <1>1 DEF Init
<1>3. TypeOK
  <2>1. /\ turn \in 0 .. MaxTurns /\ queued \in 0 .. MaxTurns /\ mark \in 0 .. MaxTurns
        /\ pending \in {0} \cup Commits /\ summarizing \in {0} \cup Commits
        /\ summary \in {0} \cup Commits
        /\ tree \subseteq 0 .. MaxTurns /\ index \subseteq 0 .. MaxTurns
        /\ awaited \subseteq Turns /\ reconciled \subseteq 0 .. MaxTurns
        /\ branch \in Seq(Commit_) /\ base \in Seq(Commit_)
        /\ overrun \subseteq Commits /\ again \subseteq Turns
    BY PipelineAssumption DEF Init
  <2>2. parse \in [st : {"none", "run", "read", "done"}, mark : 0 .. MaxTurns,
                   upto : 0 .. MaxTurns, open : BOOLEAN]
    BY PipelineAssumption DEF Init, NoParse
  <2> QED
    BY <1>2, <2>1, <2>2, Zenon DEF Init, TypeOK
<1>4. \A t \in Threads : At(t) = "rest" /\ Why(t) = "none"
  BY <1>2 DEF At, Why, Rest
<1>5. Locks
  BY <1>4 DEF Init, Locks, Out, Threads, Free
<1>6. Counted
  BY <1>4, PipelineAssumption DEF Init, Counted, OnItsWay, Submitting, Threads
<1>7. Taken
  BY <1>4 DEF Taken, Committing, At
<1> QED
  BY <1>3, <1>5, <1>6, <1>7 DEF Steady

LEMMA SteadyAlways == Spec => []Steady
BY SteadyInit, SteadyStep, PTL DEF Spec

\* Types, for any number of prompts: the prompts are never more than were entered, and the
\* watermark and the turns a commit records stay among the turns there can be.
THEOREM TypeCorrect == Spec => []TypeOK
<1>1. Steady => TypeOK
  BY DEF Steady
<1> QED
  BY <1>1, SteadyAlways, PTL

\* What the lock is there for: while the reactor submits a prompt or applies a summary the git
\* worker is in no pass, for any number of prompts; a held prompt's resume is the only exception.
THEOREM SubmitsAlone == Spec => []SubmitsApart
<1>1. Steady => SubmitsApart
  BY DEF Steady, Locks, SubmitsApart, At, Why, Threads, Out
<1> QED
  BY <1>1, SteadyAlways, PTL

-----------------------------------------------------------------------------
(* Threads: what was merged, and who amends it.                            *)

\* A thread that commits, merges or offers a commit is not about to amend, leaves the other where
\* it is, and marks what it makes if the other is about to amend.
LEMMA Writer ==
  ASSUME TypeOK, NEW t \in Threads, Commit(t) \/ Merges(t) \/ (t = "main" /\ OfferTaken)
  PROVE  /\ At(t)' \notin {"stage", "commit", "cover", "amend"}
         /\ \A u \in Threads : u # t => job'[u] = job[u]
         /\ overrun' = overrun \cup Over(t)
<1>0. job \in [Threads -> Job]
  BY DEF TypeOK
<1>1. CASE Commit(t)
  <2> DEFINE next == IF job[t].why = "cover" THEN "next" ELSE "blocked?"
  <2>1. job' = [job EXCEPT ![t].got = "yes", ![t].at = next] /\ overrun' = overrun \cup Over(t)
    BY <1>1 DEF Commit, Recorded
  <2>2. next \in Places /\ next \notin {"stage", "commit", "cover", "amend"}
    BY DEF Places
  <2> HIDE DEF next
  <2>3. job'[t].at = next /\ \A u \in Threads : u # t => job'[u] = job[u]
    BY <1>0, <2>1 DEF Job
  <2> QED
    BY <2>1, <2>2, <2>3 DEF At
<1>2. CASE Merges(t)
  <2>1. Leave(t) \/ Go(t, "next") \/ Go(t, "hand")
    BY <1>2 DEF Merges, Land, Branch, Forward
  <2>2. overrun' = overrun \cup Over(t)
    BY <1>2 DEF Merges, Merge
  <2> QED
    BY <1>0, <2>1, <2>2, LeaveJob, GoJob DEF At
<1>3. CASE t = "main" /\ OfferTaken
  <2>1. Go(t, "begin") \/ Go(t, "forward")
    BY <1>3 DEF OfferTaken, AfterOffer
  <2>2. overrun' = overrun \cup Over(t)
    BY <1>3 DEF OfferTaken
  <2> QED
    BY <1>0, <2>1, <2>2, GoJob DEF At
<1> QED
  BY <1>1, <1>2, <1>3

\* So whoever is about to amend looked before, and what the other made is marked.
LEMMA Excuse ==
  ASSUME TypeOK, NEW t \in Threads, Commit(t) \/ Merges(t) \/ (t = "main" /\ OfferTaken),
         NEW u \in Threads, At(u)' = "amend"
  PROVE  /\ At(u) = "amend" /\ job'[u] = job[u] /\ Len(branch') \in overrun'
         /\ Merges(t) => branch'[Len(branch')].records \subseteq again'
<1>1. u # t /\ job'[u] = job[u] /\ At(u) = "amend" /\ overrun' = overrun \cup Over(t)
  BY Writer DEF At
<1>2. u = Other(t)
  BY <1>1 DEF Other, Threads
<1>3. Over(t) = {Len(branch')}
  BY <1>1, <1>2 DEF Over, At
<1> QED
  BY <1>1, <1>3 DEF Merges, Merge

\* What one step does to the commits there are: none, a summary in the last one, one more, or a
\* merge, after which the base is the session.
Grown(records) ==
    /\ Len(branch') = Len(branch) + 1
    /\ \A i \in 1 .. Len(branch) : branch'[i] = branch[i]
    /\ branch'[Len(branch) + 1].n = Len(branch) + 1
    /\ branch'[Len(branch) + 1].text = 0
    /\ branch'[Len(branch) + 1].records = records

LEMMA BranchMoves ==
  ASSUME Steady, [Next]_vars
  PROVE  /\ branch \in Seq(Commit_) /\ branch' \in Seq(Commit_)
         /\ base \in Seq(Commit_) /\ base' \in Seq(Commit_)
         /\ overrun \subseteq overrun' /\ again \subseteq again'
         /\ \/ UNCHANGED <<branch, base>>
            \/ \E t \in Threads, n \in Commits :
                  /\ Amend(t) /\ At(t) = "amend" /\ At(t)' # "amend"
                  /\ job[t].turns = {n} /\ branch' = Amended(n) /\ UNCHANGED base
            \/ /\ Grown({}) /\ UNCHANGED base
               /\ \/ AgentCommit /\ UNCHANGED job /\ branch'[Len(branch) + 1].by = "agent"
                  \/ OfferTaken
            \/ \E t \in Threads : Commit(t) /\ Grown(job[t].turns) /\ UNCHANGED base
            \/ /\ \E t \in Threads : Merges(t)
               /\ base' = branch'
               /\ UNCHANGED branch \/ Grown(UNION {base[i].records : i \in Rewritten})
<1>0. /\ TypeOK /\ Taken /\ branch \in Seq(Commit_) /\ base \in Seq(Commit_)
      /\ tree \in SUBSET (0 .. MaxTurns) /\ index \in SUBSET (0 .. MaxTurns)
      /\ {} \in SUBSET Turns /\ job \in [Threads -> Job]
  BY DEF Steady, TypeOK
<1>1. /\ branch' \in Seq(Commit_) /\ base' \in Seq(Commit_)
      /\ overrun \subseteq overrun' /\ again \subseteq again'
  BY <1>0, CommitsStep, HistoryStep DEF CommitsOK
<1>2. CASE AgentCommit
  <2>1. branch' = Made("agent", tree, {}) /\ tree \in SUBSET (0 .. MaxTurns)
    BY <1>0, <1>2 DEF AgentCommit
  <2>2. Grown({}) /\ branch'[Len(branch) + 1].by = "agent"
    BY <1>0, <2>1, MadeUnrecorded DEF Grown
  <2>3. UNCHANGED <<base, job>>
    BY <1>2 DEF AgentCommit
  <2> QED
    BY <1>0, <1>1, <1>2, <2>2, <2>3
<1>3. CASE OfferTaken
  <2>1. branch' = Made("user", Dirt, {}) /\ Dirt \in SUBSET (0 .. MaxTurns)
    BY <1>0, <1>3 DEF OfferTaken, Dirt
  <2>2. Grown({})
    BY <1>0, <2>1, MadeUnrecorded DEF Grown
  <2>3. UNCHANGED base
    BY <1>3 DEF OfferTaken
  <2> QED
    BY <1>0, <1>1, <1>3, <2>2, <2>3
<1>4. ASSUME NEW t \in Threads, Commit(t) PROVE Grown(job[t].turns) /\ UNCHANGED base
  <2>1. branch' = Made("agitrack", index, job[t].turns) /\ UNCHANGED base
    BY <1>4 DEF Commit, Recorded
  <2>2. job[t].turns \in SUBSET Turns
    BY <1>0, <1>4 DEF Commit, Taken, Committing
  <2>3. "agitrack" \in {"agitrack", "agent", "user"}
    OBVIOUS
  <2> QED
    BY <1>0, <2>1, <2>2, <2>3, MadeOK DEF Grown
<1>5. ASSUME NEW t \in Threads, Amend(t)
      PROVE  \E n \in Commits : /\ At(t) = "amend" /\ At(t)' # "amend" /\ job[t].turns = {n}
                                /\ branch' = Amended(n) /\ UNCHANGED base
  <2>1. At(t) = "amend" /\ UNCHANGED base /\ (Leave(t) \/ Go(t, "blocked?"))
    BY <1>5 DEF Amend, At
  <2>2. At(t)' # "amend"
    BY <1>0, <2>1, LeaveJob, GoJob DEF At
  <2> QED
    BY <1>0, <1>5, <2>1, <2>2, AmendIs
<1>6. ASSUME NEW t \in Threads, Merges(t)
      PROVE  /\ base' = branch'
             /\ UNCHANGED branch \/ Grown(UNION {base[i].records : i \in Rewritten})
  <2>1. base' = Merged /\ branch' = Merged
    BY <1>6 DEF Merges, Merge
  <2> QED
    BY <1>0, <2>1, MergedOK DEF Grown
<1> QED
  BY <1>0, <1>1, <1>2, <1>3, <1>4, <1>5, <1>6, Writers DEF Writes

\* A merged commit that an amend may still reach, or has reached, is one that was merged while a
\* thread was about to amend it, and an amend leaves a commit's turns alone.
Excused(i) == i \in overrun /\ branch[i].records \subseteq again

Amends ==
    /\ Len(base) <= Len(branch)
    /\ \A i \in DOMAIN base : /\ base[i].records = branch[i].records
                              /\ base[i] = branch[i] \/ Excused(i)
    /\ \A t \in Threads : At(t) = "amend" => Len(base) < Len(branch) \/ Excused(Len(branch))

LEMMA AmendsStep ==
  ASSUME Steady, Amends, [Next]_vars PROVE Amends'
<1>0. /\ TypeOK /\ AllKept /\ base \in Seq(Commit_) /\ branch \in Seq(Commit_)
      /\ branch' \in Seq(Commit_) /\ base' \in Seq(Commit_)
      /\ overrun \subseteq overrun' /\ again \subseteq again'
      /\ Len(base) \in Nat /\ Len(branch) \in Nat
  BY KeptStep, BranchMoves DEF Steady
<1>1. ASSUME NEW u \in Threads, At(u)' = "amend" PROVE At(u) = "amend" \/ IsAhead
  BY <1>0, <1>1 DEF AllKept, Kept, At
<1>2. CASE UNCHANGED <<branch, base>>
  <2>1. ASSUME NEW i \in DOMAIN base, base[i] = branch[i] \/ Excused(i)
        PROVE  base[i] = branch[i] \/ (i \in overrun' /\ branch[i].records \subseteq again')
    BY <1>0, <2>1 DEF Excused
  <2>2. ASSUME NEW u \in Threads, At(u)' = "amend"
        PROVE  \/ Len(base) < Len(branch)
               \/ Len(branch) \in overrun' /\ branch[Len(branch)].records \subseteq again'
    BY <1>0, <1>1, <2>2 DEF Amends, Excused, IsAhead
  <2> QED
    BY <1>2, <2>1, <2>2 DEF Amends, Excused, At
<1>3. ASSUME NEW t \in Threads, NEW n \in Commits, At(t) = "amend", branch' = Amended(n),
             UNCHANGED base
      PROVE  Amends'
  <2>1. /\ Len(branch') = Len(branch)
        /\ \A i \in 1 .. Len(branch) : /\ branch'[i].records = branch[i].records
                                       /\ i # Len(branch) => branch'[i] = branch[i]
    BY <1>0, <1>3, AmendOK
  <2>2. Len(base) < Len(branch) \/ Excused(Len(branch))
    BY <1>3 DEF Amends
  <2>3. ASSUME NEW i \in 1 .. Len(branch), Excused(i)
        PROVE  i \in overrun' /\ branch'[i].records \subseteq again'
    BY <1>0, <2>1, <2>3 DEF Excused
  <2>4. ASSUME NEW i \in 1 .. Len(base)
        PROVE  /\ base[i].records = branch'[i].records
               /\ base[i] = branch'[i] \/ (i \in overrun' /\ branch'[i].records \subseteq again')
    <3>1. i \in 1 .. Len(branch) /\ base[i].records = branch[i].records
          /\ (base[i] = branch[i] \/ Excused(i))
      BY <1>0 DEF Amends
    <3>2. CASE i # Len(branch)
      BY <2>1, <2>3, <3>1, <3>2
    <3>3. CASE i = Len(branch)
      <4>1. Excused(i)
        BY <1>0, <2>2, <3>3 DEF Amends
      <4> QED
        BY <2>1, <2>3, <3>1, <4>1
    <3> QED
      BY <3>2, <3>3
  <2>5. \/ Len(base) < Len(branch)
        \/ Len(branch) \in overrun' /\ branch'[Len(branch)].records \subseteq again'
    <3>1. branch # <<>>
      BY <1>3 DEF Steady, Taken
    <3>2. Len(branch) \in 1 .. Len(branch)
      BY <1>0, <3>1
    <3> QED
      BY <2>2, <2>3, <3>2
  <2>6. Len(base)' <= Len(branch)'
    BY <1>3, <2>1 DEF Amends
  <2>7. (\A i \in DOMAIN base : /\ base[i].records = branch[i].records
                                /\ base[i] = branch[i] \/ Excused(i))'
    BY <1>0, <1>3, <2>4 DEF Excused
  <2>8. Len(base)' < Len(branch)' \/ Excused(Len(branch))'
    BY <1>3, <2>1, <2>5 DEF Excused
  <2> QED
    BY <2>6, <2>7, <2>8 DEF Amends
<1>4. ASSUME NEW records, Grown(records), UNCHANGED base PROVE Amends'
  <2>1. Len(base) < Len(branch')
    BY <1>0, <1>4 DEF Amends, Grown
  <2>2. ASSUME NEW i \in 1 .. Len(base)
        PROVE  /\ base[i].records = branch'[i].records
               /\ base[i] = branch'[i] \/ (i \in overrun' /\ branch'[i].records \subseteq again')
    <3>1. i \in 1 .. Len(branch) /\ base[i].records = branch[i].records
          /\ (base[i] = branch[i] \/ Excused(i))
      BY <1>0 DEF Amends
    <3>2. branch'[i] = branch[i]
      BY <1>4, <3>1 DEF Grown
    <3> QED
      BY <1>0, <3>1, <3>2 DEF Excused
  <2> QED
    BY <1>0, <1>4, <2>1, <2>2 DEF Amends, Excused
<1>5. ASSUME NEW t \in Threads, Merges(t), base' = branch' PROVE Amends'
  <2>1. ASSUME NEW u \in Threads, At(u)' = "amend"
        PROVE  Len(branch') \in overrun' /\ branch'[Len(branch')].records \subseteq again'
    BY <1>0, <1>5, <2>1, Excuse
  <2> QED
    BY <1>0, <1>5, <2>1 DEF Amends, Excused, At
<1> QED
  BY <1>2, <1>3, <1>4, <1>5, BranchMoves

LEMMA AmendsInit ==
  ASSUME Init PROVE Amends
BY DEF Init, Amends, At, Rest

LEMMA AmendsAlways == Spec => []Amends
<1>1. Steady /\ Amends /\ [Next]_vars => Amends'
  BY AmendsStep
<1> QED
  BY <1>1, AmendsInit, SteadyAlways, PTL DEF Spec

\* What was merged into the base stays as it was merged, for any number of prompts and whatever
\* the agent and the user commit or edit in between: no amend, commit or turn reaches behind the
\* base's tip, but for a commit that was merged between the other thread's look at HEAD and its
\* amend.
THEOREM MergedIsKept == Spec => []MergedStands
<1>1. Amends => MergedStands
  BY DEF Amends, MergedStands, Excused
<1> QED
  BY <1>1, AmendsAlways, PTL

-----------------------------------------------------------------------------
(* Threads: whose summary a commit bears.                                  *)

\* A commit bears its place as its number, and a thread that is about to amend has the summary
\* of the last commit, unless the agent has committed, or the other thread has committed or
\* merged, since it looked.
Summ ==
    /\ SummaryOnItsCommit
    /\ \A i \in DOMAIN branch : branch[i].n = i
    /\ \A t \in Threads : At(t) = "amend" =>
          Top.by = "agent" \/ job[t].turns = {Len(branch)} \/ Len(branch) \in overrun

LEMMA SummStep ==
  ASSUME Steady, Summ, [Next]_vars PROVE Summ'
<1>0. /\ TypeOK /\ AllKept /\ branch \in Seq(Commit_) /\ branch' \in Seq(Commit_)
      /\ overrun \subseteq overrun'
      /\ \A i \in 1 .. Len(branch) : branch[i].n = i
      /\ \A i \in 1 .. Len(branch) :
            branch[i].text # 0 /\ branch[i].by # "agent" =>
               branch[i].text = branch[i].n \/ i \in overrun
  <2>1. /\ TypeOK /\ AllKept /\ branch \in Seq(Commit_) /\ branch' \in Seq(Commit_)
        /\ overrun \subseteq overrun'
    BY KeptStep, BranchMoves DEF Steady
  <2> QED
    BY <2>1 DEF Summ, SummaryOnItsCommit
<1> DEFINE Good(i) == /\ branch'[i].n = i
                      /\ branch'[i].text # 0 /\ branch'[i].by # "agent" =>
                            branch'[i].text = branch'[i].n \/ i \in overrun'
<1>1. ASSUME NEW i \in 1 .. Len(branch) PROVE branch'[i] = branch[i] => Good(i)
  BY <1>0
\* The commits.
<1>2. \A i \in 1 .. Len(branch') : Good(i)
  <2>1. CASE UNCHANGED branch
    BY <1>1, <2>1
  <2>2. ASSUME NEW t \in Threads, NEW n \in Commits, At(t) = "amend", job[t].turns = {n},
               branch' = Amended(n), NEW i \in 1 .. Len(branch')
        PROVE  Good(i)
    <3>1. i \in 1 .. Len(branch)
      BY <1>0, <2>2, AmendOK
    <3>2. CASE i # Len(branch)
      BY <1>0, <1>1, <2>2, <3>1, <3>2, AmendOK
    <3>3. CASE i = Len(branch)
      <4>1. /\ branch'[i].n = i /\ branch'[i].text = n /\ branch'[i].by = branch[i].by
        BY <1>0, <2>2, <3>1, <3>3, AmendOK
      <4>2. branch[i].by = "agent" \/ n = i \/ i \in overrun
        BY <2>2, <3>3 DEF Summ, Top
      <4> QED
        BY <1>0, <4>1, <4>2
    <3> QED
      BY <3>2, <3>3
  <2>3. ASSUME NEW records, Grown(records), NEW i \in 1 .. Len(branch') PROVE Good(i)
    <3>1. CASE i = Len(branch) + 1
      BY <2>3, <3>1 DEF Grown
    <3>2. CASE i # Len(branch) + 1
      <4>1. i \in 1 .. Len(branch)
        BY <1>0, <2>3, <3>2 DEF Grown
      <4> QED
        BY <1>1, <2>3, <4>1 DEF Grown
    <3> QED
      BY <3>1, <3>2
  <2> HIDE DEF Good
  <2> QED
    BY <2>1, <2>2, <2>3, BranchMoves
\* The thread that is about to amend.
<1>3. ASSUME NEW t \in Threads, At(t)' = "amend"
      PROVE  \/ branch'[Len(branch')].by = "agent" \/ job'[t].turns = {Len(branch')}
             \/ Len(branch') \in overrun'
  <2>1. /\ (At(t) = "amend" /\ job'[t] = job[t]) \/ At(t) = "apply"
        /\ \/ branch[Len(branch)].by = "agent" \/ job'[t].turns = {Len(branch)}
           \/ Len(branch) \in overrun
    <3>1. \/ UNCHANGED job[t]
          \/ /\ At(t) = "apply" /\ job'[t].turns = {summary} /\ IsAhead /\ Top.n = summary
      BY <1>0, <1>3 DEF AllKept, Kept, Apply, At
    <3>2. CASE UNCHANGED job[t]
      BY <1>3, <3>2 DEF Summ, Top, At
    <3>3. CASE At(t) = "apply" /\ job'[t].turns = {summary} /\ IsAhead /\ Top.n = summary
      <4>1. Len(branch) \in 1 .. Len(branch)
        BY <1>0, <3>3 DEF IsAhead, TypeOK
      <4>2. Top.n = Len(branch)
        BY <1>0, <4>1 DEF Top
      <4> QED
        BY <3>3, <4>2
    <3> QED
      BY <3>1, <3>2, <3>3
  <2>2. CASE UNCHANGED branch
    BY <1>0, <2>1, <2>2
  <2>3. CASE AgentCommit /\ Grown({}) /\ branch'[Len(branch) + 1].by = "agent"
    BY <2>3 DEF Grown
  <2>4. CASE OfferTaken
    BY <1>0, <1>3, <2>4, Excuse DEF Threads
  <2>5. ASSUME NEW u \in Threads, Commit(u) \/ Merges(u) PROVE Len(branch') \in overrun'
    BY <1>0, <1>3, <2>5, Excuse
  <2>6. ASSUME NEW u \in Threads, NEW n \in Commits, At(u)' # "amend", branch' = Amended(n)
        PROVE  \/ branch'[Len(branch')].by = "agent" \/ job'[t].turns = {Len(branch')}
               \/ Len(branch') \in overrun'
    <3>1. CASE branch = <<>>
      <4>1. At(t) # "amend" /\ ~IsAhead
        BY <1>0, <3>1 DEF Steady, Taken, IsAhead, TypeOK
      <4> QED
        BY <1>0, <1>3, <4>1 DEF AllKept, Kept, At
    <3>2. CASE branch # <<>>
      <4>1. Len(branch) \in 1 .. Len(branch)
        BY <1>0, <3>2
      <4>2. Len(branch') = Len(branch) /\ branch'[Len(branch)].by = branch[Len(branch)].by
        BY <1>0, <2>6, <4>1, AmendOK
      <4> QED
        BY <1>0, <2>1, <4>2
    <3> QED
      BY <3>1, <3>2
  <2> QED
    BY <2>2, <2>3, <2>4, <2>5, <2>6, BranchMoves
<1>4. SummaryOnItsCommit' /\ (\A i \in DOMAIN branch : branch[i].n = i)'
  BY <1>0, <1>2 DEF SummaryOnItsCommit
<1> QED
  BY <1>3, <1>4 DEF Summ, Top, At

LEMMA SummInit ==
  ASSUME Init PROVE Summ
BY DEF Init, Summ, SummaryOnItsCommit, At, Rest

\* A summary ends up in the commit it was written for (or in the agent's own), for any number of
\* prompts, unless the other thread committed or merged between the look at HEAD and the amend.
THEOREM SummaryIsItsCommits == Spec => []SummaryOnItsCommit
<1>1. Steady /\ Summ /\ [Next]_vars => Summ'
  BY SummStep
<1>2. Summ => SummaryOnItsCommit
  BY DEF Summ
<1> QED
  BY <1>1, <1>2, SummInit, SteadyAlways, PTL DEF Spec

-----------------------------------------------------------------------------
(* Threads: no turn is recorded twice.                                     *)

\* The recorded turns that were neither read nor taken again, and the state of a parse whose
\* answer nobody has taken.
Sure == {k \in Turns : k \notin again /\ \E i \in DOMAIN branch : k \in branch[i].records}
Answered == parse.st \in {"read", "done"}

\* What thread t has taken was all taken again, and reaches as far as what u has.
Covers(t, u) == /\ job[t].turns \subseteq again
                /\ \A k \in job[u].turns : \E j \in job[t].turns : k <= j

\* The turns a thread has taken are new, and the newest; an answer that came while it has them
\* has nothing to tell of them that is not marked.
Settled(t) ==
    /\ \A k \in job[t].turns : k <= turn
    /\ \A k \in Sure : k \notin job[t].turns /\ \E j \in job[t].turns : k <= j
    /\ Answered => /\ NewTurns \subseteq again
                   /\ \A k \in job[t].turns : k <= parse.upto /\ (k > parse.mark => k \in again)

Fresh ==
    /\ \A k \in Sure : k <= mark
    /\ Answered => parse.upto <= turn /\ \A k \in Sure : k <= parse.mark
    /\ \A t \in Threads : Committing(t) => Settled(t)
    /\ \A t, u \in Threads :
          t # u /\ Committing(t) /\ Committing(u) => Covers(t, u) \/ Covers(u, t)

\* The turns a step records: none, or what a thread has taken.
LEMMA SureMoves ==
  ASSUME Steady, Amends, [Next]_vars
  PROVE  /\ Sure' \subseteq Sure \/ \E t \in Threads : Commit(t)
         /\ UNCHANGED branch => Sure' \subseteq Sure
         /\ \A t \in Threads : Commit(t) => Sure' \subseteq Sure \cup (job[t].turns \ again)
<1>0. /\ branch \in Seq(Commit_) /\ branch' \in Seq(Commit_) /\ again \subseteq again'
      /\ base \in Seq(Commit_) /\ Len(base) <= Len(branch)
  BY BranchMoves DEF Amends
<1>1. UNCHANGED branch => Sure' \subseteq Sure
  BY <1>0 DEF Sure
<1>2. ASSUME NEW n \in Commits, branch' = Amended(n) PROVE Sure' \subseteq Sure
  <2>1. /\ Len(branch') = Len(branch)
        /\ \A i \in 1 .. Len(branch) : branch'[i].records = branch[i].records
    BY <1>0, <1>2, AmendOK
  <2> QED
    BY <1>0, <2>1 DEF Sure
<1>3. ASSUME NEW records, Grown(records) PROVE Sure' \subseteq Sure \cup (records \ again')
  <2>1. ASSUME NEW k \in Sure' PROVE k \in Sure \cup (records \ again')
    <3>1. PICK i \in 1 .. Len(branch) + 1 : k \in branch'[i].records
      BY <1>0, <1>3 DEF Sure, Grown
    <3>2. k \in Turns /\ k \notin again' /\ k \notin again
      BY <1>0 DEF Sure
    <3>3. CASE i = Len(branch) + 1
      BY <1>3, <3>1, <3>2, <3>3 DEF Grown
    <3>4. CASE i # Len(branch) + 1
      <4>1. i \in 1 .. Len(branch)
        BY <1>0, <3>4
      <4> QED
        BY <1>0, <1>3, <3>1, <3>2, <4>1 DEF Grown, Sure
    <3> QED
      BY <3>3, <3>4
  <2> QED
    BY <2>1
<1>4. UNION {base[i].records : i \in Rewritten} \subseteq again
  <2>1. ASSUME NEW i \in Rewritten PROVE base[i].records \subseteq again
    BY <2>1 DEF Rewritten, Amends, Excused
  <2> QED
    BY <2>1
<1>5. ASSUME NEW t \in Threads, Commit(t)
      PROVE  Sure' \subseteq Sure \cup (job[t].turns \ again)
  <2>1. branch' = Made("agitrack", index, job[t].turns)
    BY <1>5 DEF Commit, Recorded
  <2>2. /\ index \in SUBSET (0 .. MaxTurns) /\ job[t].turns \in SUBSET Turns
        /\ "agitrack" \in {"agitrack", "agent", "user"}
    BY <1>5 DEF Commit, Taken, Committing, Steady, TypeOK
  <2>3. Grown(job[t].turns)
    BY <1>0, <2>1, <2>2, MadeOK DEF Grown
  <2> QED
    BY <1>0, <1>3, <2>3
<1>6. Grown({}) => Sure' \subseteq Sure
  BY <1>3
<1>7. Grown(UNION {base[i].records : i \in Rewritten}) => Sure' \subseteq Sure
  <2>1. SUFFICES ASSUME Grown(UNION {base[i].records : i \in Rewritten})
                 PROVE  Sure' \subseteq Sure
    OBVIOUS
  <2>2. Sure' \subseteq Sure \cup ((UNION {base[i].records : i \in Rewritten}) \ again')
    BY <1>3, <2>1
  <2> QED
    BY <1>0, <1>4, <2>2
<1> QED
  BY <1>1, <1>2, <1>5, <1>6, <1>7, BranchMoves

\* Who starts, ends or answers a parse, and who moves the watermark.
LEMMA Readers ==
  ASSUME [Next]_vars
  PROVE  \/ UNCHANGED <<parse, mark>>
         \/ ParseReads
         \/ /\ ParseEnds \/ SubmitHeld \/ PassNext \/ CoverNext
            /\ UNCHANGED mark
         \/ \E t \in Threads : Reads(t) \/ Commit(t)
<1>1. CASE UNCHANGED vars
  BY <1>1 DEF vars, parseVars
<1>2. CASE \/ AgentSpeaks \/ AgentEdits \/ AgentCommit \/ TurnEnds \/ FallsQuiet \/ UserEdit
           \/ Cools \/ SummaryEnds
  BY <1>2 DEF AgentSpeaks, AgentEdits, AgentCommit, TurnEnds, FallsQuiet, UserEdit, Cools,
              SummaryEnds, parseVars
<1>3. CASE \/ SubmitFollowUp \/ SubmitClear \/ Resume \/ ResumeNext \/ OfferSkipped
           \/ OfferDeclined \/ OfferTaken \/ Begin \/ Branch \/ Forward \/ Hand \/ Tick
           \/ Submit \/ Pass \/ CoverDeadline
  BY <1>3 DEF SubmitFollowUp, SubmitClear, Resume, ResumeNext, OfferSkipped, OfferDeclined,
              OfferTaken, Begin, Branch, Forward, Hand, Tick, Submit, Pass, CoverDeadline, parseVars
<1>4. ASSUME NEW t \in Threads, Steps(t)
      PROVE  UNCHANGED <<parse, mark>> \/ Reads(t) \/ Commit(t)
  BY <1>4 DEF Steps, Reads, TakeNothing, Stage, CommitFails, Blocks, AppliesFirst, Unblocked, Land,
              Apply, Amend, parseVars
<1>5. ParseEnds \/ SubmitHeld \/ PassNext \/ CoverNext => UNCHANGED mark
  BY DEF ParseEnds, SubmitHeld, PassNext, CoverNext
<1> QED
  BY <1>1, <1>2, <1>3, <1>4, <1>5 DEF Next, Worker, Reactor, Threads

\* Turns only begin.
LEMMA TurnGrows ==
  ASSUME TypeOK, [Next]_vars PROVE turn <= turn'
<1>0. turn \in Nat
  BY DEF TypeOK
<1>1. CASE UNCHANGED turn
  BY <1>0, <1>1
<1>2. CASE \/ AgentSpeaks \/ AgentEdits \/ AgentCommit \/ FallsQuiet \/ UserEdit \/ ParseReads
           \/ ParseEnds \/ Cools \/ SummaryEnds
  BY <1>1, <1>2 DEF AgentSpeaks, AgentEdits, AgentCommit, FallsQuiet, UserEdit, ParseReads, ParseEnds,
                    Cools, SummaryEnds, agentVars
<1>3. CASE \/ SubmitFollowUp \/ SubmitHeld \/ SubmitClear \/ Resume \/ ResumeNext
           \/ OfferSkipped \/ OfferDeclined \/ OfferTaken \/ Begin \/ Forward \/ Tick
  BY <1>1, <1>3 DEF SubmitFollowUp, SubmitHeld, SubmitClear, Resume, ResumeNext, OfferSkipped,
                    OfferDeclined, OfferTaken, Begin, Forward, Tick, agentVars
<1>4. CASE Pass \/ PassNext \/ CoverNext \/ CoverDeadline \/ Submit
  BY <1>1, <1>4 DEF Pass, PassNext, CoverNext, CoverDeadline, Submit, agentVars
<1>5. CASE TurnEnds \/ Branch \/ Hand
  <2>1. UNCHANGED turn \/ turn' = turn + 1
    BY <1>5 DEF TurnEnds, Branch, Hand, Handed
  <2> QED
    BY <1>0, <2>1
<1>6. ASSUME NEW t \in Threads, Steps(t) PROVE turn <= turn'
  BY <1>1, <1>6, StepMoves DEF agentVars
<1>7. CASE UNCHANGED vars
  BY <1>1, <1>7 DEF vars, agentVars
<1> QED
  BY <1>2, <1>3, <1>4, <1>5, <1>6, <1>7 DEF Next, Worker, Reactor, Threads

\* The types of what is compared.
LEMMA Numbers ==
  ASSUME Steady, Amends, [Next]_vars
  PROVE  /\ turn \in Nat /\ turn' \in Nat /\ turn <= turn' /\ mark \in Nat
         /\ parse.mark \in Nat /\ parse.upto \in Nat /\ parse'.mark \in Nat /\ parse'.upto \in Nat
         /\ again \subseteq again' /\ Sure \subseteq Nat /\ NewTurns \subseteq Nat
         /\ \A t \in Threads : Committing(t) => job[t].turns \subseteq Nat
<1>1. TypeOK' /\ TypeOK /\ Taken
  BY SteadyStep DEF Steady
<1>2. again \subseteq again' /\ turn <= turn'
  BY <1>1, BranchMoves, TurnGrows
<1> QED
  BY <1>1, <1>2 DEF TypeOK, Taken, Sure, Turns, NewTurns

\* A step that neither takes an answer nor commits.
LEMMA FreshElse ==
  ASSUME Steady, Amends, Fresh, [Next]_vars, \A t \in Threads : ~Reads(t) /\ ~Commit(t)
  PROVE  Fresh'
<1>0. /\ turn \in Nat /\ turn' \in Nat /\ turn <= turn' /\ mark \in Nat
      /\ again \subseteq again' /\ Sure \subseteq Nat
      /\ \A t \in Threads : Committing(t) => job[t].turns \subseteq Nat
  BY Numbers
<1>1. Sure' \subseteq Sure
  BY SureMoves
<1>2. ASSUME NEW t \in Threads, Committing(t)'
      PROVE  Committing(t) /\ job'[t].turns = job[t].turns
  <2>1. Kept(t)
    BY KeptStep DEF Steady, AllKept
  <2> QED
    BY <1>2, <2>1 DEF Kept, Committing, At, Reads, Apply
<1>3. mark' = mark
  BY Readers DEF ParseReads
<1>4. \/ ~Answered'
      \/ Answered /\ parse'.mark = parse.mark /\ parse'.upto = parse.upto
      \/ ParseReads
  <2>1. CASE UNCHANGED parse
    BY <2>1 DEF Answered
  <2>2. CASE ParseEnds
    BY <2>2 DEF ParseEnds, Answered, Steady, TypeOK
  <2>3. CASE SubmitHeld \/ PassNext \/ CoverNext
    <3>1. StartParse \/ UNCHANGED parse
      BY <2>3 DEF SubmitHeld, PassNext, CoverNext
    <3>2. StartParse => UNCHANGED parse \/ parse'.st = "run"
      BY DEF StartParse, NoParse
    <3> QED
      BY <2>1, <3>1, <3>2 DEF Answered
  <2> QED
    BY <2>1, <2>2, <2>3, Readers
<1>5. ParseReads => /\ parse'.mark = mark /\ parse'.upto = turn /\ turn' = turn
                    /\ (\E t \in Threads : Committing(t)) => mark + 1 .. turn \subseteq again'
  BY DEF ParseReads, agentVars
<1>6. \A k \in Sure' : k <= mark'
  BY <1>1, <1>3 DEF Fresh
<1>7. Answered' => parse'.upto <= turn' /\ \A k \in Sure' : k <= parse'.mark
  BY <1>0, <1>1, <1>3, <1>4, <1>5, <1>6 DEF Fresh, Steady, TypeOK
<1>8. ASSUME NEW t \in Threads, Committing(t)' PROVE Settled(t)'
  <2>1. Committing(t) /\ job'[t].turns = job[t].turns /\ job[t].turns \subseteq Nat /\ Settled(t)
    BY <1>0, <1>2, <1>8 DEF Fresh
  <2>2. \A k \in job'[t].turns : k <= turn /\ k <= turn'
    BY <1>0, <2>1 DEF Settled
  <2>3. \A k \in Sure' : k \notin job'[t].turns /\ \E j \in job'[t].turns : k <= j
    BY <1>1, <2>1 DEF Settled
  <2>4. CASE ~Answered'
    BY <2>2, <2>3, <2>4 DEF Settled
  <2>5. CASE Answered /\ parse'.mark = parse.mark /\ parse'.upto = parse.upto
    <3>1. NewTurns' = NewTurns
      BY <2>5 DEF NewTurns
    <3> QED
      BY <1>0, <2>1, <2>2, <2>3, <2>5, <3>1 DEF Settled
  <2>6. CASE ParseReads
    <3>1. mark + 1 .. turn \subseteq again' /\ parse'.mark = mark /\ parse'.upto = turn
      BY <1>5, <2>1, <2>6
    <3>2. NewTurns' \subseteq again'
      BY <1>0, <3>1 DEF NewTurns
    <3>3. \A k \in job'[t].turns : k <= parse'.upto /\ (k > parse'.mark => k \in again')
      BY <1>0, <2>1, <2>2, <3>1
    <3> QED
      BY <2>2, <2>3, <3>2, <3>3 DEF Settled
  <2> QED
    BY <1>4, <2>4, <2>5, <2>6
<1>9. ASSUME NEW t \in Threads, NEW u \in Threads, t # u, Committing(t)', Committing(u)'
      PROVE  Covers(t, u)' \/ Covers(u, t)'
  <2>1. /\ Committing(t) /\ job'[t].turns = job[t].turns
        /\ Committing(u) /\ job'[u].turns = job[u].turns
    BY <1>2, <1>9
  <2>2. Covers(t, u) \/ Covers(u, t)
    BY <1>9, <2>1 DEF Fresh
  <2> QED
    BY <1>0, <2>1, <2>2 DEF Covers
<1> QED
  BY <1>6, <1>7, <1>8, <1>9 DEF Fresh

\* A step that takes an answer.
LEMMA FreshReads ==
  ASSUME Steady, Amends, Fresh, [Next]_vars, NEW t \in Threads, Reads(t) PROVE Fresh'
<1>0. /\ turn \in Nat /\ turn' \in Nat /\ turn <= turn' /\ mark \in Nat
      /\ again \subseteq again' /\ Sure \subseteq Nat /\ NewTurns \subseteq Nat
      /\ parse.mark \in Nat /\ parse.upto \in Nat /\ job \in [Threads -> Job]
      /\ \A u \in Threads : Committing(u) => job[u].turns \subseteq Nat
  BY Numbers DEF Steady, TypeOK
<1>1. /\ UNCHANGED branch /\ mark' = mark /\ turn' = turn /\ Answered
      /\ (parse' = NoParse) \/ (parse' = parse /\ NewTurns \subseteq again')
  BY DEF Reads, TakeDeferred, TakeEmpty, Take, Cleared, agentVars, gitVars, Answered
<1>2. Sure' \subseteq Sure
  BY <1>1, SureMoves
<1>3. ~Answered' \/ (parse' = parse /\ NewTurns \subseteq again')
  BY <1>1 DEF NoParse, Answered
<1>4. ASSUME NEW u \in Threads, Committing(u)'
      PROVE  \/ Committing(u) /\ job'[u].turns = job[u].turns
             \/ /\ Take(u) /\ ~Committing(u) /\ job'[u].turns = NewTurns
                /\ \A v \in Threads : v # u => job'[v] = job[v]
  <2>1. Kept(u)
    BY KeptStep DEF Steady, AllKept
  <2>2. ASSUME Take(u)
        PROVE  ~Committing(u) /\ \A v \in Threads : v # u => job'[v] = job[v]
    BY <1>0, <2>2 DEF Take, Committing
  <2> QED
    BY <1>4, <2>1, <2>2 DEF Kept, Committing, At, Apply
<1>5. \A k \in Sure' : k <= mark'
  BY <1>1, <1>2 DEF Fresh
<1>6. Answered' => parse'.upto <= turn' /\ \A k \in Sure' : k <= parse'.mark
  BY <1>1, <1>2, <1>3 DEF Fresh
<1>7. ASSUME NEW u \in Threads, Take(u)
      PROVE  parse.upto \in NewTurns /\ \A k \in NewTurns : k > parse.mark /\ k <= parse.upto
  <2>1. NewTurns # {}
    BY <1>7 DEF Take
  <2>2. \A k \in NewTurns : k > parse.mark /\ k <= parse.upto /\ 1 <= k
    BY <1>0 DEF NewTurns
  <2>3. parse.upto > parse.mark /\ 1 <= parse.upto
    <3>1. PICK k \in NewTurns : TRUE
      BY <2>1
    <3>2. k \in Nat /\ k > parse.mark /\ k <= parse.upto /\ 1 <= k
      BY <1>0, <2>2
    <3> QED
      BY <1>0, <3>2
  <2>4. parse.upto \in NewTurns
    BY <1>0, <2>3 DEF NewTurns
  <2> QED
    BY <2>2, <2>4
<1>8. ASSUME NEW u \in Threads, Committing(u)' PROVE Settled(u)'
  <2>1. CASE Committing(u) /\ job'[u].turns = job[u].turns
    <3>1. Settled(u)
      BY <2>1 DEF Fresh
    <3>2. parse' = parse => NewTurns' = NewTurns
      BY DEF NewTurns
    <3> QED
      BY <1>0, <1>1, <1>2, <1>3, <2>1, <3>1, <3>2 DEF Settled
  <2>2. CASE Take(u) /\ job'[u].turns = NewTurns
    <3>1. parse.upto \in NewTurns /\ \A k \in NewTurns : k > parse.mark /\ k <= parse.upto
      BY <1>7, <2>2
    <3>2. parse.upto <= turn /\ \A k \in Sure : k <= parse.mark
      BY <1>1 DEF Fresh
    <3>3. \A k \in NewTurns : k <= turn'
      BY <1>0, <1>1, <3>1, <3>2
    <3>4. ASSUME NEW k \in Sure'
          PROVE  k \notin NewTurns /\ \E j \in NewTurns : k <= j
      <4>1. k \in Nat /\ k <= parse.mark
        BY <1>0, <1>2, <3>2
      <4>2. k \notin NewTurns /\ k <= parse.upto
        BY <1>0, <3>1, <4>1
      <4> QED
        BY <3>1, <4>2
    <3>5. Answered' => /\ NewTurns' \subseteq again'
                       /\ \A k \in NewTurns : k <= parse'.upto /\ (k > parse'.mark => k \in again')
      <4>1. parse' = parse => NewTurns' = NewTurns
        BY DEF NewTurns
      <4> QED
        BY <1>3, <3>1, <4>1
    <3> QED
      BY <2>2, <3>3, <3>4, <3>5 DEF Settled
  <2> QED
    BY <1>4, <1>8, <2>1, <2>2
\* Who takes an answer while the other has turns takes what is marked, and more of it.
<1>9. ASSUME NEW u \in Threads, NEW v \in Threads, Take(u), Committing(v),
             job'[u].turns = NewTurns, job'[v].turns = job[v].turns
      PROVE  Covers(u, v)'
  <2>1. Settled(v)
    BY <1>9 DEF Fresh
  <2>2. NewTurns \subseteq again' /\ \A k \in job[v].turns : k <= parse.upto
    BY <1>0, <1>1, <2>1 DEF Settled
  <2>3. parse.upto \in NewTurns
    BY <1>7, <1>9
  <2> QED
    BY <1>9, <2>2, <2>3 DEF Covers
<1>10. ASSUME NEW u \in Threads, NEW v \in Threads, u # v, Committing(u)', Committing(v)'
       PROVE  Covers(u, v)' \/ Covers(v, u)'
  <2>1. CASE /\ Committing(u) /\ job'[u].turns = job[u].turns
             /\ Committing(v) /\ job'[v].turns = job[v].turns
    <3>1. Covers(u, v) \/ Covers(v, u)
      BY <1>10, <2>1 DEF Fresh
    <3> QED
      BY <1>0, <2>1, <3>1 DEF Covers
  <2>2. ASSUME NEW x \in Threads, NEW y \in Threads, x # y, Committing(x)', Committing(y)',
               Take(x), job'[x].turns = NewTurns, \A z \in Threads : z # x => job'[z] = job[z]
        PROVE  Covers(x, y)'
    <3>1. job'[y] = job[y] /\ Committing(y)
      BY <2>2 DEF Committing
    <3> QED
      BY <1>9, <2>2, <3>1
  <2> QED
    BY <1>4, <1>10, <2>1, <2>2
<1> QED
  BY <1>5, <1>6, <1>8, <1>10 DEF Fresh

\* A step that commits.
LEMMA FreshCommit ==
  ASSUME Steady, Amends, Fresh, [Next]_vars, NEW t \in Threads, Commit(t) PROVE Fresh'
<1>0. /\ turn \in Nat /\ mark \in Nat /\ Sure \subseteq Nat
      /\ parse.mark \in Nat /\ parse.upto \in Nat
      /\ TypeOK /\ Committing(t) /\ job[t].turns \subseteq Nat
  BY Numbers DEF Steady, Commit, Committing
<1>1. /\ turn' = turn /\ parse' = parse /\ again' = again
  BY DEF Commit, agentVars
<1>2. Sure' \subseteq Sure \cup (job[t].turns \ again)
  BY SureMoves
<1>3. ~Committing(t)' /\ \A u \in Threads : u # t => job'[u] = job[u]
  BY <1>0, Writer DEF Committing, At
<1>4. mark' \in job[t].turns /\ \A k \in job[t].turns : k <= mark'
  <2>1. PICK u \in Turns : Newest(job[t].turns, u)
    BY <1>0 DEF Steady, Taken
  <2>2. mark' = CHOOSE k \in job[t].turns : \A j \in job[t].turns : j <= k
    BY DEF Commit, Recorded
  <2> QED
    BY <2>1, <2>2 DEF Newest
<1>5. Settled(t)
  BY <1>0 DEF Fresh
<1>6. \A k \in Sure' : k <= mark'
  <2>1. ASSUME NEW k \in Sure PROVE k <= mark'
    <3>1. PICK j \in job[t].turns : k <= j
      BY <1>5 DEF Settled
    <3>2. j <= mark' /\ j \in Nat /\ mark' \in Nat /\ k \in Nat
      BY <1>0, <1>4
    <3> QED
      BY <3>1, <3>2
  <2> QED
    BY <1>2, <1>4, <2>1
<1>7. Answered' => parse'.upto <= turn' /\ \A k \in Sure' : k <= parse'.mark
  <2>1. SUFFICES ASSUME Answered PROVE parse.upto <= turn /\ \A k \in Sure' : k <= parse.mark
    BY <1>1 DEF Answered
  <2>2. parse.upto <= turn /\ \A k \in Sure : k <= parse.mark
    BY <2>1 DEF Fresh
  <2>3. \A k \in job[t].turns \ again : k <= parse.mark
    BY <1>0, <1>5, <2>1 DEF Settled
  <2> QED
    BY <1>2, <2>2, <2>3
<1>8. ASSUME NEW u \in Threads, Committing(u)' PROVE Settled(u)'
  <2>1. u # t /\ job'[u] = job[u] /\ Committing(u)
    BY <1>3, <1>8 DEF Committing
  <2>2. Settled(u) /\ (Covers(t, u) \/ Covers(u, t))
    BY <1>0, <2>1 DEF Fresh
  <2>3. ASSUME NEW k \in Sure' PROVE k \notin job[u].turns /\ \E j \in job[u].turns : k <= j
    <3>1. CASE k \in Sure
      BY <2>2, <3>1 DEF Settled
    <3>2. CASE k \in job[t].turns \ again
      <4>1. Covers(u, t)
        BY <2>2, <3>2 DEF Covers
      <4> QED
        BY <3>2, <4>1 DEF Covers
    <3> QED
      BY <1>2, <3>1, <3>2
  <2>4. NewTurns' = NewTurns /\ Answered' = Answered
    BY <1>1 DEF NewTurns, Answered
  <2> QED
    BY <1>1, <2>1, <2>2, <2>3, <2>4 DEF Settled
<1>9. ASSUME NEW u \in Threads, NEW v \in Threads, u # v, Committing(u)', Committing(v)'
      PROVE  FALSE
  BY <1>3, <1>9 DEF Threads
<1> QED
  BY <1>6, <1>7, <1>8, <1>9 DEF Fresh

LEMMA OnceStep ==
  ASSUME Steady, Amends, Fresh, RecordedOnce, [Next]_vars PROVE RecordedOnce'
<1>0. /\ branch \in Seq(Commit_) /\ branch' \in Seq(Commit_) /\ again \subseteq again'
      /\ \A i, j \in 1 .. Len(branch) :
            i # j => branch[i].records \cap branch[j].records \subseteq again
  <2>1. branch \in Seq(Commit_) /\ branch' \in Seq(Commit_) /\ again \subseteq again'
    BY BranchMoves
  <2> QED
    BY <2>1 DEF RecordedOnce
<1>1. CASE UNCHANGED branch
  BY <1>0, <1>1 DEF RecordedOnce
<1>2. ASSUME NEW n \in Commits, branch' = Amended(n) PROVE RecordedOnce'
  <2>1. /\ Len(branch') = Len(branch)
        /\ \A i \in 1 .. Len(branch) : branch'[i].records = branch[i].records
    BY <1>0, <1>2, AmendOK
  <2> QED
    BY <1>0, <2>1 DEF RecordedOnce
<1>3. ASSUME NEW records, Grown(records),
             \A i \in 1 .. Len(branch) : branch[i].records \cap records \subseteq again
      PROVE  RecordedOnce'
  <2>1. ASSUME NEW i \in 1 .. Len(branch) + 1, NEW j \in 1 .. Len(branch) + 1, i # j
        PROVE  branch'[i].records \cap branch'[j].records \subseteq again
    <3>1. CASE i = Len(branch) + 1
      <4>1. j \in 1 .. Len(branch)
        BY <1>0, <2>1, <3>1
      <4> QED
        BY <1>3, <3>1, <4>1 DEF Grown
    <3>2. CASE j = Len(branch) + 1
      <4>1. i \in 1 .. Len(branch)
        BY <1>0, <2>1, <3>2
      <4> QED
        BY <1>3, <3>2, <4>1 DEF Grown
    <3>3. CASE i # Len(branch) + 1 /\ j # Len(branch) + 1
      <4>1. i \in 1 .. Len(branch) /\ j \in 1 .. Len(branch)
        BY <1>0, <2>1, <3>3
      <4> QED
        BY <1>0, <1>3, <2>1, <4>1 DEF Grown
    <3> QED
      BY <3>1, <3>2, <3>3
  <2> QED
    BY <1>0, <1>3, <2>1 DEF RecordedOnce, Grown
<1>4. ASSUME NEW t \in Threads, Commit(t), NEW i \in 1 .. Len(branch)
      PROVE  branch[i].records \cap job[t].turns \subseteq again
  <2>1. ASSUME NEW k \in branch[i].records, k \in job[t].turns, k \notin again PROVE FALSE
    <3>1. Committing(t)
      BY <1>4 DEF Commit, Committing
    <3>2. k \in Turns
      BY <2>1, <3>1 DEF Steady, Taken
    <3>3. k \in Sure
      BY <1>0, <1>4, <2>1, <3>2 DEF Sure
    <3> QED
      BY <2>1, <3>1, <3>3 DEF Fresh, Settled
  <2> QED
    BY <2>1
<1>5. UNION {base[i].records : i \in Rewritten} \subseteq again
  <2>1. ASSUME NEW i \in Rewritten PROVE base[i].records \subseteq again
    BY <2>1 DEF Rewritten, Amends, Excused
  <2> QED
    BY <2>1
<1>6. Grown({}) => RecordedOnce'
  BY <1>3
<1>7. Grown(UNION {base[i].records : i \in Rewritten}) => RecordedOnce'
  BY <1>3, <1>5
<1> QED
  BY <1>1, <1>2, <1>3, <1>4, <1>6, <1>7, BranchMoves

LEMMA FreshInit ==
  ASSUME Init PROVE Fresh /\ RecordedOnce
<1>1. \A t \in Threads : ~Committing(t)
  BY DEF Init, Committing, Rest
<1>2. DOMAIN branch = {} /\ ~Answered
  BY DEF Init, NoParse, Answered
<1> QED
  BY <1>1, <1>2 DEF Fresh, RecordedOnce, Sure

\* A turn is recorded by one commit only, for any number of prompts and whatever the agent and
\* the user commit or edit in between: the turns a thread takes come after all that is recorded,
\* but for those that were read or taken again before the commit, and those of a commit that was
\* merged under an amend.
THEOREM RecordedOnceOnly == Spec => []RecordedOnce
<1>1. Steady /\ Amends /\ Fresh /\ RecordedOnce /\ [Next]_vars => Fresh' /\ RecordedOnce'
  BY FreshElse, FreshReads, FreshCommit, OnceStep
<1> QED
  BY <1>1, FreshInit, SteadyAlways, AmendsAlways, PTL DEF Spec
=============================================================================
