------------------------------ MODULE RepoLock ------------------------------
(***************************************************************************)
(* The advisory single-writer lock of a working tree (git/lock.py), at the *)
(* grain of its system calls.  The lock is an OS lock on an open FILE, so  *)
(* the model keeps the file at the path apart from the files processes     *)
(* hold open: `git clean -fdx` removes `.agitrack/` under a live holder,   *)
(* and the next process then creates another file at the same path.        *)
(* A file (inode) is reusable once nothing refers to it.                   *)
(***************************************************************************)
EXTENDS Naturals, FiniteSets

CONSTANTS
    Procs,      \* aGiTrack processes on one repository
    Trackers,   \* those that are background trackers: they poll their lock
    Files,      \* inodes
    None

ASSUME NoneAssumption == None \notin Procs /\ None \notin Files

ASSUME TrackersAssumption == Trackers \subseteq Procs

VARIABLES
    path,    \* the file at `.agitrack/lock`, or None
    locked,  \* [Files -> Procs \cup {None}]: who the kernel grants the lock
    opened,  \* [Procs -> Files \cup {None}]: the descriptor a process has open
    record,  \* [Files -> Procs \cup {None}]: the pid written in the file
    pc       \* what the process is doing with the lock

lockVars == <<path, locked, opened, record, pc>>

States == {"idle", "opened", "recording", "held", "releasing"}

LockInit ==
    /\ path = None
    /\ locked = [f \in Files |-> None]
    /\ opened = [p \in Procs |-> None]
    /\ record = [f \in Files |-> None]
    /\ pc = [p \in Procs |-> "idle"]

\* RepoLock._fd is set: this process believes it is the writer.
IsHeldBySelf(p) == pc[p] = "held"

\* still_guards_path: the held file is the one a newcomer would open.
StillGuardsPath(p) == opened[p] # None /\ path = opened[p]

\* Files no descriptor refers to and that are not at the path.
Unused == {f \in Files : f # path /\ \A p \in Procs : opened[p] # f}

\* ensure_state_dir + os.open(path, O_CREAT).
OpenLockFile(p) ==
    /\ pc[p] = "idle"
    /\ \/ path # None /\ opened' = [opened EXCEPT ![p] = path] /\ UNCHANGED <<path, record>>
       \/ path = None /\ \E f \in Unused :
            /\ path' = f
            /\ opened' = [opened EXCEPT ![p] = f]
            /\ record' = [record EXCEPT ![f] = None]
    /\ pc' = [pc EXCEPT ![p] = "opened"]
    /\ UNCHANGED locked

\* Fault: the lock is asked for without looking at the answer.
FaultLockUnchecked(p) ==
    /\ pc[p] = "opened"
    /\ locked' = [locked EXCEPT ![opened[p]] = p]
    /\ pc' = [pc EXCEPT ![p] = "recording"]
    /\ UNCHANGED <<path, opened, record>>

\* flock(LOCK_EX | LOCK_NB): taken, or the descriptor is closed and the
\* attempt refused (the caller retries from OpenLockFile or gives up).
TryLock(p) ==
    /\ pc[p] = "opened"
    /\ \/ /\ locked[opened[p]] = None
          /\ locked' = [locked EXCEPT ![opened[p]] = p]
          /\ pc' = [pc EXCEPT ![p] = "recording"]
          /\ UNCHANGED opened
       \/ /\ locked[opened[p]] # None
          /\ opened' = [opened EXCEPT ![p] = None]
          /\ pc' = [pc EXCEPT ![p] = "idle"]
          /\ UNCHANGED locked
    /\ UNCHANGED <<path, record>>

\* Fault: a record found in the file is kept.
FaultKeepOldRecord(p) ==
    /\ pc[p] = "recording"
    /\ record' = [record EXCEPT ![opened[p]] = IF @ = None THEN p ELSE @]
    /\ pc' = [pc EXCEPT ![p] = "held"]
    /\ UNCHANGED <<path, locked, opened>>

\* ftruncate, write the owner record, remember the descriptor.
WriteRecord(p) ==
    /\ pc[p] = "recording"
    /\ record' = [record EXCEPT ![opened[p]] = p]
    /\ pc' = [pc EXCEPT ![p] = "held"]
    /\ UNCHANGED <<path, locked, opened>>

\* Fault: the record is emptied by path instead of through the descriptor.
FaultClearByPath(p) ==
    /\ record' = IF path = None THEN record ELSE [record EXCEPT ![path] = None]
    /\ pc' = [pc EXCEPT ![p] = "releasing"]
    /\ UNCHANGED <<path, locked, opened>>

\* release(): the record is emptied while the lock is still held ...
ClearRecord(p) ==
    /\ record' = [record EXCEPT ![opened[p]] = None]
    /\ pc' = [pc EXCEPT ![p] = "releasing"]
    /\ UNCHANGED <<path, locked, opened>>

Release(p) == pc[p] = "held" /\ ClearRecord(p)

\* Fault: a descriptor that is still open is taken for a lock that still guards.
FaultTrustOpen(p) ==
    /\ p \in Trackers
    /\ pc[p] = "held"
    /\ opened[p] = None
    /\ ClearRecord(p)

\* _repo_still_ours: a tracker's poll finds the lock on a file nobody can reach any
\* more and releases it; the process then competes at the path again.
StandDown(p) ==
    /\ p \in Trackers
    /\ pc[p] = "held"
    /\ ~StillGuardsPath(p)
    /\ ClearRecord(p)

\* ... and only then unlocked and closed.
Unlock(p) ==
    /\ pc[p] = "releasing"
    /\ locked' = [locked EXCEPT ![opened[p]] = None]
    /\ opened' = [opened EXCEPT ![p] = None]
    /\ pc' = [pc EXCEPT ![p] = "idle"]
    /\ UNCHANGED <<path, record>>

\* clear_owner_record: the process that stopped a tracker truncates the file
\* at the path without holding the lock.
ClearOwnerRecord ==
    /\ path # None
    /\ record' = [record EXCEPT ![path] = None]
    /\ UNCHANGED <<path, locked, opened, pc>>

\* The process dies anywhere: the kernel drops its lock, the file keeps
\* whatever was written.
Crash(p) ==
    /\ opened[p] # None
    /\ locked' = [f \in Files |-> IF locked[f] = p THEN None ELSE locked[f]]
    /\ opened' = [opened EXCEPT ![p] = None]
    /\ pc' = [pc EXCEPT ![p] = "idle"]
    /\ UNCHANGED <<path, record>>

\* The user removes the ignored state directory.
DeleteStateDir ==
    /\ path # None
    /\ path' = None
    /\ UNCHANGED <<locked, opened, record, pc>>

LockNext ==
    \/ ClearOwnerRecord
    \/ DeleteStateDir
    \/ \E p \in Procs :
        \/ OpenLockFile(p) \/ TryLock(p) \/ WriteRecord(p)
        \/ Release(p) \/ StandDown(p) \/ Unlock(p) \/ Crash(p)

\* A tracker polls for as long as it runs, and a release runs to its end.
LockFairness == \A p \in Procs : WF_lockVars(StandDown(p)) /\ WF_lockVars(Unlock(p))

LockSpec == LockInit /\ [][LockNext]_lockVars /\ LockFairness

-----------------------------------------------------------------------------
LockTypeOK ==
    /\ path \in Files \cup {None}
    /\ locked \in [Files -> Procs \cup {None}]
    /\ opened \in [Procs -> Files \cup {None}]
    /\ record \in [Files -> Procs \cup {None}]
    /\ pc \in [Procs -> States]

\* The kernel lock and the process's own belief agree: a process that acts as
\* the writer has the lock of the file it holds open, and no other process
\* has that file's lock.
LockBacksBelief ==
    /\ \A p \in Procs : (opened[p] = None) <=> (pc[p] = "idle")
    /\ \A p \in Procs :
        pc[p] \in {"recording", "held", "releasing"} => locked[opened[p]] = p
    /\ \A f \in Files : locked[f] # None =>
        /\ opened[locked[f]] = f
        /\ pc[locked[f]] \in {"recording", "held", "releasing"}

\* At most one process holds the lock AND guards the path: two trackers on one
\* repository can coexist only while one of them holds a deleted file.
OneReachableWriter ==
    \A p, q \in Procs :
        /\ IsHeldBySelf(p) /\ IsHeldBySelf(q)
        /\ StillGuardsPath(p) /\ StillGuardsPath(q)
        => p = q

\* The refusal message never names a process that is not the writer: while a
\* process holds the file at the path, its record is that process's or empty,
\* whatever crashed holders left in it before.
RecordNeverLies ==
    \A p \in Procs : IsHeldBySelf(p) => record[opened[p]] \in {p, None}

\* Letting go never wipes the owner record the next holder has already
\* written: only a process's own release, or a stopper's clear_owner_record,
\* removes its record.
ReleaseSparesSuccessor ==
    [][\A p \in Procs :
        (IsHeldBySelf(p) /\ IsHeldBySelf(p)' /\ record[opened[p]] = p
            /\ record'[opened[p]] # p)
        => opened[p] = path /\ locked = locked' /\ pc = pc']_lockVars

\* A tracker left holding a deleted lock file does not keep writing: its poll
\* notices and it gives the orphaned lock up.
OrphanStandsDown ==
    \A p \in Trackers :
        (IsHeldBySelf(p) /\ ~StillGuardsPath(p)) ~> ~IsHeldBySelf(p)

\* already_running_message promises one writer "at a time, in any mode": an
\* orphaned lock would have to be noticed by an interactive session as well.
AnyModeStandsDown ==
    \A p \in Procs :
        (IsHeldBySelf(p) /\ ~StillGuardsPath(p)) ~> ~IsHeldBySelf(p)

-----------------------------------------------------------------------------
\* Refinement: the writer reachable through the path.
Owner ==
    IF path # None /\ locked[path] # None THEN locked[path] ELSE None

Abstract == INSTANCE SingleWriter WITH owner <- Owner, NoProc <- None

\* The reachable lock changes hands only through nobody.
ImplementsSingleWriter == Abstract!Spec
=============================================================================
