----------------------------- MODULE StateFile -----------------------------
(***************************************************************************)
(* The whole-file stores under .agitrack/ (state.json, config.json), each  *)
(* open in several processes and by several threads of one.  Every setter  *)
(* changes the instance's copy, merges the copy onto the file by the       *)
(* baseline the instance loaded, replaces the file and adopts what it      *)
(* wrote: four steps, and no lock around them.                             *)
(***************************************************************************)
EXTENDS Integers, FiniteSets

CONSTANTS
    Instances,  \* objects over the file, one or more per process
    Threads,
    Home,       \* [Threads -> Instances]: whose setters a thread calls
    Keys,
    Values,
    Absent,     \* a key the document does not have
    Defaults,   \* [Instances -> documents]: what an instance begins with
    Initially,  \* the documents an earlier run may have left
    MaxChanges, \* bound on the setters and saves called
    MaxOutside  \* bound on what users and failures do to the file

Docs == [Keys -> Values \cup {Absent}]
Empty == [k \in Keys |-> Absent]

ASSUME StateAssumption ==
    /\ Absent \notin Values
    /\ Home \in [Threads -> Instances]
    /\ Defaults \in [Instances -> Docs]
    /\ Initially \subseteq Docs
    /\ {MaxChanges, MaxOutside} \subseteq Nat

VARIABLES
    file,     \* the document in the file, Empty when there is no file
    form,     \* how it reads: "plain"; "marked", with a byte order mark; or "broken"
    open,     \* the instances that have loaded
    data,     \* [Instances -> Docs]: the copy each holds
    base,     \* [Instances -> Docs]: what it believes the file held
    held,     \* the instances whose saves are suspended
    job,      \* [Threads -> the save it is in]
    changes, outside,
    \* The rest is history.
    meant,    \* the document as the changes meant it to be
    deleted,  \* the keys that somebody deleted and nobody has set since
    crossed   \* the keys on which the file may differ from that

vars == <<file, form, open, data, base, held, job, changes, outside, meant, deleted, crossed>>
memory == <<open, data, base, held>>
meaning == <<meant, deleted, crossed>>

\* A save: the merge about to replace the file, the keys its instance had changed by then,
\* and as history what others wrote since, what the setter is to achieve, and whether no
\* other thread of its instance met it.
Idle == [step |-> "idle", doc |-> Empty, mine |-> {}, late |-> {},
         key |-> Absent, value |-> Absent, alone |-> FALSE]

TypeOK ==
    /\ file \in Docs /\ form \in {"plain", "marked", "broken"}
    /\ open \subseteq Instances /\ held \subseteq open
    /\ data \in [Instances -> Docs] /\ base \in [Instances -> Docs]
    /\ job \in [Threads -> [step : {"idle", "set", "merged", "replaced"}, doc : Docs,
                            mine : SUBSET Keys, late : SUBSET Keys, key : Keys \cup {Absent},
                            value : Values \cup {Absent}, alone : BOOLEAN]]
    /\ \A t \in Threads : job[t] # Idle => Home[t] \in open \ held
    /\ meant \in Docs /\ deleted \subseteq Keys /\ crossed \subseteq Keys
    /\ changes \in 0..MaxChanges /\ outside \in 0..MaxOutside

Init ==
    /\ file \in Initially /\ form = "plain"
    /\ open = {} /\ held = {}
    /\ data = [i \in Instances |-> Empty] /\ base = data
    /\ job = [t \in Threads |-> Idle]
    /\ changes = 0 /\ outside = 0
    /\ meant = file /\ deleted = {} /\ crossed = {}

---------------------------------------------------------------------------
(* What is read *)

\* dict.update: the second document over the first.
Over(d, e) == [k \in Keys |-> IF e[k] # Absent THEN e[k] ELSE d[k]]

\* _load, which tolerates a byte order mark.
Loaded(i) == Over(Defaults[i], IF form = "broken" THEN Empty ELSE file)

\* read_json_object, which a save reads with and which does not.
OnDisk == IF form = "plain" THEN file ELSE Empty

Changed(i) == {k \in Keys : data[i][k] # base[i][k]}

\* Mutant: the copy is written as it is, however old.
MergedBlind(i) == data[i]

\* Mutant: what somebody else changed is kept although this instance changed it too.
MergedDiskFirst(i) ==
    [k \in Keys |-> IF OnDisk[k] \in {Absent, base[i][k]} THEN data[i][k] ELSE OnDisk[k]]

\* merge_json_for_save: the instance's own changes, deletions too, and what the file lacks.
MergedForSave(i) ==
    [k \in Keys |-> IF k \in Changed(i) \/ OnDisk[k] = Absent THEN data[i][k] ELSE OnDisk[k]]

---------------------------------------------------------------------------
(* An instance *)

\* With a file that does not parse the instance begins with the defaults; a state file is
\* set aside, a configuration is left where it is.
Load(i) ==
    /\ i \notin open
    /\ open' = open \cup {i}
    /\ data' = [data EXCEPT ![i] = Loaded(i)]
    /\ base' = [base EXCEPT ![i] = Loaded(i)]
    /\ form' \in IF form = "broken" THEN {"plain", "broken"} ELSE {form}
    /\ UNCHANGED <<file, held, job, changes, outside, meaning>>

\* suspend_saves: what a start prepares before it has the repository lock stays in memory.
Suspend(i) ==
    /\ i \in open \ held
    /\ \A t \in Threads : Home[t] = i => job[t] = Idle
    /\ held' = held \cup {i}
    /\ UNCHANGED <<file, form, open, data, base, job, changes, outside, meaning>>

Release(i) ==
    /\ i \in held
    /\ held' = held \ {i}
    /\ UNCHANGED <<file, form, open, data, base, job, changes, outside, meaning>>

\* The process ends or dies, perhaps in the middle of a save.
Die(i) ==
    /\ i \in open
    /\ open' = open \ {i} /\ held' = held \ {i}
    /\ data' = [data EXCEPT ![i] = Empty] /\ base' = [base EXCEPT ![i] = Empty]
    /\ job' = [t \in Threads |-> IF Home[t] = i THEN Idle ELSE job[t]]
    /\ UNCHANGED <<file, form, changes, outside, meaning>>

---------------------------------------------------------------------------
(* A setter *)

Siblings(t) == {u \in Threads \ {t} : Home[u] = Home[t]}

\* A save begins, and meets what other saves of the instance are under way.
Begun(t, k, v) ==
    [u \in Threads |->
        IF u = t THEN [Idle EXCEPT !.step = "set", !.key = k, !.value = v,
                                   !.alone = \A w \in Siblings(t) : job[w] = Idle]
        ELSE IF u \in Siblings(t) THEN [job[u] EXCEPT !.alone = FALSE] ELSE job[u]]

\* A setter changes the copy and saves; while saves are suspended the first is all.
Set(t, k, v) ==
    /\ job[t] = Idle /\ Home[t] \in open /\ changes < MaxChanges
    /\ data' = [data EXCEPT ![Home[t]][k] = v]
    /\ changes' = changes + 1
    /\ job' = IF Home[t] \in held THEN job
              ELSE IF v = base[Home[t]][k] THEN Begun(t, Absent, Absent) ELSE Begun(t, k, v)
    /\ UNCHANGED <<file, form, open, base, held, outside, meaning>>

\* A save that changes nothing itself: run(), once it has the lock.
Save(t) ==
    /\ job[t] = Idle /\ Home[t] \in open \ held /\ changes < MaxChanges
    /\ job' = Begun(t, Absent, Absent)
    /\ changes' = changes + 1
    /\ UNCHANGED <<file, form, memory, outside, meaning>>

Merge(t) ==
    /\ job[t].step = "set"
    /\ job' = [job EXCEPT ![t].step = "merged", ![t].doc = MergedForSave(Home[t]),
                          ![t].mine = Changed(Home[t]),
                          ![t].late = IF form = "plain" THEN {} ELSE Keys]
    /\ UNCHANGED <<file, form, memory, changes, outside, meaning>>

\* Somebody else writes these keys while saves are between their look and their rename.
Passed(keys) == [t \in Threads |-> IF job[t].step = "merged"
                                    THEN [job[t] EXCEPT !.late = @ \cup keys] ELSE job[t]]

\* os.replace, and what it means for each key: the saver's own changes count, and so does
\* a key the file never had; what it writes of the others is not meant.
Replace(t) ==
    /\ job[t].step = "merged"
    /\ file' = job[t].doc /\ form' = "plain"
    /\ job' = [Passed({k \in Keys : job[t].doc[k] # file[k]})
                 EXCEPT ![t].step = "replaced", ![t].late = {}]
    /\ LET own == job[t].mine
           new == {k \in Keys \ own : meant[k] = Absent /\ k \notin deleted \cup job[t].late}
           old == Keys \ (own \cup new)
       IN /\ meant' = [k \in Keys |-> IF k \in old THEN meant[k] ELSE job[t].doc[k]]
          /\ deleted' = (deleted \ own) \cup {k \in own : job[t].doc[k] = Absent}
          /\ crossed' = (crossed \ own) \cup (old \cap job[t].late)
                          \cup {k \in old \cap deleted : job[t].doc[k] # Absent}
    /\ UNCHANGED <<memory, changes, outside>>

\* The rename is refused to the end, or the disk is full: the setter raises and the change
\* stays in the copy, for the next save.
SaveFails(t) ==
    /\ job[t].step = "merged" /\ outside < MaxOutside
    /\ outside' = outside + 1
    /\ job' = [job EXCEPT ![t] = Idle]
    /\ UNCHANGED <<file, form, memory, changes, meaning>>

\* The copy and the baseline become what was written, whatever a thread changed meanwhile.
Adopt(t) ==
    /\ job[t].step = "replaced"
    /\ data' = [data EXCEPT ![Home[t]] = job[t].doc]
    /\ base' = [base EXCEPT ![Home[t]] = job[t].doc]
    /\ job' = [job EXCEPT ![t] = Idle]
    /\ UNCHANGED <<file, form, open, held, changes, outside, meaning>>

---------------------------------------------------------------------------
(* The user *)

\* The user edits the file, with an editor that may put a byte order mark in front.
UserEdits(k, v, f) ==
    /\ outside < MaxOutside /\ form # "broken"
    /\ outside' = outside + 1
    /\ file' = [file EXCEPT ![k] = v] /\ form' = f
    /\ meant' = [meant EXCEPT ![k] = v]
    /\ deleted' = IF v = Absent THEN deleted \cup {k} ELSE deleted \ {k}
    /\ crossed' = crossed \ {k}
    /\ job' = Passed({k})
    /\ UNCHANGED <<memory, changes>>

\* `git clean -fdx' removes it, or something breaks it: nothing is promised of any key until
\* it is set again.
FileLost(f) ==
    /\ outside < MaxOutside
    /\ outside' = outside + 1
    /\ file' = Empty /\ form' = f
    /\ crossed' = Keys
    /\ UNCHANGED <<memory, job, changes, meant, deleted>>

Next ==
    \/ \E i \in Instances : Load(i) \/ Suspend(i) \/ Release(i) \/ Die(i)
    \/ \E t \in Threads : Save(t) \/ Merge(t) \/ Replace(t) \/ SaveFails(t) \/ Adopt(t)
    \/ \E t \in Threads, k \in Keys, v \in Values \cup {Absent} : Set(t, k, v)
    \/ \E k \in Keys, v \in Values \cup {Absent}, f \in {"plain", "marked"} : UserEdits(k, v, f)
    \/ \E f \in {"plain", "broken"} : FileLost(f)

Spec == Init /\ [][Next]_vars

---------------------------------------------------------------------------

\* No save takes back what another instance, another process or the user has put in the
\* file, however old the saver's copy is: the file holds the newest change of every key.
\* The keys left out are those that were written between a saver's look at the file and
\* its rename, or while the file could not be read, and deleted ones that an instance
\* which still had them put back.
ChangesKept == \A k \in Keys \ crossed : file[k] = meant[k]

\* The document that a setter's save puts in place of the file has the setter's value,
\* whatever other processes wrote before it read the file and merged, as long as no other
\* thread of its instance meets it.  (It says nothing of the file after the rename, which
\* a process that had merged before may replace.  A value the instance believes the file
\* has is not a change to it: such a setter need not bring it back.)
SetterWrites ==
    \A t \in Threads :
        (job[t].step = "replaced" /\ job[t].alone /\ job[t].key # Absent)
            => job[t].doc[job[t].key] = job[t].value
=============================================================================
