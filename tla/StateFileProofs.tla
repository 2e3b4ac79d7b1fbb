--------------------------- MODULE StateFileProofs ---------------------------
(***************************************************************************)
(* Proofs about StateFile, for every set of instances, threads, keys and   *)
(* values, and every number of changes, edits and failures.                *)
(***************************************************************************)
EXTENDS StateFile, TLAPS

\* The saves a thread may be in.
Saves == [step : {"idle", "set", "merged", "replaced"}, doc : Docs,
          mine : SUBSET Keys, late : SUBSET Keys, key : Keys \cup {Absent},
          value : Values \cup {Absent}, alone : BOOLEAN]

\* The types, by what they are about.
FileOK == file \in Docs /\ form \in {"plain", "marked", "broken"}
MemoryOK ==
    /\ open \subseteq Instances /\ held \subseteq open
    /\ data \in [Instances -> Docs] /\ base \in [Instances -> Docs]
JobsOK ==
    /\ job \in [Threads -> Saves]
    /\ \A t \in Threads : job[t] # Idle => Home[t] \in open \ held
MeaningOK ==
    /\ meant \in Docs /\ deleted \subseteq Keys /\ crossed \subseteq Keys
    /\ changes \in 0..MaxChanges /\ outside \in 0..MaxOutside

Typed == FileOK /\ MemoryOK /\ JobsOK /\ MeaningOK

\* What a save is about to write agrees with the file on every key that its instance has not
\* changed, that the file has, and that nobody has written since the save looked.
LooksHold ==
    \A t \in Threads : job[t].step = "merged" =>
        \A k \in Keys \ (job[t].mine \cup job[t].late) :
            file[k] # Absent => job[t].doc[k] = file[k]

\* A setter that met no other thread of its instance is the only one there, and its value is
\* in the copy, as a change, and then in the document.
SetterOK(t) ==
    (job[t].alone /\ job[t].step # "idle") =>
        /\ \A u \in Siblings(t) : job[u].step = "idle"
        /\ (job[t].step = "set" /\ job[t].key # Absent) =>
               /\ data[Home[t]][job[t].key] = job[t].value
               /\ base[Home[t]][job[t].key] # job[t].value
        /\ (job[t].step \in {"merged", "replaced"} /\ job[t].key # Absent) =>
               job[t].doc[job[t].key] = job[t].value

SettersOK == \A t \in Threads : SetterOK(t)

-----------------------------------------------------------------------------
(* The types.                                                              *)

\* No file reads as a document without keys.
LEMMA EmptyDoc == Empty \in Docs
  BY DEF Empty, Docs

\* Being in no save is the idle record.
LEMMA IdleSave == Idle \in Saves /\ Idle.step = "idle"
  BY EmptyDoc DEF Idle, Saves

\* What an instance begins with is a document.
LEMMA LoadedDoc == ASSUME Typed, NEW i \in Instances PROVE Loaded(i) \in Docs
  BY StateAssumption, EmptyDoc DEF Loaded, Over, Typed, FileOK, Docs

\* What a save merges is a document.
LEMMA MergedDoc == ASSUME Typed, NEW i \in Instances PROVE MergedForSave(i) \in Docs
<1>1. OnDisk \in Docs
  BY EmptyDoc DEF OnDisk, Typed, FileOK
<1>2. data[i] \in Docs
  BY DEF Typed, MemoryOK
<1> QED BY <1>1, <1>2 DEF MergedForSave, Docs

\* A save that begins keeps the types of the saves.
LEMMA BegunTypes ==
    ASSUME Typed, NEW t \in Threads, job[t] = Idle, Home[t] \in open \ held,
           NEW k \in Keys \cup {Absent}, NEW v \in Values \cup {Absent},
           job' = Begun(t, k, v), UNCHANGED <<open, held>>
    PROVE  JobsOK'
<1>1. [Idle EXCEPT !.step = "set", !.key = k, !.value = v,
                   !.alone = \A w \in Siblings(t) : job[w] = Idle] \in Saves
  BY EmptyDoc DEF Idle, Saves
<1>2. \A u \in Threads : [job[u] EXCEPT !.alone = FALSE] \in Saves
  BY DEF Typed, JobsOK, Saves
<1>3. job' \in [Threads -> Saves]
  BY <1>1, <1>2 DEF Begun, Typed, JobsOK
<1>4. \A u \in Threads : job'[u] # Idle => Home[u] \in open \ held
  BY IdleSave DEF Begun, Typed, JobsOK, Siblings
<1> QED BY <1>3, <1>4 DEF JobsOK

\* What others write while a save is under way changes what is known to be late, no more.
LEMMA PassedSaves ==
    ASSUME Typed, NEW keys \in SUBSET Keys
    PROVE  /\ Passed(keys) \in [Threads -> Saves]
           /\ \A t \in Threads : /\ Passed(keys)[t].step = job[t].step
                                 /\ Passed(keys)[t].doc = job[t].doc
                                 /\ Passed(keys)[t].mine = job[t].mine
                                 /\ Passed(keys)[t].key = job[t].key
                                 /\ Passed(keys)[t].value = job[t].value
                                 /\ Passed(keys)[t].alone = job[t].alone
                                 /\ (job[t].step # "merged" => Passed(keys)[t] = job[t])
                                 /\ (job[t].step = "merged" =>
                                        Passed(keys)[t].late = job[t].late \cup keys)
<1> SUFFICES ASSUME NEW t \in Threads
             PROVE  /\ Passed(keys)[t] \in Saves
                    /\ Passed(keys)[t].step = job[t].step
                    /\ Passed(keys)[t].doc = job[t].doc
                    /\ Passed(keys)[t].mine = job[t].mine
                    /\ Passed(keys)[t].key = job[t].key
                    /\ Passed(keys)[t].value = job[t].value
                    /\ Passed(keys)[t].alone = job[t].alone
                    /\ (job[t].step # "merged" => Passed(keys)[t] = job[t])
                    /\ (job[t].step = "merged" => Passed(keys)[t].late = job[t].late \cup keys)
  BY DEF Passed
<1>1. job[t] \in Saves
  BY DEF Typed, JobsOK
<1> QED BY <1>1 DEF Passed, Saves

\* Changing a field of one thread's save leaves saves.
LEMMA OneField ==
    ASSUME NEW J \in [Threads -> Saves], NEW t \in Threads
    PROVE  /\ \A s \in {"idle", "set", "merged", "replaced"} :
                  [J EXCEPT ![t].step = s] \in [Threads -> Saves]
           /\ \A d \in Docs : [J EXCEPT ![t].doc = d] \in [Threads -> Saves]
           /\ \A m \in SUBSET Keys : [J EXCEPT ![t].mine = m] \in [Threads -> Saves]
           /\ \A l \in SUBSET Keys : [J EXCEPT ![t].late = l] \in [Threads -> Saves]
  BY DEF Saves

\* A save that has looked is a save.
LEMMA MergedSave ==
    ASSUME NEW J \in [Threads -> Saves], NEW t \in Threads,
           NEW d \in Docs, NEW m \in SUBSET Keys, NEW l \in SUBSET Keys
    PROVE  [J EXCEPT ![t].step = "merged", ![t].doc = d, ![t].mine = m, ![t].late = l]
               \in [Threads -> Saves]
<1> DEFINE A == [J EXCEPT ![t].step = "merged"]
           B == [A EXCEPT ![t].doc = d]
           C == [B EXCEPT ![t].mine = m]
           D == [C EXCEPT ![t].late = l]
<1>1. A \in [Threads -> Saves]
  BY OneField
<1> HIDE DEF A
<1>2. B \in [Threads -> Saves]
  BY <1>1, OneField
<1> HIDE DEF B
<1>3. C \in [Threads -> Saves]
  BY <1>2, OneField
<1> HIDE DEF C
<1>4. D \in [Threads -> Saves]
  BY <1>3, OneField
<1>5. [J EXCEPT ![t].step = "merged", ![t].doc = d, ![t].mine = m, ![t].late = l] = D
  BY DEF A, B, C
<1> QED BY <1>4, <1>5

\* A save that has replaced the file is a save.
LEMMA ReplacedSave ==
    ASSUME NEW J \in [Threads -> Saves], NEW t \in Threads
    PROVE  [J EXCEPT ![t].step = "replaced", ![t].late = {}] \in [Threads -> Saves]
  BY DEF Saves

\* The initial states have the types.
LEMMA TypeInit == Init => Typed
  BY StateAssumption, EmptyDoc, IdleSave
     DEF Init, Typed, FileOK, MemoryOK, JobsOK, MeaningOK

\* Every step keeps the types.
LEMMA TypeStep == Typed /\ [Next]_vars => Typed'
<1> SUFFICES ASSUME Typed, [Next]_vars PROVE Typed'
  OBVIOUS
<1> USE StateAssumption DEF memory, meaning
<1>1. ASSUME NEW i \in Instances, Load(i) PROVE Typed'
  <2>1. FileOK' /\ JobsOK' /\ MeaningOK'
    BY <1>1 DEF Load, Typed, FileOK, JobsOK, MeaningOK
  <2>2. MemoryOK'
    BY <1>1, LoadedDoc DEF Load, Typed, MemoryOK
  <2> QED BY <2>1, <2>2 DEF Typed
<1>2. ASSUME NEW i \in Instances, Suspend(i) PROVE Typed'
  BY <1>2 DEF Suspend, Typed, FileOK, MemoryOK, JobsOK, MeaningOK
<1>3. ASSUME NEW i \in Instances, Release(i) PROVE Typed'
  BY <1>3 DEF Release, Typed, FileOK, MemoryOK, JobsOK, MeaningOK
<1>4. ASSUME NEW i \in Instances, Die(i) PROVE Typed'
  <2>1. FileOK' /\ MeaningOK'
    BY <1>4 DEF Die, Typed, FileOK, MeaningOK
  <2>2. MemoryOK'
    BY <1>4, EmptyDoc DEF Die, Typed, MemoryOK
  <2>3. JobsOK'
    BY <1>4, IdleSave DEF Die, Typed, JobsOK, MemoryOK
  <2> QED BY <2>1, <2>2, <2>3 DEF Typed
<1>5. ASSUME NEW t \in Threads, Save(t) PROVE Typed'
  <2>1. JobsOK'
    BY <1>5, BegunTypes DEF Save
  <2>2. FileOK' /\ MemoryOK' /\ MeaningOK'
    BY <1>5 DEF Save, Typed, FileOK, MemoryOK, MeaningOK
  <2> QED BY <2>1, <2>2 DEF Typed
<1>6. ASSUME NEW t \in Threads, Merge(t) PROVE Typed'
  <2>1. FileOK' /\ MemoryOK' /\ MeaningOK'
    BY <1>6 DEF Merge, Typed, FileOK, MemoryOK, MeaningOK
  <2>2. MergedForSave(Home[t]) \in Docs /\ Changed(Home[t]) \subseteq Keys
    BY MergedDoc DEF Changed
  <2>3. job' \in [Threads -> Saves]
    <3>1. job \in [Threads -> Saves]
      BY DEF Typed, JobsOK
    <3> QED BY <1>6, <2>2, <3>1, MergedSave DEF Merge
  <2>4. \A u \in Threads : job'[u] # Idle => Home[u] \in open \ held
    <3>1. job[t] # Idle
      BY <1>6, IdleSave DEF Merge
    <3>2. \A u \in Threads : u # t => job'[u] = job[u]
      BY <1>6 DEF Merge, Typed, JobsOK
    <3> QED BY <3>1, <3>2 DEF Typed, JobsOK
  <2>5. JobsOK'
    BY <1>6, <2>3, <2>4 DEF JobsOK, Merge
  <2> QED BY <2>1, <2>5 DEF Typed
<1>7. ASSUME NEW t \in Threads, Replace(t) PROVE Typed'
  <2>1. job[t].doc \in Docs /\ job[t].mine \subseteq Keys /\ job[t].late \subseteq Keys
    BY DEF Typed, JobsOK, Saves
  <2>2. FileOK' /\ MemoryOK'
    BY <1>7, <2>1 DEF Replace, Typed, FileOK, MemoryOK
  <2>3. MeaningOK'
    BY <1>7, <2>1 DEF Replace, Typed, MeaningOK, Docs
  <2>4. JobsOK'
    <3> DEFINE other == {k \in Keys : job[t].doc[k] # file[k]}
    <3>1. /\ Passed(other) \in [Threads -> Saves]
          /\ \A u \in Threads : Passed(other)[u].step = job[u].step
          /\ \A u \in Threads : job[u].step # "merged" => Passed(other)[u] = job[u]
      BY PassedSaves
    <3>2. job' = [Passed(other) EXCEPT ![t].step = "replaced", ![t].late = {}]
      BY <1>7 DEF Replace
    <3> HIDE DEF other
    <3>3. job' \in [Threads -> Saves]
      BY <3>1, <3>2, ReplacedSave
    <3>4. job'[t].step = "replaced" /\ \A u \in Threads : u # t => job'[u] = Passed(other)[u]
      BY <3>1, <3>2 DEF Saves
    <3>5. \A u \in Threads : job'[u] # Idle => Home[u] \in open \ held
      <4>1. job[t] # Idle
        BY <1>7, IdleSave DEF Replace
      <4>2. \A u \in Threads : u # t /\ job'[u] # Idle => job[u] # Idle
        BY <3>1, <3>4, IdleSave
      <4> QED BY <4>1, <4>2 DEF Typed, JobsOK
    <3> QED BY <1>7, <3>3, <3>5 DEF Replace, JobsOK
  <2> QED BY <2>2, <2>3, <2>4 DEF Typed
<1>8. ASSUME NEW t \in Threads, SaveFails(t) PROVE Typed'
  BY <1>8, IdleSave DEF SaveFails, Typed, FileOK, MemoryOK, JobsOK, MeaningOK
<1>9. ASSUME NEW t \in Threads, Adopt(t) PROVE Typed'
  <2>1. job[t].doc \in Docs
    BY DEF Typed, JobsOK, Saves
  <2> QED BY <1>9, <2>1, IdleSave DEF Adopt, Typed, FileOK, MemoryOK, JobsOK, MeaningOK
<1>10. ASSUME NEW t \in Threads, NEW k \in Keys, NEW v \in Values \cup {Absent}, Set(t, k, v)
       PROVE  Typed'
  <2>1. FileOK' /\ MeaningOK'
    BY <1>10 DEF Set, Typed, FileOK, MeaningOK
  <2>2. MemoryOK'
    BY <1>10 DEF Set, Typed, MemoryOK, Docs
  <2>3. JobsOK'
    <3>1. CASE Home[t] \in held
      BY <1>10, <3>1 DEF Set, Typed, JobsOK
    <3>2. CASE Home[t] \notin held
      <4>1. job' = Begun(t, Absent, Absent) \/ job' = Begun(t, k, v)
        BY <1>10, <3>2 DEF Set
      <4>2. job[t] = Idle /\ Home[t] \in open \ held /\ UNCHANGED <<open, held>>
        BY <1>10, <3>2 DEF Set
      <4> QED BY <4>1, <4>2, BegunTypes
    <3> QED BY <3>1, <3>2
  <2> QED BY <2>1, <2>2, <2>3 DEF Typed
<1>11. ASSUME NEW k \in Keys, NEW v \in Values \cup {Absent}, NEW f \in {"plain", "marked"},
              UserEdits(k, v, f)
       PROVE  Typed'
  <2>1. FileOK' /\ MemoryOK' /\ MeaningOK'
    BY <1>11 DEF UserEdits, Typed, FileOK, MemoryOK, MeaningOK, Docs
  <2>2. JobsOK'
    <3>1. job' = Passed({k}) /\ UNCHANGED <<open, held>>
      BY <1>11 DEF UserEdits
    <3>2. /\ Passed({k}) \in [Threads -> Saves]
          /\ \A u \in Threads : job[u] = Idle => Passed({k})[u] = job[u]
      BY PassedSaves, IdleSave
    <3> QED BY <3>1, <3>2 DEF Typed, JobsOK
  <2> QED BY <2>1, <2>2 DEF Typed
<1>12. ASSUME NEW f \in {"plain", "broken"}, FileLost(f) PROVE Typed'
  BY <1>12, EmptyDoc DEF FileLost, Typed, FileOK, MemoryOK, JobsOK, MeaningOK
<1>13. CASE UNCHANGED vars
  BY <1>13 DEF vars, Typed, FileOK, MemoryOK, JobsOK, MeaningOK
<1> QED
  BY <1>1, <1>2, <1>3, <1>4, <1>5, <1>6, <1>7, <1>8, <1>9, <1>10, <1>11, <1>12, <1>13 DEF Next

\* Every variable keeps its type.
THEOREM TypeCorrect == Spec => []TypeOK
<1>1. Typed => TypeOK
  BY DEF Typed, FileOK, MemoryOK, JobsOK, MeaningOK, Saves, TypeOK
<1> QED BY <1>1, TypeInit, TypeStep, PTL DEF Spec

-----------------------------------------------------------------------------
(* What is in the file.                                                    *)

\* A save that has looked agrees with the file where nothing came in between.
LEMMA LookStep == Typed /\ LooksHold /\ [Next]_vars => LooksHold'
<1> SUFFICES ASSUME Typed, LooksHold, [Next]_vars,
                    NEW u \in Threads, job'[u].step = "merged",
                    NEW x \in Keys \ (job'[u].mine \cup job'[u].late), file'[x] # Absent
             PROVE  job'[u].doc[x] = file'[x]
  BY DEF LooksHold
<1> USE StateAssumption DEF memory, meaning
<1>1. CASE file' = file /\ job'[u] = job[u]
  BY <1>1 DEF LooksHold
<1>2. ASSUME NEW i \in Instances, Load(i) \/ Suspend(i) \/ Release(i) \/ Die(i)
      PROVE  file' = file /\ (job'[u] = job[u] \/ job'[u] = Idle)
  BY <1>2 DEF Load, Suspend, Release, Die
<1>3. ASSUME NEW t \in Threads, SaveFails(t) \/ Adopt(t)
      PROVE  file' = file /\ (job'[u] = job[u] \/ job'[u] = Idle)
  BY <1>3 DEF SaveFails, Adopt, Typed, JobsOK
<1>4. job'[u] # Idle
  BY IdleSave
<1>5. ASSUME NEW t \in Threads, NEW k \in Keys \cup {Absent}, NEW v \in Values \cup {Absent},
             job' = Begun(t, k, v), file' = file
      PROVE  job'[u].doc[x] = file'[x]
  <2>1. job'[u] = job[u] \/ job'[u] = [job[u] EXCEPT !.alone = FALSE]
        \/ job'[u].step = "set"
    BY <1>5 DEF Begun, Idle
  <2>2. job[u] \in Saves
    BY DEF Typed, JobsOK
  <2>3. job[u].step = "merged" /\ job'[u].mine = job[u].mine /\ job'[u].late = job[u].late
        /\ job'[u].doc = job[u].doc
    BY <2>1, <2>2 DEF Saves
  <2> QED BY <1>5, <2>3 DEF LooksHold
<1>6. ASSUME NEW t \in Threads, Save(t) PROVE job'[u].doc[x] = file'[x]
  BY <1>5, <1>6 DEF Save
<1>7. ASSUME NEW t \in Threads, NEW k \in Keys, NEW v \in Values \cup {Absent}, Set(t, k, v)
      PROVE  job'[u].doc[x] = file'[x]
  <2>1. file' = file /\ (job' = job \/ job' = Begun(t, Absent, Absent) \/ job' = Begun(t, k, v))
    BY <1>7 DEF Set
  <2> QED BY <2>1, <1>1, <1>5
<1>8. ASSUME NEW t \in Threads, Merge(t) PROVE job'[u].doc[x] = file'[x]
  <2>1. CASE u = t
    <3>1. /\ job'[u].doc = MergedForSave(Home[t]) /\ job'[u].mine = Changed(Home[t])
          /\ job'[u].late = IF form = "plain" THEN {} ELSE Keys
      BY <1>8, <2>1 DEF Merge, Typed, JobsOK, Saves
    <3>2. form = "plain" /\ x \notin Changed(Home[t]) /\ file' = file
      BY <1>8, <3>1 DEF Merge
    <3> QED BY <3>1, <3>2 DEF MergedForSave, OnDisk
  <2>2. CASE u # t
    BY <1>8, <2>2, <1>1 DEF Merge, Typed, JobsOK
  <2> QED BY <2>1, <2>2
<1>9. ASSUME NEW t \in Threads, Replace(t) PROVE job'[u].doc[x] = file'[x]
  <2> DEFINE other == {k \in Keys : job[t].doc[k] # file[k]}
  <2>1. /\ Passed(other) \in [Threads -> Saves]
        /\ job[u].step = Passed(other)[u].step
        /\ job[u].doc = Passed(other)[u].doc
        /\ job[u].mine = Passed(other)[u].mine
        /\ job[u].step = "merged" => Passed(other)[u].late = job[u].late \cup other
    BY PassedSaves
  <2>2. job' = [Passed(other) EXCEPT ![t].step = "replaced", ![t].late = {}] /\ file' = job[t].doc
    BY <1>9 DEF Replace
  <2>3. x \notin other => file'[x] = file[x]
    BY <2>2
  <2> HIDE DEF other
  <2>4. u # t /\ job'[u] = Passed(other)[u]
    BY <2>1, <2>2 DEF Saves
  <2> QED BY <2>1, <2>3, <2>4 DEF LooksHold
<1>10. ASSUME NEW k \in Keys, NEW v \in Values \cup {Absent}, NEW f \in {"plain", "marked"},
              UserEdits(k, v, f)
       PROVE  job'[u].doc[x] = file'[x]
  <2>1. /\ job[u].step = Passed({k})[u].step
        /\ job[u].doc = Passed({k})[u].doc
        /\ job[u].mine = Passed({k})[u].mine
        /\ job[u].step = "merged" => Passed({k})[u].late = job[u].late \cup {k}
    BY PassedSaves
  <2>2. job' = Passed({k}) /\ file' = [file EXCEPT ![k] = v]
    BY <1>10 DEF UserEdits
  <2>3. x # k /\ file'[x] = file[x]
    BY <2>1, <2>2 DEF Typed, FileOK, Docs
  <2> QED BY <2>1, <2>2, <2>3 DEF LooksHold
<1>11. ASSUME NEW f \in {"plain", "broken"}, FileLost(f) PROVE FALSE
  BY <1>11 DEF FileLost, Empty
<1>12. CASE UNCHANGED vars
  BY <1>1, <1>12 DEF vars
<1> QED
  BY <1>1, <1>2, <1>3, <1>4, <1>6, <1>7, <1>8, <1>9, <1>10, <1>11, <1>12 DEF Next

\* The file holds what the changes meant, on every key where the code lets no two writes cross.
LEMMA KeptStep == Typed /\ LooksHold /\ ChangesKept /\ [Next]_vars => ChangesKept'
<1> SUFFICES ASSUME Typed, LooksHold, ChangesKept, [Next]_vars,
                    NEW x \in Keys \ crossed'
             PROVE  file'[x] = meant'[x]
  BY DEF ChangesKept
<1> USE StateAssumption DEF memory, meaning
<1>1. CASE UNCHANGED <<file, meaning>>
  BY <1>1 DEF ChangesKept
<1>2. ASSUME NEW i \in Instances, Load(i) \/ Suspend(i) \/ Release(i) \/ Die(i)
      PROVE  UNCHANGED <<file, meaning>>
  BY <1>2 DEF Load, Suspend, Release, Die
<1>3. ASSUME NEW t \in Threads, Save(t) \/ Merge(t) \/ SaveFails(t) \/ Adopt(t)
      PROVE  UNCHANGED <<file, meaning>>
  BY <1>3 DEF Save, Merge, SaveFails, Adopt
<1>4. ASSUME NEW t \in Threads, NEW k \in Keys, NEW v \in Values \cup {Absent}, Set(t, k, v)
      PROVE  UNCHANGED <<file, meaning>>
  BY <1>4 DEF Set
<1>5. ASSUME NEW t \in Threads, Replace(t) PROVE file'[x] = meant'[x]
  <2> DEFINE own == job[t].mine
             fresh == {k \in Keys \ own : meant[k] = Absent /\ k \notin deleted \cup job[t].late}
             rest == Keys \ (own \cup fresh)
  <2>1. /\ file' = job[t].doc
        /\ meant' = [k \in Keys |-> IF k \in rest THEN meant[k] ELSE job[t].doc[k]]
        /\ crossed' = (crossed \ own) \cup (rest \cap job[t].late)
                          \cup {k \in rest \cap deleted : job[t].doc[k] # Absent}
    BY <1>5 DEF Replace
  <2>2. CASE x \notin rest
    BY <2>1, <2>2
  <2>3. CASE x \in rest
    <3>1. x \notin crossed /\ x \notin own /\ x \notin job[t].late
          /\ (x \in deleted => job[t].doc[x] = Absent)
      BY <2>1, <2>3
    <3>2. file[x] = meant[x]
      BY <3>1 DEF ChangesKept
    <3>3. file[x] # Absent => job[t].doc[x] = file[x]
      BY <1>5, <3>1 DEF LooksHold, Replace
    <3>4. meant[x] # Absent \/ x \in deleted
      BY <2>3, <3>1
    <3>5. meant'[x] = meant[x]
      BY <2>1, <2>3
    <3> QED BY <2>1, <3>1, <3>2, <3>3, <3>4, <3>5
  <2> QED BY <2>2, <2>3
<1>6. ASSUME NEW k \in Keys, NEW v \in Values \cup {Absent}, NEW f \in {"plain", "marked"},
             UserEdits(k, v, f)
      PROVE  file'[x] = meant'[x]
  BY <1>6 DEF UserEdits, Typed, FileOK, MeaningOK, Docs, ChangesKept
<1>7. ASSUME NEW f \in {"plain", "broken"}, FileLost(f) PROVE FALSE
  BY <1>7 DEF FileLost
<1>8. CASE UNCHANGED vars
  BY <1>1, <1>8 DEF vars
<1> QED
  BY <1>1, <1>2, <1>3, <1>4, <1>5, <1>6, <1>7, <1>8 DEF Next

\* No save takes back what another instance, another process or the user has put in the file.
THEOREM NewestChangeStands == Spec => []ChangesKept
<1>1. Init => Typed /\ LooksHold /\ ChangesKept
  <2>1. Init => LooksHold
    BY IdleSave DEF Init, LooksHold
  <2> QED BY <2>1, TypeInit DEF Init, ChangesKept
<1>2. (Typed /\ LooksHold /\ ChangesKept) /\ [Next]_vars => (Typed /\ LooksHold /\ ChangesKept)'
  BY TypeStep, LookStep, KeptStep
<1> QED BY <1>1, <1>2, PTL DEF Spec
-----------------------------------------------------------------------------
(* What a setter achieves.                                                 *)

\* A setter that nothing of its instance has touched stays good, field by field.
LEMMA SetterKept ==
    ASSUME SettersOK, NEW t \in Threads,
           job'[t].step = job[t].step, job'[t].alone = job[t].alone,
           job'[t].key = job[t].key, job'[t].value = job[t].value, job'[t].doc = job[t].doc,
           data'[Home[t]] = data[Home[t]], base'[Home[t]] = base[Home[t]],
           \A u \in Siblings(t) : job[u].step = "idle" => job'[u].step = "idle"
    PROVE  SetterOK(t)'
<1>1. SetterOK(t)
  BY DEF SettersOK
<1>2. Siblings(t)' = Siblings(t)
  BY DEF Siblings
<1> QED BY <1>1, <1>2 DEF SetterOK

\* The same of one whose save is as it was, but for what is known to be late.
LEMMA SetterStays ==
    ASSUME SettersOK, NEW t \in Threads,
           job'[t] = [job[t] EXCEPT !.late = job'[t].late],
           job[t] \in Saves,
           data'[Home[t]] = data[Home[t]], base'[Home[t]] = base[Home[t]],
           \A u \in Siblings(t) : job[u].step = "idle" => job'[u].step = "idle"
    PROVE  SetterOK(t)'
<1>1. /\ job'[t].step = job[t].step /\ job'[t].alone = job[t].alone
      /\ job'[t].key = job[t].key /\ job'[t].value = job[t].value /\ job'[t].doc = job[t].doc
  BY DEF Saves
<1> QED BY <1>1, SetterKept

\* A save that begins has its own value in the copy, and is alone no longer than it is.
LEMMA SetterBegins ==
    ASSUME Typed, SettersOK, NEW t \in Threads, job[t] = Idle,
           NEW k \in Keys \cup {Absent}, NEW v \in Values \cup {Absent},
           job' = Begun(t, k, v), base' = base,
           \A i \in Instances \ {Home[t]} : data'[i] = data[i],
           k # Absent => data'[Home[t]][k] = v /\ base[Home[t]][k] # v,
           NEW u \in Threads
    PROVE  SetterOK(u)'
<1>1. CASE u = t
  <2>1. /\ job'[t].step = "set" /\ job'[t].key = k /\ job'[t].value = v
        /\ job'[t].alone = \A w \in Siblings(t) : job[w] = Idle
    BY DEF Begun, Idle
  <2>2. ASSUME NEW w \in Siblings(t), job'[t].alone PROVE job'[w].step = "idle"
    <3>1. job'[w] = [job[w] EXCEPT !.alone = FALSE] /\ job[w] = Idle
      BY <2>1, <2>2 DEF Begun, Siblings
    <3> QED BY <3>1 DEF Idle
  <2> QED BY <1>1, <2>1, <2>2 DEF SetterOK, Siblings
<1>2. CASE u \in Siblings(t)
  <2>1. job'[u] = [job[u] EXCEPT !.alone = FALSE] /\ job[u] \in Saves
    BY <1>2 DEF Begun, Siblings, Typed, JobsOK
  <2>2. job'[u].alone = FALSE
    BY <2>1 DEF Saves
  <2> QED BY <2>2 DEF SetterOK
<1>3. CASE u # t /\ u \notin Siblings(t)
  <2>1. job'[u] = job[u] /\ Home[u] # Home[t]
    BY <1>3 DEF Begun, Siblings
  <2>2. job[u] \in Saves /\ data'[Home[u]] = data[Home[u]]
    BY <2>1, StateAssumption DEF Typed, JobsOK
  <2>3. \A w \in Siblings(u) : job'[w] = job[w]
    BY <1>3, <2>1 DEF Begun, Siblings
  <2>4. job'[u] = [job[u] EXCEPT !.late = job'[u].late]
    BY <2>1, <2>2 DEF Saves
  <2> QED BY <2>2, <2>3, <2>4, SetterStays
<1> QED BY <1>1, <1>2, <1>3

\* Every step keeps what a setter alone in its instance has achieved.
LEMMA SetterStep == Typed /\ SettersOK /\ [Next]_vars => SettersOK'
<1> SUFFICES ASSUME Typed, SettersOK, [Next]_vars, NEW u \in Threads
             PROVE  SetterOK(u)'
  BY DEF SettersOK
<1> USE StateAssumption DEF memory, meaning
<1>1. job[u] \in Saves /\ job[u] = [job[u] EXCEPT !.late = job[u].late]
  BY DEF Typed, JobsOK, Saves
<1>2. CASE UNCHANGED <<data, base, job>>
  BY <1>1, <1>2, SetterStays
<1>3. CASE job'[u] = Idle
  BY <1>3, IdleSave DEF SetterOK
<1>4. ASSUME NEW i \in Instances, Load(i) PROVE SetterOK(u)'
  <2>1. CASE Home[u] = i
    <3>1. job'[u] = Idle
      BY <1>4, <2>1 DEF Load, Typed, JobsOK
    <3> QED BY <3>1, <1>3
  <2>2. CASE Home[u] # i
    <3>1. job' = job /\ data'[Home[u]] = data[Home[u]] /\ base'[Home[u]] = base[Home[u]]
      BY <1>4, <2>2 DEF Load, Typed, MemoryOK
    <3> QED BY <1>1, <3>1, SetterStays
  <2> QED BY <2>1, <2>2
<1>5. ASSUME NEW i \in Instances, Suspend(i) \/ Release(i) PROVE SetterOK(u)'
  BY <1>2, <1>5 DEF Suspend, Release
<1>6. ASSUME NEW i \in Instances, Die(i) PROVE SetterOK(u)'
  <2>1. CASE Home[u] = i
    BY <1>3, <1>6, <2>1 DEF Die
  <2>2. CASE Home[u] # i
    <3>1. job'[u] = job[u] /\ data'[Home[u]] = data[Home[u]] /\ base'[Home[u]] = base[Home[u]]
      BY <1>6, <2>2 DEF Die, Typed, MemoryOK
    <3>2. \A w \in Siblings(u) : job'[w] = job[w]
      BY <1>6, <2>2 DEF Die, Siblings
    <3> QED BY <1>1, <3>1, <3>2, SetterStays
  <2> QED BY <2>1, <2>2
<1>7. ASSUME NEW t \in Threads, Save(t) PROVE SetterOK(u)'
  BY <1>7, SetterBegins DEF Save
<1>8. ASSUME NEW t \in Threads, NEW k \in Keys, NEW v \in Values \cup {Absent}, Set(t, k, v)
      PROVE  SetterOK(u)'
  <2>1. /\ job[t] = Idle /\ base' = base
        /\ \A i \in Instances \ {Home[t]} : data'[i] = data[i]
        /\ data'[Home[t]][k] = v
    BY <1>8 DEF Set, Typed, MemoryOK, Docs
  <2>2. CASE Home[t] \in held
    <3>1. job' = job
      BY <1>8, <2>2 DEF Set
    <3>2. CASE Home[u] = Home[t]
      <4>1. job'[u] = Idle
        BY <2>2, <3>1, <3>2 DEF Typed, JobsOK
      <4> QED BY <1>3, <4>1
    <3>3. CASE Home[u] # Home[t]
      <4>1. data'[Home[u]] = data[Home[u]] /\ base'[Home[u]] = base[Home[u]]
        BY <2>1, <3>3
      <4> QED BY <1>1, <3>1, <4>1, SetterStays
    <3> QED BY <3>2, <3>3
  <2>3. CASE Home[t] \notin held /\ v = base[Home[t]][k]
    <3>1. job' = Begun(t, Absent, Absent)
      BY <1>8, <2>3 DEF Set
    <3> QED BY <2>1, <3>1, SetterBegins
  <2>4. CASE Home[t] \notin held /\ v # base[Home[t]][k]
    <3>1. job' = Begun(t, k, v)
      BY <1>8, <2>4 DEF Set
    <3> QED BY <2>1, <2>4, <3>1, SetterBegins
  <2> QED BY <2>2, <2>3, <2>4
<1>9. ASSUME NEW t \in Threads, u # t, UNCHANGED <<data, base>>,
             \A w \in Threads \ {t} : job'[w] = job[w], job[t].step # "idle"
      PROVE  SetterOK(u)'
  <2>1. job'[u] = job[u]
    BY <1>9
  <2>2. \A w \in Siblings(u) : job[w].step = "idle" => job'[w].step = "idle"
    BY <1>9 DEF Siblings
  <2> QED BY <1>1, <1>9, <2>1, <2>2, SetterStays
<1>10. ASSUME NEW t \in Threads, Merge(t) PROVE SetterOK(u)'
  <2>1. /\ job[t].step = "set" /\ UNCHANGED <<data, base>>
        /\ \A w \in Threads \ {t} : job'[w] = job[w]
    BY <1>10, IdleSave DEF Merge, Typed, JobsOK
  <2>2. CASE u = t
    <3>1. /\ job'[u].key = job[u].key /\ job'[u].value = job[u].value
          /\ job'[u].alone = job[u].alone /\ job'[u].step = "merged"
          /\ job'[u].doc = MergedForSave(Home[u])
      BY <1>1, <1>10, <2>2 DEF Merge, Typed, JobsOK, Saves
    <3>2. ASSUME job[u].alone, job[u].key # Absent
          PROVE  job'[u].doc[job[u].key] = job[u].value
      <4>1. data[Home[u]][job[u].key] = job[u].value /\ base[Home[u]][job[u].key] # job[u].value
        BY <2>1, <2>2, <3>2 DEF SettersOK, SetterOK
      <4>2. job[u].key \in Changed(Home[u])
        BY <1>1, <3>2, <4>1 DEF Changed, Saves
      <4> QED BY <3>1, <4>1, <4>2 DEF MergedForSave, Changed
    <3>3. job[u].alone => \A w \in Siblings(u) : job'[w].step = "idle"
      BY <2>1, <2>2 DEF SettersOK, SetterOK, Siblings
    <3> QED BY <3>1, <3>2, <3>3 DEF SetterOK, Siblings
  <2>3. CASE u # t
    BY <1>9, <2>1, <2>3
  <2> QED BY <2>2, <2>3
<1>11. ASSUME NEW t \in Threads, Replace(t) PROVE SetterOK(u)'
  <2> DEFINE other == {k \in Keys : job[t].doc[k] # file[k]}
  <2>1. /\ Passed(other) \in [Threads -> Saves]
        /\ \A w \in Threads :
               /\ Passed(other)[w].step = job[w].step /\ Passed(other)[w].doc = job[w].doc
               /\ Passed(other)[w].key = job[w].key /\ Passed(other)[w].value = job[w].value
               /\ Passed(other)[w].alone = job[w].alone
               /\ job[w].step # "merged" => Passed(other)[w] = job[w]
    BY PassedSaves
  <2>2. /\ job' = [Passed(other) EXCEPT ![t].step = "replaced", ![t].late = {}]
        /\ job[t].step = "merged" /\ UNCHANGED <<data, base>>
    BY <1>11 DEF Replace
  <2> HIDE DEF other
  <2>3. /\ \A w \in Threads \ {t} : job'[w] = Passed(other)[w]
        /\ job'[t].step = "replaced" /\ job'[t].doc = job[t].doc /\ job'[t].key = job[t].key
        /\ job'[t].value = job[t].value /\ job'[t].alone = job[t].alone
    BY <2>1, <2>2 DEF Saves
  <2>4. /\ job'[u].doc = job[u].doc /\ job'[u].key = job[u].key /\ job'[u].value = job[u].value
        /\ job'[u].alone = job[u].alone
        /\ job'[u].step = IF u = t THEN "replaced" ELSE job[u].step
    BY <2>1, <2>3
  <2>5. \A w \in Siblings(u) : job[w].step = "idle" => job'[w].step = "idle"
    BY <2>1, <2>2, <2>3 DEF Siblings
  <2>6. CASE u = t
    <3>1. SetterOK(t)
      BY DEF SettersOK
    <3>2. (job[t].alone /\ job[t].key # Absent) => job[t].doc[job[t].key] = job[t].value
      BY <2>2, <3>1 DEF SetterOK
    <3>3. job[t].alone => \A w \in Siblings(t) : job'[w].step = "idle"
      BY <2>2, <2>5, <2>6, <3>1 DEF SetterOK
    <3>4. job'[t].step = "replaced"
      BY <2>3
    <3> QED BY <2>4, <2>6, <3>2, <3>3, <3>4 DEF SetterOK, Siblings
  <2>7. CASE u # t
    <3>1. job'[u].step = job[u].step
      BY <2>4, <2>7
    <3> QED BY <2>2, <2>4, <2>5, <3>1, SetterKept
  <2> QED BY <2>6, <2>7
<1>12. ASSUME NEW t \in Threads, SaveFails(t) PROVE SetterOK(u)'
  <2>1. /\ job[t].step = "merged" /\ UNCHANGED <<data, base>>
        /\ job'[t] = Idle /\ \A w \in Threads \ {t} : job'[w] = job[w]
    BY <1>12, IdleSave DEF SaveFails, Typed, JobsOK
  <2> QED BY <1>3, <1>9, <2>1
<1>13. ASSUME NEW t \in Threads, Adopt(t) PROVE SetterOK(u)'
  <2>1. /\ job[t].step = "replaced" /\ job'[t] = Idle /\ \A w \in Threads \ {t} : job'[w] = job[w]
        /\ \A i \in Instances \ {Home[t]} : data'[i] = data[i] /\ base'[i] = base[i]
    BY <1>13, IdleSave DEF Adopt, Typed, JobsOK, MemoryOK
  <2>2. CASE u = t
    BY <1>3, <2>1, <2>2
  <2>3. CASE u \in Siblings(t)
    <3>1. job'[u] = job[u] /\ t \in Siblings(u)
      BY <2>1, <2>3 DEF Siblings
    <3>2. ~(job[u].alone /\ job[u].step # "idle")
      BY <2>1, <3>1 DEF SettersOK, SetterOK
    <3> QED BY <3>1, <3>2 DEF SetterOK
  <2>4. CASE u # t /\ u \notin Siblings(t)
    <3>1. /\ job'[u] = job[u] /\ data'[Home[u]] = data[Home[u]] /\ base'[Home[u]] = base[Home[u]]
      BY <2>1, <2>4 DEF Siblings
    <3>2. \A w \in Siblings(u) : job'[w] = job[w]
      BY <2>1, <2>4 DEF Siblings
    <3> QED BY <1>1, <3>1, <3>2, SetterStays
  <2> QED BY <2>2, <2>3, <2>4
<1>14. ASSUME NEW k \in Keys, NEW v \in Values \cup {Absent}, NEW f \in {"plain", "marked"},
              UserEdits(k, v, f)
       PROVE  SetterOK(u)'
  <2>1. job' = Passed({k}) /\ UNCHANGED <<data, base>>
    BY <1>14 DEF UserEdits
  <2>2. /\ job'[u].doc = job[u].doc /\ job'[u].key = job[u].key /\ job'[u].value = job[u].value
        /\ job'[u].alone = job[u].alone /\ job'[u].step = job[u].step
    BY <2>1, PassedSaves
  <2>3. \A w \in Threads : job'[w].step = job[w].step
    BY <2>1, PassedSaves
  <2>4. \A w \in Siblings(u) : job[w].step = "idle" => job'[w].step = "idle"
    BY <2>3 DEF Siblings
  <2> QED BY <2>1, <2>2, <2>4, SetterKept
<1>15. ASSUME NEW f \in {"plain", "broken"}, FileLost(f) PROVE SetterOK(u)'
  BY <1>2, <1>15 DEF FileLost
<1>16. CASE UNCHANGED vars
  BY <1>2, <1>16 DEF vars
<1> QED
  BY <1>4, <1>5, <1>6, <1>7, <1>8, <1>10, <1>11, <1>12, <1>13, <1>14, <1>15, <1>16 DEF Next

\* A setter that no other thread of its instance meets has its value in the document it puts
\* in place.
THEOREM SetterAchieves == Spec => []SetterWrites
<1>1. Init => Typed /\ SettersOK
  <2>1. Init => SettersOK
    BY IdleSave DEF Init, SettersOK, SetterOK
  <2> QED BY <2>1, TypeInit
<1>2. (Typed /\ SettersOK) /\ [Next]_vars => (Typed /\ SettersOK)'
  BY TypeStep, SetterStep
<1>3. SettersOK => SetterWrites
  BY DEF SettersOK, SetterOK, SetterWrites
<1> QED BY <1>1, <1>2, <1>3, PTL DEF Spec
=============================================================================
