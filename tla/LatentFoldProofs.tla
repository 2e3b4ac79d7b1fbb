-------------------------- MODULE LatentFoldProofs --------------------------
(***************************************************************************)
(* For any number of sessions, turns, commits, resets and crashes: no step *)
(* of the tracker, no crash and no restart loses a recorded turn; none is  *)
(* folded twice but by a crossing on record; and the trailer is current    *)
(* whenever the tracker rests.                                             *)
(***************************************************************************)
EXTENDS LatentFold, SequenceTheorems, TLAPS

\* The turns that have left the chains: in a commit, thrown away or marked as folded.
Left == OnBranch \cup dropped \cup overtaken

\* Commits are numbered in the order they were made, and one thrown away is on no branch.
InOrder ==
    /\ \A i, j \in DOMAIN branch : i < j => branch[i].id < branch[j].id
    /\ \A i \in DOMAIN branch : branch[i].id \notin thrown

\* An amend keeps the turns of the commit it replaces, if that is still there.
AmendKeeps ==
    user = "editing" /\ draft.amend =>
        \A i \in DOMAIN branch : branch[i].id = draft.head => branch[i].turns = draft.turns

\* What the tracker's thread has read covers what it is about to replace.
ReadsCover ==
    /\ step = "link" => /\ PendingOn(cur) \cup {recorded + 1} \subseteq job.turns
                        /\ job.base \in thrown => job.turns \subseteq dropped
    /\ step = "fold" => Pending \subseteq job.turns
    /\ step \in {"hook", "mark"} => Pending \subseteq Left

FoldInv == TypeOK /\ InOrder /\ AmendKeeps /\ ReadsCover /\ OnlyTheHookLosesTurns

-----------------------------------------------------------------------------
(* Sequences of commits.                                                   *)

Commit == [id : 1..made, turns : SUBSET Turns]

LEMMA TipFacts ==
  ASSUME TypeOK
  PROVE  /\ Len(branch) \in Nat \ {0} /\ DOMAIN branch = 1..Len(branch)
         /\ \A i \in DOMAIN branch : branch[i] \in Commit
         /\ Tip = branch[Len(branch)] /\ Len(branch) \in DOMAIN branch
         /\ Tip.id \in 1..made /\ Tip.turns \subseteq Turns
         /\ made \in Nat /\ recorded \in Nat
<1>1. branch \in Seq(Commit) /\ branch # <<>> /\ made \in Nat /\ recorded \in Nat
  BY DEF TypeOK, Commit
<1>2. Len(branch) \in Nat \ {0} /\ DOMAIN branch = 1..Len(branch)
  BY <1>1, EmptySeq, LenProperties
<1>3. \A i \in DOMAIN branch : branch[i] \in Commit
  BY <1>1, <1>2, ElementOfSeq
<1>4. Tip = branch[Len(branch)]
  BY DEF Tip, Last
<1>5. Len(branch) \in DOMAIN branch
  BY <1>2
<1>6. Tip \in Commit
  BY <1>3, <1>4, <1>5
<1> QED
  BY <1>1, <1>2, <1>3, <1>4, <1>5, <1>6 DEF Commit

\* One commit more: it is the last one, and the others stay where they are.
LEMMA Appended ==
  ASSUME NEW S, NEW s \in Seq(S), NEW c
  PROVE  LET a == Append(s, c)
         IN /\ DOMAIN a = DOMAIN s \cup {Len(s) + 1}
            /\ \A i \in DOMAIN s : a[i] = s[i] /\ i < Len(s) + 1
            /\ a[Len(s) + 1] = c
            /\ c \in S => a \in Seq(S)
            /\ a # <<>>
<1>1. Len(s) \in Nat /\ DOMAIN s = 1..Len(s)
  BY LenProperties
<1>2. Append(s, c) \in Seq(S \cup {c})
  BY AppendProperties
<1> QED
  BY <1>1, AppendProperties

\* One commit less.
LEMMA Fronted ==
  ASSUME NEW S, NEW s \in Seq(S), s # <<>>
  PROVE  LET f == Front(s)
         IN /\ f \in Seq(S)
            /\ Len(f) = Len(s) - 1
            /\ DOMAIN f = DOMAIN s \ {Len(s)}
            /\ \A i \in DOMAIN f : f[i] = s[i]
<1>1. Len(s) \in Nat \ {0} /\ DOMAIN s = 1..Len(s)
  BY EmptySeq, LenProperties
<1> DEFINE n == Len(s) - 1
<1>2. n \in Nat /\ 1 \in Nat \ {0} /\ 1 + n - 1 = n
  BY <1>1
<1>3. \A k \in 1..n : s[k] \in S
  BY <1>1, ElementOfSeq
<1>4. /\ SubSeq(s, 1, n) \in Seq(S)
      /\ Len(SubSeq(s, 1, n)) = IF 1 <= n THEN n - 1 + 1 ELSE 0
      /\ \A k \in 1..(n - 1 + 1) : SubSeq(s, 1, n)[k] = s[1 + k - 1]
  BY <1>2, <1>3, SubSeqProperties
<1>5. Len(SubSeq(s, 1, n)) = n /\ \A k \in 1..n : SubSeq(s, 1, n)[k] = s[k]
  BY <1>2, <1>4
<1>6. DOMAIN SubSeq(s, 1, n) = 1..n
  BY <1>4, <1>5, LenProperties
<1>7. 1..n = DOMAIN s \ {Len(s)}
  BY <1>1, <1>2
<1> QED
  BY <1>4, <1>5, <1>6, <1>7 DEF Front

-----------------------------------------------------------------------------
(* Types.                                                                  *)

LEMMA PendingTypes ==
  ASSUME TypeOK
  PROVE  /\ \A s \in Sessions : PendingOn(s) \subseteq Turns
         /\ Pending \subseteq Turns
         /\ Turns \subseteq 1..(recorded + 1)
         /\ RefsToFold \in SUBSET Sessions /\ RefsToFold # {}
         /\ Parent \in 0..made
<1>1. \A s \in Sessions : PendingOn(s) \subseteq Turns
  BY DEF TypeOK, PendingOn
<1>2. Pending \subseteq Turns
  BY <1>1 DEF Pending, PendingIn
<1>3. Turns \subseteq 1..(recorded + 1)
  BY DEF TypeOK, Turns
<1>4. RefsToFold \in SUBSET Sessions /\ RefsToFold # {}
  BY DEF TypeOK, RefsToFold, Refs
<1>5. Parent \in 0..made
  BY TipFacts DEF Parent, TypeOK
<1> QED
  BY <1>1, <1>2, <1>3, <1>4, <1>5

LEMMA MoveRefsTypes ==
  ASSUME TypeOK, NEW refs, NEW id \in 0..made, MoveRefs(refs, id)
  PROVE  base' \in [Sessions -> 0..made] /\ chain' \in [Sessions -> SUBSET Turns]
BY DEF TypeOK, MoveRefs

\* A step that makes no commit and no record leaves these types as they are.
SameBounds == UNCHANGED <<branch, made, thrown, recorded>>

Rest ==
    /\ base \in [Sessions -> 0..made]
    /\ chain \in [Sessions -> SUBSET Turns]
    /\ refFile \in SUBSET Sessions /\ refFile # {}
    /\ trailer \subseteq Turns
    /\ signal \in BOOLEAN /\ hooks \in BOOLEAN
    /\ life \in {"down", "up", "once", "asked"}
    /\ cur \in Sessions
    /\ lastHead \in 1..made
    /\ step \in {"idle", "link", "render", "write", "fold", "hook", "mark"}
    /\ job \in [base : 0..made, turns : SUBSET (1..(recorded + 1))]
    /\ step # "link" => job.turns \subseteq Turns
    /\ life = "down" => step = "idle"
    /\ worker \in [reading : BOOLEAN, turns : SUBSET Turns, late : BOOLEAN]
    /\ user \in {"idle", "editing", "landed", "advanced"}
    /\ draft \in [amend : BOOLEAN, head : 0..made, turns : SUBSET Turns]

LEMMA WorkerFields ==
  ASSUME NEW T, NEW w \in [reading : BOOLEAN, turns : SUBSET T, late : BOOLEAN],
         NEW r \in BOOLEAN, NEW l \in BOOLEAN, NEW t \in SUBSET T
  PROVE  /\ [w EXCEPT !.late = l] \in [reading : BOOLEAN, turns : SUBSET T, late : BOOLEAN]
         /\ [w EXCEPT !.reading = r, !.turns = t]
                \in [reading : BOOLEAN, turns : SUBSET T, late : BOOLEAN]
         /\ [reading |-> r, turns |-> t, late |-> l]
                \in [reading : BOOLEAN, turns : SUBSET T, late : BOOLEAN]
OBVIOUS

LEMMA BudgetStep ==
  ASSUME TypeOK, [Next]_vars
  PROVE  budget' \in [Events -> Nat]
<1>1. \A e \in Events : Spend(e) => budget' \in [Events -> Nat]
  BY DEF Spend, TypeOK
<1>2. budget' = budget \/ \E e \in Events : Spend(e)
  <2>1. {"commits", "folds", "drops", "ends", "summaries"} = Events
    BY DEF Events
  <2>2. ASSUME Tracker PROVE budget' = budget \/ \E e \in Events : Spend(e)
    BY <2>1, <2>2 DEF Tracker, RecordRead, RecordLink, RenderRead, RenderWrite, SummaryRead,
       SummaryWrite, Service, Flush, FoldRead, FoldCommit, FoldFails, FoldHook, MarkFolded,
       Start, Setup, SyncOnce, Discard, Finish, Stop, Crash
  <2>3. ASSUME Git PROVE budget' = budget \/ \E e \in Events : Spend(e)
    BY <2>1, <2>3 DEF Git, StartCommit, Abort, Land, AdvanceRefs, ClearTrailer, NoAdvance, Reset
  <2> QED
    BY <2>2, <2>3 DEF Next, vars
<1> QED
  BY <1>1, <1>2 DEF TypeOK

\* Most steps make neither a commit nor a record.
LEMMA RestOfTracker ==
  ASSUME TypeOK,
         \/ RecordRead \/ RenderRead \/ RenderWrite \/ SummaryRead \/ SummaryWrite
         \/ Service \/ Flush \/ FoldRead \/ FoldFails \/ FoldHook \/ MarkFolded
         \/ Finish \/ Stop \/ Crash \/ Discard \/ SyncOnce \/ \E s \in Sessions : Start(s)
  PROVE  SameBounds /\ Rest'
<1> USE DEF SameBounds, repoVars, refVars, fileVars, trackerVars, userVars, history, Goto
<1>t. Rest /\ Turns = 1..recorded /\ recorded \in Nat /\ made \in Nat
  BY DEF TypeOK, Rest, Turns
<1>n. /\ NoJob \in [base : 0..made, turns : SUBSET (1..(recorded + 1))] /\ NoJob.turns \subseteq Turns
      /\ Resting \in [reading : BOOLEAN, turns : SUBSET Turns, late : BOOLEAN]
  BY <1>t DEF NoJob, Resting
<1>1. ASSUME RecordRead PROVE SameBounds /\ Rest'
  <2>1. /\ PendingOn(cur) \cup {recorded + 1} \subseteq 1..(recorded + 1)
        /\ Parent \in 0..made
    BY <1>t, PendingTypes DEF Rest, Turns
  <2>2. job' \in [base : 0..made, turns : SUBSET (1..(recorded + 1))] /\ step' = "link"
    BY <1>1, <2>1 DEF RecordRead
  <2> QED
    BY <1>1, <1>t, <2>2 DEF RecordRead, Rest, Turns
<1>2. ASSUME RenderRead PROVE SameBounds /\ Rest'
  <2>1. job' \in [base : 0..made, turns : SUBSET (1..(recorded + 1))] /\ job'.turns \subseteq Turns
    BY <1>2, <1>t, PendingTypes DEF RenderRead
  <2> QED
    BY <1>2, <1>t, <2>1, PendingTypes DEF RenderRead, Rest, Turns
<1>3. ASSUME RenderWrite PROVE SameBounds /\ Rest'
  <2>1. worker' \in [reading : BOOLEAN, turns : SUBSET Turns, late : BOOLEAN]
    BY <1>3, <1>t, WorkerFields DEF RenderWrite, Rest
  <2>2. job.turns \subseteq Turns
    BY <1>3, <1>t DEF RenderWrite, Rest
  <2> QED
    BY <1>3, <1>t, <1>n, <2>1, <2>2 DEF RenderWrite, Rest, Turns
<1>4. ASSUME SummaryRead PROVE SameBounds /\ Rest'
  <2>1. worker' \in [reading : BOOLEAN, turns : SUBSET Turns, late : BOOLEAN]
    BY <1>4, <1>t, WorkerFields, PendingTypes DEF SummaryRead, Rest
  <2> QED
    BY <1>4, <1>t, <2>1, PendingTypes DEF SummaryRead, Rest, Turns
<1>5. ASSUME SummaryWrite PROVE SameBounds /\ Rest'
  <2>1. worker' \in [reading : BOOLEAN, turns : SUBSET Turns, late : BOOLEAN]
    <3> DEFINE b == worker.turns # Pending
    <3>1. b \in BOOLEAN
      OBVIOUS
    <3>2. worker' = [Resting EXCEPT !.late = b]
      BY <1>5 DEF SummaryWrite
    <3> HIDE DEF b
    <3> QED
      BY <1>n, <3>1, <3>2, WorkerFields
  <2>2. worker.turns \subseteq Turns
    BY <1>t DEF Rest
  <2> QED
    BY <1>5, <1>t, <2>1, <2>2 DEF SummaryWrite, Rest, Turns
<1>6. ASSUME Service PROVE SameBounds /\ Rest'
  <2>1. base' \in [Sessions -> 0..made] /\ chain' \in [Sessions -> SUBSET Turns] /\ Tip.id \in 1..made
    BY <1>6, <1>t, TipFacts, MoveRefsTypes DEF Service
  <2> QED
    BY <1>6, <1>t, <1>n, <2>1 DEF Service, Rest, Turns
<1>7. ASSUME Flush PROVE SameBounds /\ Rest'
  BY <1>7, <1>t, <1>n DEF Flush, Rest, Turns
<1>8. ASSUME FoldRead PROVE SameBounds /\ Rest'
  <2>1. job' \in [base : 0..made, turns : SUBSET (1..(recorded + 1))] /\ job'.turns \subseteq Turns
    BY <1>8, <1>t, PendingTypes, TipFacts DEF FoldRead
  <2> QED
    BY <1>8, <1>t, <2>1 DEF FoldRead, Rest, Turns
<1>9. ASSUME FoldFails PROVE SameBounds /\ Rest'
  BY <1>9, <1>t, <1>n DEF FoldFails, Rest, Turns
<1>10. ASSUME FoldHook PROVE SameBounds /\ Rest'
  <2>1. base' \in [Sessions -> 0..made] /\ chain' \in [Sessions -> SUBSET Turns]
    <3>1. CASE Folded
      BY <1>10, <1>t, <3>1, TipFacts, MoveRefsTypes DEF FoldHook
    <3>2. CASE ~Folded
      BY <1>10, <1>t, <3>2 DEF FoldHook, Rest
    <3> QED
      BY <3>1, <3>2
  <2>2. trailer' \subseteq Turns /\ signal' \in BOOLEAN
    BY <1>10, <1>t DEF FoldHook, Rest
  <2> QED
    BY <1>10, <1>t, <2>1, <2>2 DEF FoldHook, Rest, Turns
<1>11. ASSUME MarkFolded PROVE SameBounds /\ Rest'
  <2>1. base' \in [Sessions -> 0..made] /\ chain' \in [Sessions -> SUBSET Turns] /\ Tip.id \in 1..made
    BY <1>11, <1>t, TipFacts, MoveRefsTypes DEF MarkFolded
  <2> QED
    BY <1>11, <1>t, <1>n, <2>1 DEF MarkFolded, Rest, Turns
<1>12. ASSUME Finish PROVE SameBounds /\ Rest'
  BY <1>12, <1>t DEF Finish, Rest, Turns
<1>13. ASSUME Stop PROVE SameBounds /\ Rest'
  BY <1>13, <1>t, <1>n DEF Stop, Rest, Turns
<1>14. ASSUME Crash PROVE SameBounds /\ Rest'
  BY <1>14, <1>t, <1>n DEF Crash, Rest, Turns
<1>15. ASSUME Discard PROVE SameBounds /\ Rest'
  <2>1. base' \in [Sessions -> 0..made] /\ chain' \in [Sessions -> SUBSET Turns] /\ Tip.id \in 1..made
    BY <1>15, <1>t, TipFacts, MoveRefsTypes DEF Discard
  <2> QED
    BY <1>15, <1>t, <1>n, <2>1 DEF Discard, Rest, Turns
<1>16. ASSUME NEW s \in Sessions, Setup(s), life' \in {"up", "once"} PROVE SameBounds /\ Rest'
  <2>1. base' \in [Sessions -> 0..made] /\ chain' \in [Sessions -> SUBSET Turns] /\ Tip.id \in 1..made
    BY <1>16, <1>t, TipFacts, MoveRefsTypes DEF Setup
  <2>2. signal' \in BOOLEAN
    BY <1>16, <1>t DEF Setup, Rest
  <2> QED
    BY <1>16, <1>t, <1>n, <2>1, <2>2 DEF Setup, Rest, Turns
<1> QED
  <2>1. cur \in Sessions
    BY <1>t DEF Rest
  <2> QED
    BY <1>1, <1>2, <1>3, <1>4, <1>5, <1>6, <1>7, <1>8, <1>9, <1>10, <1>11, <1>12, <1>13, <1>14,
       <1>15, <1>16, <2>1 DEF SyncOnce, Start

LEMMA RestOfGit ==
  ASSUME TypeOK,
         \/ \E amend \in BOOLEAN : StartCommit(amend)
         \/ Abort \/ AdvanceRefs \/ ClearTrailer \/ NoAdvance
  PROVE  SameBounds /\ Rest'
<1> USE DEF SameBounds, repoVars, refVars, fileVars, trackerVars, userVars, history
<1>t. Rest /\ Turns = 1..recorded /\ recorded \in Nat /\ made \in Nat
  BY DEF TypeOK, Rest, Turns
<1>n. NoDraft \in [amend : BOOLEAN, head : 0..made, turns : SUBSET Turns]
  BY <1>t DEF NoDraft
<1>1. ASSUME NEW amend \in BOOLEAN, StartCommit(amend) PROVE SameBounds /\ Rest'
  <2> DEFINE text == IF amend THEN Tip.turns ELSE IF hooks THEN trailer ELSE {}
  <2>1. text \in SUBSET Turns /\ Tip.id \in 0..made
    BY <1>t, TipFacts DEF Rest
  <2>2. draft' = [amend |-> amend, head |-> Tip.id, turns |-> text]
    BY <1>1 DEF StartCommit
  <2> HIDE DEF text
  <2>3. draft' \in [amend : BOOLEAN, head : 0..made, turns : SUBSET Turns]
    BY <2>1, <2>2
  <2> QED
    BY <1>1, <1>t, <2>3 DEF StartCommit, Rest, Turns
<1>2. ASSUME Abort PROVE SameBounds /\ Rest'
  BY <1>2, <1>t, <1>n DEF Abort, Rest, Turns
<1>3. ASSUME AdvanceRefs PROVE SameBounds /\ Rest'
  <2>1. base' \in [Sessions -> 0..made] /\ chain' \in [Sessions -> SUBSET Turns]
    BY <1>3, <1>t, TipFacts, MoveRefsTypes DEF AdvanceRefs
  <2> QED
    BY <1>3, <1>t, <2>1 DEF AdvanceRefs, Rest, Turns
<1>4. ASSUME ClearTrailer PROVE SameBounds /\ Rest'
  BY <1>4, <1>t, <1>n DEF ClearTrailer, Rest, Turns
<1>5. ASSUME NoAdvance PROVE SameBounds /\ Rest'
  BY <1>5, <1>t, <1>n DEF NoAdvance, Rest, Turns
<1> QED
  BY <1>1, <1>2, <1>3, <1>4, <1>5

\* What RecordLink, FoldCommit, Land and Reset do to the branch and to the bounds.
BranchTyped ==
    /\ branch \in Seq(Commit) /\ branch # <<>>
    /\ made \in Nat /\ recorded \in Nat
    /\ thrown \subseteq 1..made

LEMMA TypeParts == TypeOK <=> BranchTyped /\ Rest /\ budget \in [Events -> Nat]
BY DEF TypeOK, BranchTyped, Rest, Commit

LEMMA Widened ==
  ASSUME TypeOK, made' \in {made, made + 1}, recorded' \in {recorded, recorded + 1}
  PROVE  /\ Commit \subseteq Commit' /\ Turns \subseteq Turns' /\ Turns' = 1..recorded'
         /\ 0..made \subseteq 0..made' /\ 1..made \subseteq 1..made'
         /\ 1..(recorded + 1) \subseteq 1..(recorded' + 1)
         /\ made' \in Nat /\ recorded' \in Nat
<1>1. made \in Nat /\ recorded \in Nat
  BY DEF TypeOK
<1>2. 1..made \subseteq 1..made' /\ 0..made \subseteq 0..made' /\ made' \in Nat /\ recorded' \in Nat
  BY <1>1
<1>3. Turns \subseteq Turns' /\ Turns' = 1..recorded' /\ 1..(recorded + 1) \subseteq 1..(recorded' + 1)
  <2>1. Turns = 1..recorded /\ Turns' = 1..recorded'
    BY DEF Turns
  <2>2. CASE recorded' = recorded
    BY <1>1, <2>1, <2>2
  <2>3. CASE recorded' = recorded + 1
    BY <1>1, <2>1, <2>3
  <2> QED
    BY <2>2, <2>3
<1>4. Commit \subseteq Commit'
  <2>1. SUBSET Turns \subseteq SUBSET Turns'
    BY <1>3
  <2> QED
    BY <1>2, <2>1 DEF Commit
<1> QED
  BY <1>1, <1>2, <1>3, <1>4

LEMMA SeqWidened ==
  ASSUME NEW S, NEW T, S \subseteq T, NEW s \in Seq(S)
  PROVE  s \in Seq(T)
OBVIOUS

LEMMA RestWidened ==
  ASSUME TypeOK, made' \in {made, made + 1}, recorded' \in {recorded, recorded + 1},
         UNCHANGED <<fileVars, life, cur, lastHead, worker, draft>>,
         base' \in [Sessions -> 0..made'] /\ chain' \in [Sessions -> SUBSET Turns'],
         step' \in {"idle", "link", "render", "write", "fold", "hook", "mark"},
         job' \in [base : 0..made', turns : SUBSET (1..(recorded' + 1))],
         step' # "link" => job'.turns \subseteq Turns',
         life = "down" => step' = "idle",
         user' \in {"idle", "editing", "landed", "advanced"}
  PROVE  Rest'
<1> USE DEF fileVars
<1>1. Rest
  BY TypeParts
<1>2. refFile' \in SUBSET Sessions /\ refFile' # {} /\ trailer' \subseteq Turns'
  BY <1>1, Widened DEF Rest
<1>4. worker' \in [reading : BOOLEAN, turns : SUBSET Turns', late : BOOLEAN]
  <2>1. worker' = worker /\ SUBSET Turns \subseteq SUBSET Turns'
    BY Widened
  <2>2. worker \in [reading : BOOLEAN, turns : SUBSET Turns, late : BOOLEAN]
    BY <1>1 DEF Rest
  <2> QED
    BY <2>1, <2>2
<1>5. draft' \in [amend : BOOLEAN, head : 0..made', turns : SUBSET Turns']
  <2>1. draft' = draft /\ SUBSET Turns \subseteq SUBSET Turns' /\ 0..made \subseteq 0..made'
    BY Widened
  <2>2. draft \in [amend : BOOLEAN, head : 0..made, turns : SUBSET Turns]
    BY <1>1 DEF Rest
  <2> QED
    BY <2>1, <2>2
<1>6. lastHead' \in 1..made'
  BY <1>1, Widened DEF Rest
<1>7. /\ signal' \in BOOLEAN /\ hooks' \in BOOLEAN
      /\ life' \in {"down", "up", "once", "asked"} /\ life' = life
      /\ cur' \in Sessions
  BY <1>1 DEF Rest
<1> QED
  BY <1>2, <1>4, <1>5, <1>6, <1>7 DEF Rest

LEMMA TypeInit == Init => TypeOK
<1> SUFFICES ASSUME Init PROVE TypeOK
  OBVIOUS
<1>1. Turns = {}
  BY DEF Init, Turns
<1>2. branch \in Seq([id : 1..made, turns : SUBSET Turns]) /\ branch # <<>>
  BY DEF Init
<1>3. /\ NoJob \in [base : 0..made, turns : SUBSET (1..(recorded + 1))]
      /\ Resting \in [reading : BOOLEAN, turns : SUBSET Turns, late : BOOLEAN]
      /\ NoDraft \in [amend : BOOLEAN, head : 0..made, turns : SUBSET Turns]
  BY DEF Init, NoJob, Resting, NoDraft
<1>4. base \in [Sessions -> 0..made] /\ chain \in [Sessions -> SUBSET Turns]
  BY DEF Init
<1>5. /\ refFile \in SUBSET Sessions /\ refFile # {} /\ cur \in Sessions
      /\ budget \in [Events -> Nat]
  BY SessionsAssumption DEF Init
<1>6. /\ made = 1 /\ recorded = 0 /\ thrown = {} /\ lastHead = 1
      /\ trailer = {} /\ signal = FALSE /\ hooks = TRUE
      /\ life = "up" /\ step = "idle" /\ user = "idle"
      /\ job = NoJob /\ worker = Resting /\ draft = NoDraft
  BY DEF Init
<1>7. NoJob.turns = {}
  BY DEF NoJob
<1>8. made \in Nat /\ recorded \in Nat /\ thrown \subseteq 1..made /\ lastHead \in 1..made
  BY <1>6
<1>9. trailer \subseteq Turns /\ signal \in BOOLEAN /\ hooks \in BOOLEAN
  BY <1>6
<1>10. /\ job \in [base : 0..made, turns : SUBSET (1..(recorded + 1))]
       /\ worker \in [reading : BOOLEAN, turns : SUBSET Turns, late : BOOLEAN]
       /\ draft \in [amend : BOOLEAN, head : 0..made, turns : SUBSET Turns]
  BY <1>3, <1>6
<1>11. /\ life \in {"down", "up", "once", "asked"} /\ (life = "down" => step = "idle")
       /\ step \in {"idle", "link", "render", "write", "fold", "hook", "mark"}
       /\ user \in {"idle", "editing", "landed", "advanced"}
       /\ (step # "link" => job.turns \subseteq Turns)
  BY <1>6, <1>7
<1> QED
  BY <1>2, <1>4, <1>5, <1>8, <1>9, <1>10, <1>11 DEF TypeOK

LEMMA TypeStep == TypeOK /\ [Next]_vars => TypeOK'
<1> SUFFICES ASSUME TypeOK, [Next]_vars PROVE BranchTyped' /\ Rest'
  BY TypeParts, BudgetStep DEF TypeOK, BranchTyped, Rest, Commit
<1>t. BranchTyped /\ Rest /\ Turns = 1..recorded
  BY TypeParts DEF Turns
<1>1. ASSUME SameBounds, Rest' PROVE BranchTyped' /\ Rest'
  BY <1>1, <1>t DEF SameBounds, BranchTyped, Commit, Turns
<1>2. ASSUME RecordLink PROVE BranchTyped' /\ Rest'
  <2>1. /\ UNCHANGED <<branch, made, thrown>> /\ recorded' = recorded + 1
        /\ step' = "render" /\ job' = NoJob /\ step = "link"
        /\ base' = [base EXCEPT ![cur] = job.base] /\ chain' = [chain EXCEPT ![cur] = job.turns]
        /\ UNCHANGED <<fileVars, life, cur, lastHead, worker, draft, user>>
    BY <1>2 DEF RecordLink, Goto, repoVars, userVars
  <2>2. BranchTyped'
    <3>1. branch \in Seq(Commit')
      BY <1>t, <2>1, Widened, SeqWidened DEF BranchTyped
    <3> QED
      BY <1>t, <2>1, <3>1, Widened DEF BranchTyped
  <2>3. base' \in [Sessions -> 0..made'] /\ chain' \in [Sessions -> SUBSET Turns']
    <3>1. job.base \in 0..made /\ job.turns \in SUBSET Turns'
      BY <1>t, <2>1, Widened DEF Rest
    <3>2. base \in [Sessions -> 0..made] /\ chain \in [Sessions -> SUBSET Turns']
      BY <1>t, <2>1, Widened DEF Rest
    <3> QED
      BY <2>1, <3>1, <3>2
  <2>4. job' \in [base : 0..made', turns : SUBSET (1..(recorded' + 1))] /\ job'.turns \subseteq Turns'
    BY <1>t, <2>1 DEF NoJob, BranchTyped
  <2>5. life # "down" /\ user' \in {"idle", "editing", "landed", "advanced"}
    BY <1>t, <2>1 DEF Rest
  <2>6. Rest'
    BY <2>1, <2>3, <2>4, <2>5, RestWidened
  <2> QED
    BY <2>2, <2>6
<1>3. ASSUME FoldCommit PROVE BranchTyped' /\ Rest'
  <2>1. /\ AppendCommit(job.turns) /\ UNCHANGED <<thrown, recorded>>
        /\ step = "fold" /\ step' = "hook" /\ job' = job
        /\ UNCHANGED <<fileVars, life, cur, lastHead, worker, draft, user, base, chain>>
    BY <1>3 DEF FoldCommit, Goto, refVars, userVars
  <2>2. made' = made + 1
    BY <2>1 DEF AppendCommit
  <2>3. BranchTyped'
    <3>1. [id |-> made + 1, turns |-> job.turns] \in Commit'
      BY <1>t, <2>1, <2>2 DEF Rest, BranchTyped, Commit, Turns
    <3>2. branch \in Seq(Commit')
      BY <1>t, <2>1, <2>2, Widened, SeqWidened DEF BranchTyped
    <3>3. branch' \in Seq(Commit') /\ branch' # <<>>
      BY <2>1, <3>1, <3>2, Appended DEF AppendCommit
    <3> QED
      BY <1>t, <2>1, <2>2, <3>3, Widened DEF BranchTyped
  <2>4. /\ base' \in [Sessions -> 0..made'] /\ chain' \in [Sessions -> SUBSET Turns']
        /\ job' \in [base : 0..made', turns : SUBSET (1..(recorded' + 1))]
        /\ job'.turns \subseteq Turns' /\ life # "down"
        /\ user' \in {"idle", "editing", "landed", "advanced"}
    BY <1>t, <2>1, <2>2, Widened DEF Rest
  <2>5. Rest'
    BY <2>1, <2>2, <2>4, RestWidened
  <2> QED
    BY <2>3, <2>5
<1>4. ASSUME Land PROVE BranchTyped' /\ Rest'
  <2>1. /\ made' = made + 1 /\ UNCHANGED <<thrown, recorded>> /\ user' = "landed"
        /\ branch' = Append(IF draft.amend THEN Front(branch) ELSE branch,
                            [id |-> made + 1, turns |-> draft.turns])
        /\ UNCHANGED <<fileVars, life, cur, lastHead, worker, draft, base, chain, step, job>>
    BY <1>4 DEF Land, refVars, trackerVars, history
  <2>2. BranchTyped'
    <3>1. [id |-> made + 1, turns |-> draft.turns] \in Commit'
      BY <1>t, <2>1 DEF Rest, BranchTyped, Commit, Turns
    <3>2. (IF draft.amend THEN Front(branch) ELSE branch) \in Seq(Commit)
      BY <1>t, Fronted DEF BranchTyped
    <3>3. (IF draft.amend THEN Front(branch) ELSE branch) \in Seq(Commit')
      BY <2>1, <3>2, Widened, SeqWidened
    <3>4. branch' \in Seq(Commit') /\ branch' # <<>>
      BY <2>1, <3>1, <3>3, Appended
    <3> QED
      BY <1>t, <2>1, <3>4, Widened DEF BranchTyped
  <2>3. /\ base' \in [Sessions -> 0..made'] /\ chain' \in [Sessions -> SUBSET Turns']
        /\ job' \in [base : 0..made', turns : SUBSET (1..(recorded' + 1))]
        /\ (step' # "link" => job'.turns \subseteq Turns') /\ (life = "down" => step' = "idle")
        /\ step' \in {"idle", "link", "render", "write", "fold", "hook", "mark"}
    BY <1>t, <2>1, Widened DEF Rest
  <2>4. Rest'
    BY <2>1, <2>3, RestWidened
  <2> QED
    BY <2>2, <2>4
<1>5. ASSUME Reset PROVE BranchTyped' /\ Rest'
  <2>1. /\ UNCHANGED <<made, recorded, refVars, fileVars, trackerVars, worker, userVars>>
        /\ branch' = Front(branch) /\ Len(branch) > 1 /\ thrown' = thrown \cup {Tip.id}
    BY <1>5 DEF Reset
  <2>2. Rest'
    BY <1>t, <2>1 DEF Rest, refVars, fileVars, trackerVars, userVars, Turns
  <2>3. branch' \in Seq(Commit) /\ Len(branch') = Len(branch) - 1
    BY <1>t, <2>1, Fronted DEF BranchTyped
  <2>4. branch' # <<>>
    BY <2>1, <2>3, TipFacts, EmptySeq
  <2> QED
    BY <1>t, <2>1, <2>2, <2>3, <2>4, TipFacts DEF BranchTyped, Commit, Turns
<1>6. ASSUME UNCHANGED vars PROVE BranchTyped' /\ Rest'
  BY <1>6, <1>t DEF vars, repoVars, refVars, fileVars, trackerVars, userVars, history, BranchTyped,
     Rest, Commit, Turns
<1>7. ASSUME Tracker PROVE BranchTyped' /\ Rest'
  BY <1>7, <1>1, <1>2, <1>3, RestOfTracker DEF Tracker
<1>8. ASSUME Git PROVE BranchTyped' /\ Rest'
  BY <1>8, <1>1, <1>4, <1>5, RestOfGit DEF Git
<1> QED
  BY <1>6, <1>7, <1>8 DEF Next

\* The refs, the hooks' files and the readings of every thread keep their types.
THEOREM TypeCorrect == Spec => []TypeOK
BY TypeInit, TypeStep, PTL DEF Spec

-----------------------------------------------------------------------------
(* The branch: turns leave it by a reset only, which counts as dropping    *)
(* them.                                                                   *)

LEMMA Histories ==
  ASSUME [Next]_vars
  PROVE  dropped \subseteq dropped' /\ overtaken \subseteq overtaken'
<1>1. CASE Tracker
  BY <1>1 DEF Tracker, RecordRead, RecordLink, RenderRead, RenderWrite, SummaryRead,
     SummaryWrite, Service, Flush, FoldRead, FoldCommit, FoldFails, FoldHook, MarkFolded,
     Start, Setup, SyncOnce, Discard, Finish, Stop, Crash, history
<1>2. CASE Git
  BY <1>2 DEF Git, StartCommit, Abort, Land, AdvanceRefs, ClearTrailer, NoAdvance, Reset, history
<1>3. CASE UNCHANGED vars
  BY <1>3 DEF vars, history
<1> QED
  BY <1>1, <1>2, <1>3 DEF Next

\* Every step but these three leaves the branch alone.
LEMMA BranchAlone ==
  ASSUME TypeOK, [Next]_vars, ~FoldCommit, ~Land, ~Reset
  PROVE  UNCHANGED <<branch, made, thrown>>
<1>1. CASE Tracker
  <2>1. CASE RecordLink
    BY <2>1 DEF RecordLink, repoVars
  <2> QED
    BY <1>1, <2>1, RestOfTracker DEF Tracker, SameBounds
<1>2. CASE Git
  BY <1>2, RestOfGit DEF Git, SameBounds
<1>3. CASE UNCHANGED vars
  BY <1>3 DEF vars, repoVars
<1> QED
  BY <1>1, <1>2, <1>3 DEF Next

\* A new commit on top of what is left of the branch.
LEMMA OneMore ==
  ASSUME TypeOK, InOrder, NEW kept \in {branch, Front(branch)}, NEW turns,
         branch' = Append(kept, [id |-> made + 1, turns |-> turns]), thrown' = thrown
  PROVE  /\ InOrder'
         /\ \A i \in DOMAIN branch' : \/ i \in DOMAIN branch /\ branch'[i] = branch[i]
                                      \/ branch'[i] = [id |-> made + 1, turns |-> turns]
         /\ \A i \in DOMAIN kept : i \in DOMAIN branch' /\ branch'[i] = branch[i]
         /\ turns \subseteq OnBranch'
<1> DEFINE new == [id |-> made + 1, turns |-> turns]
           n == Len(kept) + 1
<1>0. new.id = made + 1 /\ new.turns = turns
  OBVIOUS
<1>1. /\ made \in Nat /\ thrown \subseteq 1..made /\ branch \in Seq(Commit) /\ branch # <<>>
      /\ \A i \in DOMAIN branch : branch[i].id \in 1..made
  BY TipFacts DEF TypeOK, Commit
<1>2. /\ kept \in Seq(Commit) /\ DOMAIN kept \subseteq DOMAIN branch
      /\ \A i \in DOMAIN kept : kept[i] = branch[i]
  BY <1>1, Fronted
<1>3. branch' = Append(kept, new)
  OBVIOUS
<1> HIDE DEF new
<1>4. /\ DOMAIN branch' = DOMAIN kept \cup {n}
      /\ \A i \in DOMAIN kept : branch'[i] = kept[i] /\ i < n
      /\ branch'[n] = new
  BY <1>2, <1>3, Appended
<1>5. DOMAIN kept = 1..Len(kept) /\ Len(kept) \in Nat
  BY <1>2, LenProperties
<1> HIDE DEF n
<1>6. \A i \in DOMAIN kept : i \in Int /\ branch'[i] = branch[i] /\ branch[i].id \in 1..made
  BY <1>1, <1>2, <1>4, <1>5
<1>7. \A i, j \in DOMAIN branch' : i < j => branch'[i].id < branch'[j].id
  <2> SUFFICES ASSUME NEW i \in DOMAIN branch', NEW j \in DOMAIN branch', i < j
               PROVE  branch'[i].id < branch'[j].id
    OBVIOUS
  <2>1. i \in DOMAIN kept
    <3>1. n \in Int
      BY <1>5 DEF n
    <3> QED
      BY <1>4, <1>6, <3>1
  <2>2. CASE j \in DOMAIN kept
    BY <1>2, <1>6, <2>1, <2>2 DEF InOrder
  <2>3. CASE j = n
    BY <1>0, <1>1, <1>4, <1>6, <2>1, <2>3
  <2> QED
    BY <1>4, <2>2, <2>3
<1>8. \A i \in DOMAIN branch' : branch'[i].id \notin thrown'
  <2>1. made + 1 \notin thrown
    BY <1>1
  <2> QED
    BY <1>0, <1>2, <1>4, <2>1 DEF InOrder
<1>9. turns \subseteq OnBranch'
  BY <1>0, <1>4 DEF OnBranch
<1> QED
  BY <1>2, <1>4, <1>7, <1>8, <1>9 DEF InOrder, new

\* `git reset` takes the newest commit away.
LEMMA OneLess ==
  ASSUME TypeOK, InOrder, branch' = Front(branch), thrown' = thrown \cup {Tip.id}
  PROVE  /\ InOrder'
         /\ DOMAIN branch' = DOMAIN branch \ {Len(branch)}
         /\ \A i \in DOMAIN branch' : branch'[i] = branch[i]
<1>1. branch \in Seq(Commit) /\ branch # <<>>
  BY DEF TypeOK, Commit
<1>2. /\ DOMAIN branch' = DOMAIN branch \ {Len(branch)}
      /\ \A i \in DOMAIN branch' : branch'[i] = branch[i]
  BY <1>1, Fronted
<1>3. \A i \in DOMAIN branch' : branch'[i].id # Tip.id
  <2> SUFFICES ASSUME NEW i \in DOMAIN branch' PROVE branch[i].id # Tip.id
    BY <1>2
  <2>1. i < Len(branch) /\ i \in DOMAIN branch
    BY <1>2, TipFacts
  <2>2. branch[i].id < branch[Len(branch)].id
    BY <2>1, TipFacts DEF InOrder
  <2>3. branch[i].id \in Int /\ Tip = branch[Len(branch)]
    BY <2>1, TipFacts DEF Commit
  <2> QED
    BY <2>2, <2>3, TipFacts
<1> QED
  BY <1>2, <1>3 DEF InOrder

\* The newest commit is the only one with its number.
LEMMA TipAlone ==
  ASSUME TypeOK, InOrder, NEW i \in DOMAIN branch, branch[i].id = Tip.id
  PROVE  i = Len(branch)
<1>1. /\ i \in Int /\ i <= Len(branch) /\ Len(branch) \in DOMAIN branch /\ Len(branch) \in Int
      /\ Tip = branch[Len(branch)]
  BY TipFacts
<1>2. branch[i].id \in Int /\ branch[Len(branch)].id \in Int
  BY <1>1, TipFacts DEF Commit
<1>3. i < Len(branch) => branch[i].id < branch[Len(branch)].id
  BY <1>1 DEF InOrder
<1> QED
  BY <1>1, <1>2, <1>3

LEMMA BranchStep ==
  ASSUME TypeOK, InOrder, AmendKeeps, [Next]_vars
  PROVE  InOrder' /\ Left \subseteq Left'
<1>h. dropped \subseteq dropped' /\ overtaken \subseteq overtaken'
  BY Histories
<1>1. ASSUME UNCHANGED <<branch, thrown>> PROVE InOrder' /\ OnBranch \subseteq Left'
  BY <1>1 DEF InOrder, OnBranch, Left
<1>2. ASSUME NEW turns, branch' = Append(branch, [id |-> made + 1, turns |-> turns]), thrown' = thrown
      PROVE  InOrder' /\ OnBranch \subseteq Left'
  <2>1. InOrder' /\ \A i \in DOMAIN branch : i \in DOMAIN branch' /\ branch'[i] = branch[i]
    BY <1>2, OneMore
  <2> QED
    BY <2>1 DEF OnBranch, Left
<1>3. ASSUME FoldCommit PROVE InOrder' /\ OnBranch \subseteq Left'
  BY <1>2, <1>3 DEF FoldCommit, AppendCommit
<1>4. ASSUME Land PROVE InOrder' /\ OnBranch \subseteq Left'
  <2>1. CASE ~draft.amend
    BY <1>2, <1>4, <2>1 DEF Land
  <2>2. CASE draft.amend
    <3>1. /\ branch' = Append(Front(branch), [id |-> made + 1, turns |-> draft.turns])
          /\ thrown' = thrown /\ user = "editing" /\ draft.head = Tip.id
      BY <1>4, <2>2 DEF Land
    <3>2. /\ InOrder' /\ draft.turns \subseteq OnBranch'
          /\ \A i \in DOMAIN Front(branch) : i \in DOMAIN branch' /\ branch'[i] = branch[i]
      BY <3>1, OneMore
    <3>3. DOMAIN Front(branch) = DOMAIN branch \ {Len(branch)}
      BY Fronted DEF TypeOK
    <3>4. branch[Len(branch)].turns = draft.turns
      BY <2>2, <3>1, TipFacts DEF AmendKeeps
    <3> QED
      BY <3>2, <3>3, <3>4 DEF OnBranch, Left
  <2> QED
    BY <2>1, <2>2
<1>5. ASSUME Reset PROVE InOrder' /\ OnBranch \subseteq Left'
  <2>1. branch' = Front(branch) /\ thrown' = thrown \cup {Tip.id} /\ Tip.turns \subseteq dropped'
    BY <1>5 DEF Reset
  <2>2. /\ InOrder' /\ DOMAIN branch' = DOMAIN branch \ {Len(branch)}
        /\ \A i \in DOMAIN branch' : branch'[i] = branch[i]
    BY <2>1, OneLess
  <2>3. Tip = branch[Len(branch)]
    BY TipFacts
  <2> QED
    BY <2>1, <2>2, <2>3 DEF OnBranch, Left
<1>6. InOrder' /\ OnBranch \subseteq Left'
  BY <1>1, <1>3, <1>4, <1>5, BranchAlone
<1> QED
  BY <1>6, <1>h DEF Left

\* The commit an amend replaces stays as it was until the amend lands.
LEMMA AmendStep ==
  ASSUME TypeOK, InOrder, AmendKeeps, [Next]_vars
  PROVE  AmendKeeps'
<1> SUFFICES ASSUME user' = "editing", draft'.amend, NEW i \in DOMAIN branch',
                    branch'[i].id = draft'.head
             PROVE  branch'[i].turns = draft'.turns
  BY DEF AmendKeeps
<1>1. CASE \E amend \in BOOLEAN : StartCommit(amend)
  <2>1. PICK amend \in BOOLEAN : StartCommit(amend)
    BY <1>1
  <2>2. /\ branch' = branch /\ draft'.amend = amend /\ draft'.head = Tip.id
        /\ draft'.turns = IF amend THEN Tip.turns ELSE IF hooks THEN trailer ELSE {}
    BY <2>1 DEF StartCommit, repoVars
  <2>3. i = Len(branch)
    BY <2>2, TipAlone
  <2> QED
    BY <2>2, <2>3, TipFacts
<1>2. ASSUME ~\E amend \in BOOLEAN : StartCommit(amend)
      PROVE  user = "editing" /\ draft' = draft
  <2>1. CASE Tracker
    BY <2>1 DEF Tracker, RecordRead, RecordLink, RenderRead, RenderWrite, SummaryRead,
       SummaryWrite, Service, Flush, FoldRead, FoldCommit, FoldFails, FoldHook, MarkFolded,
       Start, Setup, SyncOnce, Discard, Finish, Stop, Crash, userVars
  <2>2. CASE Git
    BY <1>2, <2>2 DEF Git, Abort, Land, AdvanceRefs, ClearTrailer, NoAdvance, Reset, userVars
  <2>3. CASE UNCHANGED vars
    BY <2>3 DEF vars, userVars
  <2> QED
    BY <2>1, <2>2, <2>3 DEF Next
<1>3. ASSUME user = "editing", draft' = draft, i \in DOMAIN branch, branch'[i] = branch[i]
      PROVE  branch'[i].turns = draft'.turns
  BY <1>3 DEF AmendKeeps
<1>4. ASSUME FoldCommit, user = "editing", draft' = draft PROVE branch'[i].turns = draft'.turns
  <2>1. \/ i \in DOMAIN branch /\ branch'[i] = branch[i]
        \/ branch'[i] = [id |-> made + 1, turns |-> job.turns]
    BY <1>4, OneMore DEF FoldCommit, AppendCommit
  <2>2. draft.head \in 0..made /\ made \in Nat
    BY DEF TypeOK
  <2>3. branch'[i] # [id |-> made + 1, turns |-> job.turns]
    BY <1>4, <2>2
  <2> QED
    BY <1>3, <1>4, <2>1, <2>3
<1>5. ASSUME Reset, user = "editing", draft' = draft PROVE branch'[i].turns = draft'.turns
  <2>1. i \in DOMAIN branch /\ branch'[i] = branch[i]
    BY <1>5, OneLess DEF Reset
  <2> QED
    BY <1>3, <1>5, <2>1
<1>6. ~Land
  BY DEF Land
<1>7. CASE UNCHANGED <<branch, made, thrown>> /\ ~\E amend \in BOOLEAN : StartCommit(amend)
  BY <1>2, <1>3, <1>7
<1>8. ASSUME FoldCommit \/ Reset PROVE user = "editing" /\ draft' = draft
  BY <1>8 DEF FoldCommit, Reset, userVars
<1> QED
  BY <1>1, <1>4, <1>5, <1>6, <1>7, <1>8, BranchAlone

-----------------------------------------------------------------------------
(* The refs: what leaves them is in a commit, dropped, or overtaken.       *)

\* The steps that move no ref and make no record.
RefsAlone == UNCHANGED <<base, chain, recorded>>

LEMMA RefsAloneSteps ==
  ASSUME [Next]_vars, ~RecordLink, ~Service, ~FoldHook, ~MarkFolded, ~Discard, ~AdvanceRefs,
         ~\E s \in Sessions : Setup(s), TypeOK
  PROVE  RefsAlone
<1>1. CASE Tracker
  <2>1. ~SyncOnce /\ ~\E s \in Sessions : Start(s)
    BY DEF SyncOnce, Start, TypeOK
  <2> QED
    BY <1>1, <2>1 DEF Tracker, RecordRead, RenderRead, RenderWrite, SummaryRead, SummaryWrite, Flush,
       FoldRead, FoldCommit, FoldFails, Finish, Stop, Crash, refVars, history, RefsAlone
<1>2. CASE Git
  BY <1>2 DEF Git, StartCommit, Abort, Land, ClearTrailer, NoAdvance, Reset, refVars, history,
     RefsAlone
<1>3. CASE UNCHANGED vars
  BY <1>3 DEF vars, refVars, history, RefsAlone
<1> QED
  BY <1>1, <1>2, <1>3 DEF Next

\* Moving refs onto a commit adds nothing to what is pending.
LEMMA Moved ==
  ASSUME TypeOK, NEW refs, NEW id, MoveRefs(refs, id), thrown' = thrown
  PROVE  \A s \in Sessions : PendingOn(s)' = IF s \in refs THEN {} ELSE PendingOn(s)
BY DEF MoveRefs, PendingOn, TypeOK

\* No pending turn goes anywhere but into a commit, away by the user's hand, or past the hook;
\* and the turn a record makes is pending, unless a reset threw it away before it was linked.
LEMMA PendingStep ==
  ASSUME TypeOK, InOrder, AmendKeeps, ReadsCover, [Next]_vars
  PROVE  /\ Pending \subseteq Pending' \cup Left'
         /\ Turns' \subseteq Turns \cup Pending' \cup Left'
<1> SUFFICES /\ \A s \in Sessions : PendingOn(s) \subseteq PendingOn(s)' \cup Left'
             /\ Turns' \subseteq Turns \cup Pending' \cup Left'
  BY DEF Pending, PendingIn
<1>l. Left \subseteq Left' /\ dropped' \subseteq Left' /\ overtaken' \subseteq Left' /\ OnBranch' \subseteq Left'
  BY BranchStep DEF Left
<1>1. CASE RecordLink
  <2>1. /\ thrown' = thrown /\ dropped' = dropped /\ recorded' = recorded + 1 /\ step = "link"
        /\ base' = [base EXCEPT ![cur] = job.base]
        /\ chain' = [chain EXCEPT ![cur] = job.turns]
    BY <1>1 DEF RecordLink, repoVars
  <2>2. cur \in Sessions /\ base \in [Sessions -> 0..made] /\ chain \in [Sessions -> SUBSET Turns]
    BY DEF TypeOK
  <2>3. /\ base'[cur] = job.base /\ chain'[cur] = job.turns
        /\ \A s \in Sessions \ {cur} : base'[s] = base[s] /\ chain'[s] = chain[s]
    BY <2>1, <2>2
  <2>4. \A s \in Sessions \ {cur} : PendingOn(s)' = PendingOn(s)
    BY <2>1, <2>3 DEF PendingOn
  <2>5. job.turns \subseteq PendingOn(cur)' \cup Left'
    <3>1. PendingOn(cur)' = IF job.base \in thrown THEN {} ELSE job.turns
      <4>1. cur' = cur
        BY <1>1 DEF RecordLink
      <4> QED
        BY <2>1, <2>3, <4>1 DEF PendingOn
    <3>2. job.base \in thrown => job.turns \subseteq dropped'
      BY <2>1 DEF ReadsCover
    <3> QED
      BY <1>l, <3>1, <3>2
  <2>6. PendingOn(cur) \cup {recorded + 1} \subseteq PendingOn(cur)' \cup Left'
    BY <2>1, <2>5 DEF ReadsCover
  <2>7. Turns' \subseteq Turns \cup {recorded + 1}
    BY <2>1 DEF TypeOK, Turns
  <2>8. \A s \in Sessions : PendingOn(s)' \subseteq Pending'
    BY DEF Pending, PendingIn
  <2>9. cur' = cur
    BY <1>1 DEF RecordLink
  <2> QED
    BY <2>2, <2>4, <2>6, <2>7, <2>8, <2>9
<1>2. ASSUME recorded' = recorded, \A s \in Sessions : PendingOn(s) \subseteq PendingOn(s)' \cup Left'
      PROVE  /\ \A s \in Sessions : PendingOn(s) \subseteq PendingOn(s)' \cup Left'
             /\ Turns' \subseteq Turns \cup Pending' \cup Left'
  BY <1>2 DEF Turns
<1>3. ASSUME NEW refs, NEW id, MoveRefs(refs, id), thrown' = thrown, recorded' = recorded,
             \A s \in Sessions : s \in refs => PendingOn(s) \subseteq Left'
      PROVE  /\ \A s \in Sessions : PendingOn(s) \subseteq PendingOn(s)' \cup Left'
             /\ Turns' \subseteq Turns \cup Pending' \cup Left'
  BY <1>2, <1>3, Moved
<1>s. \A s \in Sessions : Stale(s) => PendingOn(s) = {}
  BY DEF Stale, PendingOn
<1>p. \A s \in Sessions : PendingOn(s) \subseteq Pending
  BY DEF Pending, PendingIn
<1>4. CASE Service
  <2>1. /\ MoveRefs({cur} \cap {s \in Sessions : Stale(s)}, Tip.id)
        /\ thrown' = thrown /\ recorded' = recorded
    BY <1>4 DEF Service, repoVars, history
  <2> QED
    BY <1>3, <1>s, <2>1
<1>5. CASE \E s \in Sessions : Setup(s)
  <2>1. /\ MoveRefs({r \in Sessions : Stale(r)}, Tip.id)
        /\ thrown' = thrown /\ recorded' = recorded
    BY <1>5 DEF Setup, repoVars, history
  <2> QED
    BY <1>3, <1>s, <2>1
<1>6. CASE FoldHook
  <2>1. thrown' = thrown /\ recorded' = recorded /\ step = "hook"
    BY <1>6 DEF FoldHook, repoVars, history
  <2>2. \A s \in Sessions : PendingOn(s) \subseteq Left'
    BY <1>l, <1>p, <2>1 DEF ReadsCover
  <2> QED
    BY <1>2, <2>1, <2>2
<1>7. CASE MarkFolded
  <2>1. thrown' = thrown /\ recorded' = recorded /\ step = "mark"
    BY <1>7 DEF MarkFolded, repoVars, history
  <2>2. \A s \in Sessions : PendingOn(s) \subseteq Left'
    BY <1>l, <1>p, <2>1 DEF ReadsCover
  <2> QED
    BY <1>2, <2>1, <2>2
<1>8. CASE Discard
  <2>1. recorded' = recorded /\ Pending \subseteq dropped'
    BY <1>8 DEF Discard
  <2> QED
    BY <1>2, <1>l, <1>p, <2>1
<1>9. CASE AdvanceRefs
  <2>1. /\ MoveRefs(refFile, Tip.id) /\ branch' = branch /\ thrown' = thrown /\ recorded' = recorded
        /\ Tip.turns # {}
        /\ overtaken' = overtaken \cup (PendingIn(refFile) \ OnBranch)
    BY <1>9 DEF AdvanceRefs, repoVars, Folded
  <2>2. \A s \in refFile : PendingOn(s) \subseteq overtaken' \cup OnBranch
    <3>1. \A s \in refFile : PendingOn(s) \subseteq PendingIn(refFile)
      BY DEF PendingIn
    <3> QED
      BY <2>1, <3>1
  <2>3. OnBranch \subseteq Left'
    BY <1>l DEF Left
  <2> QED
    BY <1>3, <1>l, <2>1, <2>2, <2>3
<1>10. CASE Reset
  <2>1. /\ UNCHANGED <<base, chain, recorded>> /\ thrown' = thrown \cup {Tip.id}
        /\ ChainedOn(Tip.id) \subseteq dropped'
    BY <1>10 DEF Reset, refVars
  <2>2. \A s \in Sessions : PendingOn(s) \subseteq PendingOn(s)' \cup dropped'
    <3>1. \A s \in Sessions : base[s] = Tip.id => chain[s] \subseteq dropped'
      BY <2>1 DEF ChainedOn
    <3> QED
      BY <2>1, <3>1 DEF PendingOn
  <2> QED
    BY <1>2, <1>l, <2>1, <2>2
<1>11. CASE ~Reset /\ RefsAlone
  <2>1. thrown' = thrown
    <3>1. CASE FoldCommit
      BY <3>1 DEF FoldCommit
    <3>2. CASE Land
      BY <3>2 DEF Land
    <3> QED
      BY <1>11, <3>1, <3>2, BranchAlone
  <2>2. \A s \in Sessions : PendingOn(s)' = PendingOn(s)
    BY <1>11, <2>1 DEF PendingOn, RefsAlone
  <2> QED
    BY <1>11, <1>2, <2>2 DEF RefsAlone
<1> QED
  BY <1>1, <1>4, <1>5, <1>6, <1>7, <1>8, <1>9, <1>10, <1>11, RefsAloneSteps

-----------------------------------------------------------------------------
(* The readings of the tracker's thread.                                   *)

\* What the user's git and the summary thread do leaves those readings alone, and adds nothing
\* to what is pending.
Outside == Git \/ SummaryRead \/ SummaryWrite \/ UNCHANGED vars

LEMMA OutsideSteps ==
  ASSUME TypeOK, Outside
  PROVE  /\ UNCHANGED <<step, job, cur, recorded>>
         /\ \A s \in Sessions : PendingOn(s)' \subseteq PendingOn(s)
         /\ thrown' = thrown \/ Reset
<1>1. UNCHANGED <<step, job, cur, recorded>>
  BY DEF Outside, Git, StartCommit, Abort, Land, AdvanceRefs, ClearTrailer, NoAdvance, Reset,
     SummaryRead, SummaryWrite, trackerVars, history, vars
<1>2. thrown' = thrown \/ Reset
  BY DEF Outside, Git, StartCommit, Abort, Land, AdvanceRefs, ClearTrailer, NoAdvance,
     SummaryRead, SummaryWrite, repoVars, vars
<1>3. ASSUME AdvanceRefs PROVE \A s \in Sessions : PendingOn(s)' \subseteq PendingOn(s)
  <2>1. MoveRefs(refFile, Tip.id) /\ thrown' = thrown
    BY <1>3 DEF AdvanceRefs, repoVars
  <2>2. \A s \in Sessions : PendingOn(s)' = IF s \in refFile THEN {} ELSE PendingOn(s)
    BY <2>1, Moved
  <2> QED
    BY <2>2
<1>4. ASSUME ~AdvanceRefs PROVE \A s \in Sessions : PendingOn(s)' \subseteq PendingOn(s)
  <2>1. UNCHANGED <<base, chain>>
    BY <1>4 DEF Outside, Git, StartCommit, Abort, Land, ClearTrailer, NoAdvance, Reset,
       SummaryRead, SummaryWrite, refVars, vars
  <2>2. \A x : x \in thrown => x \in thrown'
    BY <1>2 DEF Reset
  <2> QED
    BY <2>1, <2>2 DEF PendingOn
<1> QED
  BY <1>1, <1>2, <1>3, <1>4

\* A record chains on a commit that is not thrown away.
LEMMA ParentStands ==
  ASSUME TypeOK, InOrder
  PROVE  Parent \notin thrown
<1>1. Tip.id \notin thrown
  BY TipFacts DEF InOrder
<1>2. PendingOn(cur) # {} => base[cur] \notin thrown
  BY DEF PendingOn
<1> QED
  BY <1>1, <1>2 DEF Parent

LEMMA ReadsStep ==
  ASSUME TypeOK, InOrder, AmendKeeps, ReadsCover, [Next]_vars
  PROVE  ReadsCover'
<1>l. Left \subseteq Left' /\ OnBranch' \subseteq Left'
  BY BranchStep DEF Left
<1>1. CASE Outside
  <2>1. /\ UNCHANGED <<step, job, cur, recorded>> /\ cur \in Sessions
        /\ \A s \in Sessions : PendingOn(s)' \subseteq PendingOn(s)
    BY <1>1, OutsideSteps DEF TypeOK
  <2>2. Pending' \subseteq Pending
    BY <2>1 DEF Pending, PendingIn
  <2>3. ASSUME step' = "link"
        PROVE  /\ PendingOn(cur)' \cup {recorded' + 1} \subseteq job'.turns
               /\ job'.base \in thrown' => job'.turns \subseteq dropped'
    <3>1. /\ PendingOn(cur) \cup {recorded + 1} \subseteq job.turns
          /\ job.base \in thrown => job.turns \subseteq dropped
      BY <2>1, <2>3 DEF ReadsCover
    <3>2. PendingOn(cur)' \subseteq PendingOn(cur)
      <4>1. cur' = cur
        BY <2>1
      <4> QED
        BY <2>1, <4>1 DEF PendingOn
    <3>3. job.base \in thrown' => job.turns \subseteq dropped'
      <4>1. CASE Reset
        <5>1. /\ thrown' = thrown \cup {Tip.id}
              /\ dropped \subseteq dropped'
              /\ job.base = Tip.id => job.turns \subseteq dropped'
          BY <2>1, <2>3, <4>1 DEF Reset
        <5> QED
          BY <3>1, <5>1
      <4>2. CASE thrown' = thrown
        BY <3>1, <4>2, Histories
      <4> QED
        BY <1>1, <4>1, <4>2, OutsideSteps
    <3> QED
      BY <2>1, <3>1, <3>2, <3>3
  <2>4. step' = "fold" => Pending' \subseteq job'.turns
    BY <2>1, <2>2 DEF ReadsCover
  <2>5. step' \in {"hook", "mark"} => Pending' \subseteq Left'
    BY <1>l, <2>1, <2>2 DEF ReadsCover
  <2> QED
    BY <2>3, <2>4, <2>5 DEF ReadsCover
<1>2. CASE RecordRead
  <2>1. /\ step' = "link" /\ job' = [base |-> Parent, turns |-> PendingOn(cur) \cup {recorded + 1}]
        /\ UNCHANGED <<thrown, base, chain, cur, recorded>>
    BY <1>2 DEF RecordRead, Goto, repoVars, refVars, history
  <2>2. PendingOn(cur)' = PendingOn(cur)
    BY <2>1 DEF PendingOn
  <2>3. job'.base = Parent /\ job'.turns = PendingOn(cur) \cup {recorded + 1}
    BY <2>1
  <2> QED
    BY <2>1, <2>2, <2>3, ParentStands DEF ReadsCover
<1>3. CASE FoldRead
  <2>1. step' = "fold" /\ job'.turns = Pending /\ UNCHANGED <<thrown, base, chain>>
    BY <1>3 DEF FoldRead, Goto, repoVars, refVars
  <2>2. Pending' = Pending
    BY <2>1 DEF Pending, PendingIn, PendingOn
  <2> QED
    BY <2>1, <2>2 DEF ReadsCover
<1>4. CASE FoldCommit
  <2>1. /\ step = "fold" /\ step' = "hook" /\ UNCHANGED <<thrown, base, chain>>
        /\ branch' = Append(branch, [id |-> made + 1, turns |-> job.turns])
    BY <1>4 DEF FoldCommit, AppendCommit, Goto, refVars
  <2>2. Pending' = Pending
    BY <2>1 DEF Pending, PendingIn, PendingOn
  <2>3. job.turns \subseteq OnBranch'
    BY <2>1, OneMore
  <2>4. Pending' \subseteq Left'
    BY <1>l, <2>1, <2>2, <2>3 DEF ReadsCover
  <2> QED
    BY <2>1, <2>4 DEF ReadsCover
<1>5. CASE FoldHook
  <2>1. step = "hook" /\ step' = "mark" /\ thrown' = thrown
    BY <1>5 DEF FoldHook, Goto, repoVars
  <2>2. \A s \in Sessions : PendingOn(s)' \subseteq PendingOn(s)
    <3>1. CASE MoveRefs(refFile, Tip.id)
      BY <2>1, <3>1, Moved
    <3>2. CASE UNCHANGED <<base, chain>>
      BY <2>1, <3>2 DEF PendingOn
    <3> QED
      BY <1>5, <3>1, <3>2 DEF FoldHook, refVars
  <2>3. Pending' \subseteq Pending
    BY <2>2 DEF Pending, PendingIn
  <2>4. Pending' \subseteq Left'
    BY <1>l, <2>1, <2>3 DEF ReadsCover
  <2> QED
    BY <2>1, <2>4 DEF ReadsCover
<1>6. ASSUME step' \in {"idle", "render", "write"} PROVE ReadsCover'
  BY <1>6 DEF ReadsCover
<1>7. CASE Tracker /\ ~Outside /\ ~RecordRead /\ ~FoldRead /\ ~FoldCommit /\ ~FoldHook
  <2>1. step' \in {"idle", "render", "write"}
    BY <1>7 DEF Outside, Tracker, RecordLink, RenderRead, RenderWrite, Service, Flush, FoldFails,
       MarkFolded, Start, Setup, SyncOnce, Discard, Finish, Stop, Crash, Goto
  <2> QED
    BY <1>6, <2>1
<1> QED
  BY <1>1, <1>2, <1>3, <1>4, <1>5, <1>7 DEF Next, Outside

-----------------------------------------------------------------------------
(* The whole invariant.                                                    *)

LEMMA FoldInit == Init => FoldInv
<1> SUFFICES ASSUME Init PROVE FoldInv
  OBVIOUS
<1>1. TypeOK
  BY TypeInit
<1>2. /\ branch = <<[id |-> 1, turns |-> {}]>> /\ thrown = {} /\ recorded = 0
      /\ user = "idle" /\ step = "idle"
  BY DEF Init
<1>3. InOrder
  BY <1>2 DEF InOrder
<1>4. AmendKeeps /\ ReadsCover
  BY <1>2 DEF AmendKeeps, ReadsCover
<1>5. OnlyTheHookLosesTurns
  BY <1>2 DEF OnlyTheHookLosesTurns, Turns
<1> QED
  BY <1>1, <1>3, <1>4, <1>5 DEF FoldInv

LEMMA FoldStep == FoldInv /\ [Next]_vars => FoldInv'
<1> SUFFICES ASSUME FoldInv, [Next]_vars PROVE FoldInv'
  OBVIOUS
<1>1. TypeOK /\ InOrder /\ AmendKeeps /\ ReadsCover /\ OnlyTheHookLosesTurns
  BY DEF FoldInv
<1>2. TypeOK' /\ InOrder' /\ AmendKeeps' /\ ReadsCover' /\ Left \subseteq Left'
  BY <1>1, TypeStep, BranchStep, AmendStep, ReadsStep
<1>3. OnlyTheHookLosesTurns'
  <2>1. Turns \subseteq Pending \cup Left
    BY <1>1 DEF OnlyTheHookLosesTurns, Left
  <2>2. Turns' \subseteq Pending' \cup Left'
    BY <1>1, <1>2, <2>1, PendingStep
  <2> QED
    BY <2>2 DEF OnlyTheHookLosesTurns, Left
<1> QED
  BY <1>2, <1>3 DEF FoldInv

\* A recorded turn is pending, in a commit of the branch, thrown away by the user, or marked as
\* folded by the post-commit hook of a commit that does not hold it: whatever the tracker, its
\* summary thread, crashes, restarts, resets and amends do, and in whatever order.
THEOREM NoTurnLost == Spec => []OnlyTheHookLosesTurns
<1>1. FoldInv => OnlyTheHookLosesTurns
  BY DEF FoldInv
<1> QED
  BY <1>1, FoldInit, FoldStep, PTL DEF Spec
-----------------------------------------------------------------------------
(* No turn is folded twice: whoever could still write a turn that a commit *)
(* of the branch holds is a commit whose post-commit hook is yet to run,   *)
(* or the turn is one of those that crossed.                               *)

Settled(t) == t \in OnBranch /\ t \notin raced

\* The user's commit, or the tracker's own, holds the turn and has not moved the refs yet.
Landing(t) == user = "landed" /\ ~draft.amend /\ t \in draft.turns
Folding(t) == step = "hook" /\ t \in job.turns

RefsOpen    == \A t \in Pending : Settled(t) => Landing(t) \/ Folding(t)
TrailerOpen == \A t \in trailer : Settled(t) => Landing(t) \/ Folding(t) \/ user = "advanced"

\* A new commit being written shares a turn only with commits that landed since it began,
\* which git will not let it follow.
DraftBehind ==
    user = "editing" /\ ~draft.amend =>
        \A i \in DOMAIN branch : \A t \in draft.turns \cap branch[i].turns :
            t \notin raced => draft.head < branch[i].id

\* A commit that has something to fold shows it to its hook.
ShowsFold ==
    /\ user = "landed" /\ draft.turns # {} => Folded
    /\ step = "fold" => job.turns # {}

\* manual-ref names every ref with records on it: moving those refs leaves nothing pending.
RefsListed ==
    /\ \A s \in Sessions : chain[s] # {} => s \in refFile /\ s \in Refs
    /\ life # "down" /\ step # "render" => cur \in refFile
    /\ step = "link" => job.base # 0

OnceInv == RefsOpen /\ TrailerOpen /\ DraftBehind /\ ShowsFold /\ RefsListed /\ FoldedOnce

\* Turns that crossed stay on record.
LEMMA RacedGrows == [Next]_vars => raced \subseteq raced'
<1> SUFFICES ASSUME [Next]_vars PROVE raced \subseteq raced'
  OBVIOUS
<1>1. CASE Tracker
  BY <1>1 DEF Tracker, RecordRead, RecordLink, RenderRead, RenderWrite, SummaryRead,
     SummaryWrite, Service, Flush, FoldRead, FoldCommit, FoldFails, FoldHook, MarkFolded,
     Start, Setup, SyncOnce, Discard, Finish, Stop, Crash, history
<1>2. CASE Git
  BY <1>2 DEF Git, StartCommit, Abort, Land, AdvanceRefs, ClearTrailer, NoAdvance, Reset, history
<1>3. CASE UNCHANGED vars
  BY <1>3 DEF vars, history
<1> QED
  BY <1>1, <1>2, <1>3 DEF Next

\* Moving every listed ref leaves nothing pending.
LEMMA NothingLeft ==
  ASSUME TypeOK, RefsListed, NEW refs, refFile \subseteq refs \/ Refs \subseteq refs, NEW id,
         MoveRefs(refs, id), thrown' = thrown
  PROVE  Pending' = {}
<1>1. \A s \in Sessions : s \notin refs => chain[s] = {}
  BY DEF RefsListed
<1>2. \A s \in Sessions : PendingOn(s)' = IF s \in refs THEN {} ELSE PendingOn(s)
  BY Moved
<1>3. \A s \in Sessions : PendingOn(s)' = {}
  BY <1>1, <1>2 DEF PendingOn
<1> QED
  BY <1>3 DEF Pending, PendingIn

\* Only a record adds to what is pending.
LEMMA PendingFrom ==
  ASSUME TypeOK, [Next]_vars
  PROVE  \A t \in Pending' : t \in Pending \/ (RecordLink /\ t \in job.turns)
<1>1. ASSUME \A s \in Sessions : PendingOn(s)' \subseteq PendingOn(s)
      PROVE  \A t \in Pending' : t \in Pending \/ (RecordLink /\ t \in job.turns)
  BY <1>1 DEF Pending, PendingIn
<1>2. ASSUME NEW refs, NEW id, MoveRefs(refs, id), thrown' = thrown
      PROVE  \A s \in Sessions : PendingOn(s)' \subseteq PendingOn(s)
  BY <1>2, Moved
<1>3. CASE RecordLink
  <2>1. /\ thrown' = thrown
        /\ base' = [base EXCEPT ![cur] = job.base] /\ chain' = [chain EXCEPT ![cur] = job.turns]
    BY <1>3 DEF RecordLink, repoVars
  <2>2. cur \in Sessions /\ base \in [Sessions -> 0..made] /\ chain \in [Sessions -> SUBSET Turns]
    BY DEF TypeOK
  <2>3. /\ chain'[cur] = job.turns
        /\ \A s \in Sessions \ {cur} : base'[s] = base[s] /\ chain'[s] = chain[s]
    BY <2>1, <2>2
  <2>4. \A s \in Sessions : PendingOn(s)' \subseteq PendingOn(s) \cup job.turns
    BY <2>1, <2>3 DEF PendingOn
  <2> QED
    BY <1>3, <2>4 DEF Pending, PendingIn
<1>4. CASE Service \/ MarkFolded \/ Discard \/ \E s \in Sessions : Setup(s)
  <2>1. \E refs, id : MoveRefs(refs, id) /\ thrown' = thrown
    BY <1>4 DEF Service, MarkFolded, Discard, Setup, repoVars
  <2> QED
    BY <1>1, <1>2, <2>1
<1>5. CASE FoldHook
  <2>1. CASE Folded
    BY <1>1, <1>2, <1>5, <2>1 DEF FoldHook, repoVars
  <2>2. CASE ~Folded
    <3>1. UNCHANGED <<base, chain, thrown>>
      BY <1>5, <2>2 DEF FoldHook, repoVars, refVars
    <3> QED
      BY <1>1, <3>1 DEF PendingOn
  <2> QED
    BY <2>1, <2>2
<1>6. CASE Outside
  BY <1>1, <1>6, OutsideSteps
<1>7. CASE /\ ~RecordLink /\ ~Service /\ ~MarkFolded /\ ~Discard /\ ~FoldHook
           /\ ~\E s \in Sessions : Setup(s)
           /\ ~Outside
  <2>1. ~AdvanceRefs /\ ~Reset /\ ~Land
    BY <1>7 DEF Outside, Git
  <2>2. UNCHANGED <<base, chain>>
    BY <1>7, <2>1, RefsAloneSteps DEF RefsAlone
  <2>3. thrown' = thrown
    <3>1. CASE FoldCommit
      BY <3>1 DEF FoldCommit
    <3>2. CASE ~FoldCommit
      BY <2>1, <3>2, BranchAlone
    <3> QED
      BY <3>1, <3>2
  <2> QED
    BY <1>1, <2>2, <2>3 DEF PendingOn
<1> QED
  BY <1>3, <1>4, <1>5, <1>6, <1>7

\* Where the commits of the branch come from: the old ones, an auto fold's, the user's.
LEMMA CommitsFrom ==
  ASSUME TypeOK, InOrder, AmendKeeps, [Next]_vars
  PROVE  \A i \in DOMAIN branch' :
            \/ i \in DOMAIN branch /\ branch'[i] = branch[i]
            \/ FoldCommit /\ i = Len(branch) + 1 /\ branch'[i] = [id |-> made + 1, turns |-> job.turns]
            \/ /\ Land /\ ~draft.amend
               /\ i = Len(branch) + 1 /\ branch'[i] = [id |-> made + 1, turns |-> draft.turns]
            \/ /\ Land /\ draft.amend
               /\ i = Len(branch) /\ branch'[i] = [id |-> made + 1, turns |-> branch[i].turns]
               /\ i \in DOMAIN branch /\ draft.turns = branch[i].turns
<1>t. branch \in Seq(Commit) /\ branch # <<>>
  BY DEF TypeOK, Commit
<1>1. ASSUME NEW c, branch' = Append(branch, c)
      PROVE  \A i \in DOMAIN branch' : \/ i \in DOMAIN branch /\ branch'[i] = branch[i]
                                       \/ i = Len(branch) + 1 /\ branch'[i] = c
  <2>1. LET a == Append(branch, c)
        IN /\ DOMAIN a = DOMAIN branch \cup {Len(branch) + 1}
           /\ \A i \in DOMAIN branch : a[i] = branch[i]
           /\ a[Len(branch) + 1] = c
    BY <1>t, Appended
  <2> QED
    BY <1>1, <2>1
<1>2. CASE FoldCommit
  <2>1. branch' = Append(branch, [id |-> made + 1, turns |-> job.turns])
    BY <1>2 DEF FoldCommit, AppendCommit
  <2> QED
    BY <1>1, <1>2, <2>1
<1>3. CASE Land /\ ~draft.amend
  <2>1. branch' = Append(branch, [id |-> made + 1, turns |-> draft.turns])
    BY <1>3 DEF Land
  <2> QED
    BY <1>1, <1>3, <2>1
<1>4. CASE Land /\ draft.amend
  <2> DEFINE c == [id |-> made + 1, turns |-> draft.turns]
             f == Front(branch)
  <2>1. branch' = Append(f, c) /\ user = "editing" /\ draft.head = Tip.id
    BY <1>4 DEF Land
  <2>2. /\ f \in Seq(Commit) /\ Len(f) + 1 = Len(branch) /\ DOMAIN f \subseteq DOMAIN branch
        /\ \A i \in DOMAIN f : f[i] = branch[i]
    <3>1. /\ f \in Seq(Commit) /\ Len(f) = Len(branch) - 1 /\ DOMAIN f = DOMAIN branch \ {Len(branch)}
          /\ \A i \in DOMAIN f : f[i] = branch[i]
      BY <1>t, Fronted
    <3>2. Len(branch) \in Nat \ {0}
      BY TipFacts
    <3> HIDE DEF f
    <3> QED
      BY <3>1, <3>2
  <2>3. Len(branch) \in DOMAIN branch /\ branch[Len(branch)].turns = draft.turns
    BY <1>4, <2>1, TipFacts DEF AmendKeeps
  <2> HIDE DEF f
  <2>4. LET a == Append(f, c)
        IN /\ DOMAIN a = DOMAIN f \cup {Len(f) + 1}
           /\ \A i \in DOMAIN f : a[i] = f[i]
           /\ a[Len(f) + 1] = c
    BY <2>2, Appended
  <2>5. \A i \in DOMAIN branch' : \/ i \in DOMAIN branch /\ branch'[i] = branch[i]
                                  \/ i = Len(branch) /\ branch'[i] = c
    BY <2>1, <2>2, <2>4
  <2> QED
    BY <1>4, <2>3, <2>5
<1>5. CASE Reset
  BY <1>5, OneLess DEF Reset
<1>6. CASE ~FoldCommit /\ ~Land /\ ~Reset
  BY <1>6, BranchAlone
<1> QED
  BY <1>2, <1>3, <1>4, <1>5, <1>6

\* Where the turns on the branch come from.
LEMMA BranchFrom ==
  ASSUME TypeOK, InOrder, AmendKeeps, [Next]_vars
  PROVE  \A t \in OnBranch' : \/ t \in OnBranch
                              \/ FoldCommit /\ t \in job.turns
                              \/ Land /\ ~draft.amend /\ t \in draft.turns
<1> SUFFICES ASSUME NEW i \in DOMAIN branch', NEW t \in branch'[i].turns
             PROVE  \/ t \in OnBranch
                    \/ FoldCommit /\ t \in job.turns
                    \/ Land /\ ~draft.amend /\ t \in draft.turns
  BY DEF OnBranch
<1> QED
  BY CommitsFrom DEF OnBranch

\* The trailer is written by a render, of either thread.
LEMMA TrailerFrom ==
  ASSUME [Next]_vars
  PROVE  \A t \in trailer' : \/ t \in trailer
                             \/ RenderWrite /\ t \in job.turns
                             \/ SummaryWrite /\ t \in worker.turns
<1>1. CASE Tracker /\ ~RenderWrite /\ ~SummaryWrite
  BY <1>1 DEF Tracker, RecordRead, RecordLink, RenderRead, SummaryRead,
     Service, Flush, FoldRead, FoldCommit, FoldFails, FoldHook, MarkFolded,
     Start, Setup, SyncOnce, Discard, Finish, Stop, Crash, fileVars
<1>2. CASE Git
  BY <1>2 DEF Git, StartCommit, Abort, Land, AdvanceRefs, ClearTrailer, NoAdvance, Reset, fileVars
<1>3. CASE UNCHANGED vars
  BY <1>3 DEF vars, fileVars
<1> QED
  BY <1>1, <1>2, <1>3 DEF Next, RenderWrite, SummaryWrite

\* The tracker's own commit waits for its hook.
LEMMA FoldingStays ==
  ASSUME TypeOK, NEW t, Folding(t), [Next]_vars, ~FoldHook
  PROVE  Folding(t)'
<1>1. step = "hook" /\ life # "down"
  BY DEF Folding, TypeOK
<1>2. UNCHANGED <<step, job>>
  <2>1. CASE Tracker
    BY <1>1, <2>1 DEF Tracker, RecordRead, RecordLink, RenderRead, RenderWrite, SummaryRead,
       SummaryWrite, Service, Flush, FoldRead, FoldCommit, FoldFails, MarkFolded,
       Start, Setup, SyncOnce, Discard, Finish, Stop, Crash, trackerVars
  <2>2. CASE Git
    BY <2>2 DEF Git, StartCommit, Abort, Land, AdvanceRefs, ClearTrailer, NoAdvance, Reset, trackerVars
  <2>3. CASE UNCHANGED vars
    BY <2>3 DEF vars, trackerVars
  <2> QED
    BY <2>1, <2>2, <2>3 DEF Next
<1> QED
  BY <1>2 DEF Folding

\* The user's commit waits for its hook; and between the hook's two steps for the second one.
LEMMA UserStays ==
  ASSUME [Next]_vars, user \in {"landed", "advanced"}, ~AdvanceRefs, ~NoAdvance, ~ClearTrailer
  PROVE  UNCHANGED <<user, draft>>
<1>1. CASE Tracker
  BY <1>1 DEF Tracker, RecordRead, RecordLink, RenderRead, RenderWrite, SummaryRead,
     SummaryWrite, Service, Flush, FoldRead, FoldCommit, FoldFails, FoldHook, MarkFolded,
     Start, Setup, SyncOnce, Discard, Finish, Stop, Crash, userVars
<1>2. CASE Git
  BY <1>2 DEF Git, StartCommit, Abort, Land, Reset, userVars
<1>3. CASE UNCHANGED vars
  BY <1>3 DEF vars, userVars
<1> QED
  BY <1>1, <1>2, <1>3 DEF Next
-----------------------------------------------------------------------------
(* Each part of that invariant is kept.                                    *)

LEMMA ListedStep ==
  ASSUME TypeOK, RefsListed, [Next]_vars
  PROVE  RefsListed'
<1> USE DEF repoVars, refVars, fileVars, trackerVars, userVars, history, Goto
<1>t. /\ base \in [Sessions -> 0..made] /\ chain \in [Sessions -> SUBSET Turns] /\ made \in Nat
      /\ refFile \in SUBSET Sessions /\ cur \in Sessions /\ Tip.id \in 1..made
      /\ life = "down" => step = "idle"
  BY TipFacts DEF TypeOK
<1>1. ASSUME NEW refs, NEW id, MoveRefs(refs, id), id # 0, refFile' = refFile
      PROVE  \A s \in Sessions : chain'[s] # {} => s \in refFile' /\ base'[s] # 0
  BY <1>1, <1>t DEF MoveRefs, RefsListed, Refs
<1>m. \A s \in Sessions : s \in Refs' <=> base'[s] # 0
  BY DEF Refs
<1>2. CASE RecordRead
  <2>1. Parent # 0
    <3>1. PendingOn(cur) # {} => base[cur] # 0
      BY <1>t DEF PendingOn, RefsListed, Refs
    <3> QED
      BY <1>t, <3>1 DEF Parent
  <2>2. UNCHANGED <<base, chain, refFile, cur, life>> /\ job'.base = Parent /\ step = "idle" /\ life # "down"
    BY <1>2 DEF RecordRead
  <2> QED
    BY <2>1, <2>2 DEF RefsListed, Refs
<1>3. CASE RecordLink
  <2>1. /\ base' = [base EXCEPT ![cur] = job.base] /\ chain' = [chain EXCEPT ![cur] = job.turns]
        /\ step = "link" /\ step' = "render" /\ UNCHANGED <<refFile, cur, life>>
    BY <1>3 DEF RecordLink
  <2>2. cur \in refFile /\ job.base # 0
    BY <1>t, <2>1 DEF RefsListed
  <2> QED
    BY <1>t, <2>1, <2>2 DEF RefsListed, Refs
<1>4. CASE RenderRead \/ SummaryRead
  <2>1. UNCHANGED <<base, chain, cur, life>> /\ refFile' = RefsToFold /\ (step' = step \/ step' = "write")
        /\ (job' = job \/ step' = "write")
    BY <1>4 DEF RenderRead, SummaryRead
  <2> QED
    BY <1>t, <2>1 DEF RefsListed, Refs, RefsToFold
<1>5. CASE RenderWrite \/ SummaryWrite \/ Flush \/ FoldRead \/ FoldCommit \/ FoldFails \/ Finish \/ Stop \/ Crash
  <2>1. UNCHANGED <<base, chain, refFile, cur>>
    BY <1>5 DEF RenderWrite, SummaryWrite, Flush, FoldRead, FoldCommit, FoldFails, Finish, Stop, Crash
  <2>2. \/ life' = life /\ step # "render" /\ step' # "link"
        \/ UNCHANGED <<life, step, job>>
        \/ life' = life /\ step' = "render"
        \/ life' = "down" /\ step' = "idle"
    BY <1>5 DEF RenderWrite, SummaryWrite, Flush, FoldRead, FoldCommit, FoldFails, Finish, Stop, Crash
  <2> QED
    BY <2>1, <2>2 DEF RefsListed, Refs
<1>6. CASE Service \/ MarkFolded \/ Discard \/ SyncOnce \/ \E s \in Sessions : Start(s)
  <2>1. \E refs : MoveRefs(refs, Tip.id)
    BY <1>6 DEF Service, MarkFolded, Discard, SyncOnce, Start, Setup
  <2>2. refFile' = refFile /\ step' = "render"
    BY <1>6 DEF Service, MarkFolded, Discard, SyncOnce, Start, Setup
  <2>3. Tip.id # 0
    BY <1>t
  <2> QED
    BY <1>1, <1>m, <2>1, <2>2, <2>3 DEF RefsListed
<1>7. CASE FoldHook
  <2>1. UNCHANGED <<refFile, cur, life>> /\ step = "hook" /\ step' = "mark"
    BY <1>7 DEF FoldHook
  <2>2. CASE MoveRefs(refFile, Tip.id)
    <3>1. Tip.id # 0
      BY <1>t
    <3> QED
      BY <1>1, <1>m, <2>1, <2>2, <3>1 DEF RefsListed
  <2>3. CASE UNCHANGED <<base, chain>>
    BY <2>1, <2>3 DEF RefsListed, Refs
  <2> QED
    BY <1>7, <2>2, <2>3 DEF FoldHook
<1>8. CASE AdvanceRefs
  <2>1. MoveRefs(refFile, Tip.id) /\ UNCHANGED <<refFile, cur, life, step, job>>
    BY <1>8 DEF AdvanceRefs
  <2>2. Tip.id # 0
    BY <1>t
  <2> QED
    BY <1>1, <1>m, <2>1, <2>2 DEF RefsListed
<1>9. CASE Git /\ ~AdvanceRefs
  BY <1>9 DEF Git, StartCommit, Abort, Land, ClearTrailer, NoAdvance, Reset, RefsListed, Refs
<1>10. CASE UNCHANGED vars
  BY <1>10 DEF vars, RefsListed, Refs
<1> QED
  BY <1>2, <1>3, <1>4, <1>5, <1>6, <1>7, <1>8, <1>9, <1>10 DEF Next, Tracker

\* A new commit is HEAD, with its turns.
LEMMA NewTip ==
  ASSUME NEW kept \in Seq(Commit), NEW turns,
         branch' = Append(kept, [id |-> made + 1, turns |-> turns])
  PROVE  Tip'.turns = turns
<1> DEFINE c == [id |-> made + 1, turns |-> turns]
<1>1. LET a == Append(kept, c) IN Len(a) = Len(kept) + 1 /\ a[Len(kept) + 1] = c
  <2>1. Append(kept, c) \in Seq(Commit \cup {c})
    BY AppendProperties
  <2> QED
    BY AppendProperties
<1>2. Tip' = c
  BY <1>1 DEF Tip, Last
<1> QED
  BY <1>2

LEMMA ShowsStep ==
  ASSUME TypeOK, InOrder, AmendKeeps, ShowsFold, [Next]_vars
  PROVE  ShowsFold'
<1> USE DEF repoVars, refVars, fileVars, trackerVars, userVars, history, Goto
<1>t. branch \in Seq(Commit) /\ branch # <<>>
  BY DEF TypeOK, Commit
<1>1. CASE FoldCommit
  <2>1. branch' = Append(branch, [id |-> made + 1, turns |-> job.turns]) /\ step = "fold" /\ step' = "hook"
    BY <1>1 DEF FoldCommit, AppendCommit
  <2>2. Tip'.turns = job.turns
    BY <1>t, <2>1, NewTip
  <2> QED
    BY <2>1, <2>2 DEF ShowsFold, Folded
<1>2. CASE Land
  <2>1. branch' = Append(IF draft.amend THEN Front(branch) ELSE branch,
                         [id |-> made + 1, turns |-> draft.turns])
        /\ UNCHANGED <<draft, step, job>>
    BY <1>2 DEF Land
  <2>2. Front(branch) \in Seq(Commit)
    BY <1>t, Fronted
  <2>3. Tip'.turns = draft.turns
    BY <1>t, <2>1, <2>2, NewTip
  <2> QED
    BY <2>1, <2>3 DEF ShowsFold, Folded
<1>3. CASE Reset
  <2>1. user' # "landed" /\ UNCHANGED <<step, job>>
    BY <1>3 DEF Reset
  <2> QED
    BY <2>1 DEF ShowsFold
<1>4. CASE ~FoldCommit /\ ~Land /\ ~Reset
  <2>1. Folded' = Folded
    BY <1>4, BranchAlone DEF Folded, Tip
  <2>2. user' = "landed" => user = "landed" /\ draft' = draft
    <3>1. CASE Tracker
      BY <1>4, <3>1 DEF Tracker, RecordRead, RecordLink, RenderRead, RenderWrite, SummaryRead,
         SummaryWrite, Service, Flush, FoldRead, FoldFails, FoldHook, MarkFolded,
         Start, Setup, SyncOnce, Discard, Finish, Stop, Crash
    <3>2. CASE Git
      BY <1>4, <3>2 DEF Git, StartCommit, Abort, AdvanceRefs, ClearTrailer, NoAdvance
    <3>3. CASE UNCHANGED vars
      BY <3>3 DEF vars
    <3> QED
      BY <3>1, <3>2, <3>3 DEF Next
  <2>3. step' = "fold" => FoldRead \/ UNCHANGED <<step, job>>
    <3>1. CASE Tracker
      BY <1>4, <3>1 DEF Tracker, RecordRead, RecordLink, RenderRead, RenderWrite, SummaryRead,
         SummaryWrite, Service, Flush, FoldFails, FoldHook, MarkFolded,
         Start, Setup, SyncOnce, Discard, Finish, Stop, Crash
    <3>2. CASE Git
      BY <1>4, <3>2 DEF Git, StartCommit, Abort, AdvanceRefs, ClearTrailer, NoAdvance
    <3>3. CASE UNCHANGED vars
      BY <3>3 DEF vars
    <3> QED
      BY <3>1, <3>2, <3>3 DEF Next
  <2>4. FoldRead => job'.turns # {}
    BY DEF FoldRead
  <2> QED
    BY <2>1, <2>2, <2>3, <2>4 DEF ShowsFold
<1> QED
  BY <1>1, <1>2, <1>3, <1>4

LEMMA BehindStep ==
  ASSUME TypeOK, InOrder, AmendKeeps, TrailerOpen, DraftBehind, [Next]_vars
  PROVE  DraftBehind'
<1> SUFFICES ASSUME user' = "editing", ~draft'.amend, NEW i \in DOMAIN branch',
                    NEW t \in draft'.turns \cap branch'[i].turns, t \notin raced'
             PROVE  draft'.head < branch'[i].id
  BY DEF DraftBehind
<1>r. t \notin raced
  BY RacedGrows
<1>1. CASE \E amend \in BOOLEAN : StartCommit(amend)
  <2>1. PICK amend \in BOOLEAN : StartCommit(amend)
    BY <1>1
  <2>2. /\ branch' = branch /\ draft'.amend = amend /\ user = "idle"
        /\ draft'.turns = IF amend THEN Tip.turns ELSE IF hooks THEN trailer ELSE {}
        /\ raced' = raced \cup IF step = "hook" THEN trailer \cap job.turns ELSE {}
    BY <2>1 DEF StartCommit, repoVars
  <2>3. t \in trailer /\ t \in OnBranch
    BY <2>2 DEF OnBranch
  <2>4. Folding(t)
    BY <1>r, <2>2, <2>3 DEF TrailerOpen, Settled, Landing
  <2> QED
    BY <2>2, <2>3, <2>4 DEF Folding
<1>2. CASE ~\E amend \in BOOLEAN : StartCommit(amend)
  <2>1. user = "editing" /\ draft' = draft /\ ~Land
    <3>1. CASE Tracker
      BY <3>1 DEF Tracker, RecordRead, RecordLink, RenderRead, RenderWrite, SummaryRead,
         SummaryWrite, Service, Flush, FoldRead, FoldCommit, FoldFails, FoldHook, MarkFolded,
         Start, Setup, SyncOnce, Discard, Finish, Stop, Crash, Land, userVars
    <3>2. CASE Git
      BY <1>2, <3>2 DEF Git, Abort, Land, AdvanceRefs, ClearTrailer, NoAdvance, Reset, userVars
    <3>3. CASE UNCHANGED vars
      BY <3>3 DEF vars, userVars, Land
    <3> QED
      BY <3>1, <3>2, <3>3 DEF Next
  <2>2. CASE i \in DOMAIN branch /\ branch'[i] = branch[i]
    BY <1>r, <2>1, <2>2 DEF DraftBehind
  <2>3. CASE branch'[i] = [id |-> made + 1, turns |-> job.turns]
    <3>1. draft.head \in 0..made /\ made \in Nat /\ branch'[i].id = made + 1
      BY <2>3 DEF TypeOK
    <3> QED
      BY <2>1, <3>1
  <2> QED
    BY <2>1, <2>2, <2>3, CommitsFrom
<1> QED
  BY <1>1, <1>2

\* A turn that a step puts on the branch belongs to a commit whose hook is to run.
LEMMA NewlySettled ==
  ASSUME TypeOK, InOrder, AmendKeeps, [Next]_vars, NEW t \in OnBranch', t \notin OnBranch
  PROVE  Landing(t)' \/ Folding(t)'
<1>1. CASE FoldCommit /\ t \in job.turns
  BY <1>1 DEF FoldCommit, Goto, Folding
<1>2. CASE Land /\ ~draft.amend /\ t \in draft.turns
  BY <1>2 DEF Land, Landing
<1> QED
  BY <1>1, <1>2, BranchFrom

LEMMA OpenStep ==
  ASSUME TypeOK, InOrder, AmendKeeps, ShowsFold, RefsListed, RefsOpen, TrailerOpen, [Next]_vars
  PROVE  RefsOpen' /\ TrailerOpen'
<1>r. raced \subseteq raced'
  BY RacedGrows
<1>t. OnBranch \subseteq Turns /\ recorded + 1 \notin Turns
  BY TipFacts DEF OnBranch, Commit, Turns
\* A turn that stays settled, and that a hook was yet to move off the refs.
<1>1. ASSUME NEW t \in OnBranch, t \notin raced', Landing(t) \/ Folding(t)
      PROVE  \/ Landing(t)' \/ Folding(t)'
             \/ Pending' = {} /\ (trailer' = {} \/ user' = "advanced")
  <2>1. CASE Folding(t) /\ FoldHook
    <3>1. Folded
      BY <1>1, <2>1 DEF FoldHook, Folding
    <3>2. MoveRefs(refFile, Tip.id) /\ trailer' = {} /\ thrown' = thrown
      BY <2>1, <3>1 DEF FoldHook, repoVars
    <3> QED
      BY <3>2, NothingLeft
  <2>2. CASE Folding(t) /\ ~FoldHook
    BY <2>2, FoldingStays
  <2>3. CASE Landing(t) /\ AdvanceRefs
    <3>1. MoveRefs(refFile, Tip.id) /\ user' = "advanced" /\ thrown' = thrown
      BY <2>3 DEF AdvanceRefs, repoVars
    <3> QED
      BY <3>1, NothingLeft
  <2>4. ~(Landing(t) /\ NoAdvance)
    BY <1>1 DEF Landing, NoAdvance, ShowsFold
  <2>5. CASE Landing(t) /\ ~AdvanceRefs /\ ~NoAdvance
    <3>1. user = "landed" /\ ~ClearTrailer
      BY <2>5 DEF Landing, ClearTrailer
    <3>2. UNCHANGED <<user, draft>>
      BY <2>5, <3>1, UserStays
    <3> QED
      BY <2>5, <3>2 DEF Landing
  <2> QED
    BY <1>1, <2>1, <2>2, <2>3, <2>4, <2>5
<1>2. ASSUME NEW t \in Pending', t \in OnBranch', t \notin raced'
      PROVE  Landing(t)' \/ Folding(t)'
  <2>1. CASE t \in OnBranch
    <3>1. t \in Pending
      <4>1. CASE RecordLink /\ t \in job.turns
        <5>1. t # recorded + 1
          BY <1>t, <2>1
        <5> QED
          BY <1>2, <4>1, <5>1 DEF RecordLink, TakenSince
      <4> QED
        BY <1>2, <4>1, PendingFrom
    <3>2. Landing(t) \/ Folding(t)
      BY <1>2, <1>r, <2>1, <3>1 DEF RefsOpen, Settled
    <3> QED
      BY <1>1, <1>2, <2>1, <3>2
  <2> QED
    BY <1>2, <2>1, NewlySettled
<1>3. ASSUME NEW t \in trailer', t \in OnBranch', t \notin raced'
      PROVE  Landing(t)' \/ Folding(t)' \/ user' = "advanced"
  <2>1. CASE t \in OnBranch
    <3>1. CASE t \in Pending \/ (t \in trailer /\ user # "advanced")
      <4>1. Landing(t) \/ Folding(t)
        BY <1>3, <1>r, <2>1, <3>1 DEF RefsOpen, TrailerOpen, Settled
      <4> QED
        BY <1>1, <1>3, <2>1, <4>1
    <3>2. CASE user = "advanced"
      <4>1. ~ClearTrailer
        BY <1>3 DEF ClearTrailer
      <4>2. ~AdvanceRefs /\ ~NoAdvance
        BY <3>2 DEF AdvanceRefs, NoAdvance
      <4> QED
        BY <3>2, <4>1, <4>2, UserStays
    <3>3. CASE t \notin Pending /\ t \notin trailer /\ user # "advanced"
      <4>1. \/ RenderWrite /\ t \in job.turns
            \/ SummaryWrite /\ t \in worker.turns
        BY <1>3, <3>3, TrailerFrom
      <4> QED
        BY <1>3, <3>3, <4>1 DEF RenderWrite, SummaryWrite, TakenSince
    <3> QED
      BY <3>1, <3>2, <3>3
  <2> QED
    BY <1>3, <2>1, NewlySettled
<1> QED
  BY <1>2, <1>3 DEF RefsOpen, TrailerOpen, Settled
LEMMA OnceStep ==
  ASSUME TypeOK, InOrder, AmendKeeps, RefsOpen, DraftBehind, FoldedOnce, [Next]_vars
  PROVE  FoldedOnce'
<1>r. raced \subseteq raced'
  BY RacedGrows
<1>t. /\ Len(branch) \in DOMAIN branch /\ Tip = branch[Len(branch)]
      /\ \A i \in DOMAIN branch : i \in Int /\ i <= Len(branch) /\ branch[i].id \in Int
      /\ Len(branch) \in Int
  BY TipFacts DEF Commit
\* An old commit and a new one hold a turn that both took.
<1>1. ASSUME NEW i \in DOMAIN branch, FoldCommit, NEW t \in branch[i].turns \cap job.turns
      PROVE  t \in raced'
  <2>1. step = "fold" /\ raced' = raced \cup TakenSince(job.turns)
                                  \cup (IF user = "landed" THEN job.turns \cap draft.turns ELSE {})
    BY <1>1 DEF FoldCommit
  <2>2. t \in OnBranch
    BY <1>1 DEF OnBranch
  <2>3. CASE t \in Pending /\ t \notin raced
    BY <1>1, <2>1, <2>2, <2>3 DEF RefsOpen, Settled, Landing, Folding
  <2>4. CASE t \notin Pending
    BY <1>1, <2>1, <2>4 DEF TakenSince
  <2> QED
    BY <1>r, <2>3, <2>4
<1>2. ASSUME NEW i \in DOMAIN branch, Land, ~draft.amend, NEW t \in branch[i].turns \cap draft.turns
      PROVE  t \in raced'
  <2>1. user = "editing" /\ draft.head = Tip.id
    BY <1>2 DEF Land
  <2>2. t \notin raced => Tip.id < branch[i].id
    BY <1>2, <2>1 DEF DraftBehind
  <2>3. ~(Tip.id < branch[i].id)
    <3>1. i < Len(branch) => branch[i].id < branch[Len(branch)].id
      BY <1>t DEF InOrder
    <3> QED
      BY <1>t, <3>1
  <2> QED
    BY <1>r, <2>2, <2>3
<1> SUFFICES ASSUME NEW i \in DOMAIN branch', NEW j \in DOMAIN branch', i # j,
                    NEW t \in branch'[i].turns \cap branch'[j].turns
             PROVE  t \in raced'
  BY DEF FoldedOnce
<1> DEFINE Old(k)     == k \in DOMAIN branch /\ branch'[k] = branch[k]
           Fold(k)    == FoldCommit /\ k = Len(branch) + 1 /\ branch'[k].turns = job.turns
           Written(k) == Land /\ ~draft.amend /\ k = Len(branch) + 1 /\ branch'[k].turns = draft.turns
           Amended(k) == k \in DOMAIN branch /\ branch'[k].turns = branch[k].turns
<1>3. \A k \in DOMAIN branch' : Old(k) \/ Fold(k) \/ Written(k) \/ Amended(k)
  BY CommitsFrom
<1>4. \A k \in DOMAIN branch' : Old(k) \/ Amended(k) => k \in DOMAIN branch /\ branch'[k].turns = branch[k].turns
  OBVIOUS
<1> HIDE DEF Old, Amended
<1>5. CASE (Old(i) \/ Amended(i)) /\ (Old(j) \/ Amended(j))
  BY <1>4, <1>5, <1>r DEF FoldedOnce
<1>6. CASE (Old(i) \/ Amended(i)) /\ (Fold(j) \/ Written(j))
  BY <1>1, <1>2, <1>4, <1>6
<1>7. CASE (Fold(i) \/ Written(i)) /\ (Old(j) \/ Amended(j))
  BY <1>1, <1>2, <1>4, <1>7
<1> QED
  BY <1>3, <1>5, <1>6, <1>7

LEMMA OnceInit == Init => OnceInv
<1> SUFFICES ASSUME Init PROVE OnceInv
  OBVIOUS
<1>1. /\ branch = <<[id |-> 1, turns |-> {}]>> /\ trailer = {} /\ step = "idle" /\ user = "idle"
      /\ chain = [s \in Sessions |-> {}] /\ refFile = {FirstSession} /\ cur = FirstSession
  BY DEF Init
<1>2. Pending = {}
  BY <1>1 DEF Pending, PendingIn, PendingOn
<1> QED
  BY <1>1, <1>2 DEF OnceInv, RefsOpen, TrailerOpen, DraftBehind, ShowsFold, RefsListed, FoldedOnce

LEMMA OnceKept == FoldInv /\ OnceInv /\ [Next]_vars => OnceInv'
  BY OpenStep, BehindStep, ShowsStep, ListedStep, OnceStep DEF FoldInv, OnceInv

LEMMA OnceHolds == Spec => [](FoldInv /\ OnceInv)
  BY FoldInit, FoldStep, OnceInit, OnceKept, PTL DEF Spec

\* Two commits of the branch hold a turn only when a commit and somebody's use of the turn
\* crossed in one of the ways `raced` records: whatever the threads, hooks, amends, resets,
\* crashes and restarts do, for any number of sessions, turns and commits.
THEOREM NoTurnFoldedTwice == Spec => []FoldedOnce
<1>1. OnceInv => FoldedOnce
  BY DEF OnceInv
<1> QED
  BY <1>1, OnceHolds, PTL

-----------------------------------------------------------------------------
(* The trailer at rest.                                                    *)

\* What a text of the trailer may hold: what is pending, and what was thrown away with it.
Covers(turns) == Pending \subseteq turns /\ turns \subseteq Pending \cup (dropped \ OnBranch)

\* No commit of the user's has folded anything since the tracker was last told.
Undisturbed ==
    /\ life = "up" /\ ~signal
    /\ user \in {"idle", "editing"} \/ (user = "landed" /\ ~Folded)

TrailerFits == Undisturbed /\ step \in {"idle", "fold"} /\ ~worker.late => Covers(trailer)
ReadingFits == Undisturbed /\ step = "write" => Covers(job.turns)

\* A turn is chained on a commit older than any that holds it.
ChainedBefore ==
    /\ \A s \in Sessions : \A t \in chain[s] : \A i \in DOMAIN branch :
         t \in branch[i].turns => base[s] < branch[i].id
    /\ step = "link" => \A t \in job.turns : \A i \in DOMAIN branch :
         t \in branch[i].turns => job.base < branch[i].id

HooksUp == life = "up" => hooks

RestInv == TrailerFits /\ ReadingFits /\ ChainedBefore /\ HooksUp

LEMMA HooksStep == HooksUp /\ [Next]_vars => HooksUp'
<1> SUFFICES ASSUME HooksUp, [Next]_vars PROVE HooksUp'
  OBVIOUS
<1> USE DEF fileVars, trackerVars, HooksUp
<1>1. CASE Tracker
  BY <1>1 DEF Tracker, RecordRead, RecordLink, RenderRead, RenderWrite, SummaryRead,
     SummaryWrite, Service, Flush, FoldRead, FoldCommit, FoldFails, FoldHook, MarkFolded,
     Start, Setup, SyncOnce, Discard, Finish, Stop, Crash
<1>2. CASE Git
  BY <1>2 DEF Git, StartCommit, Abort, Land, AdvanceRefs, ClearTrailer, NoAdvance, Reset
<1>3. CASE UNCHANGED vars
  BY <1>3 DEF vars
<1> QED
  BY <1>1, <1>2, <1>3 DEF Next

LEMMA ChainedStep ==
  ASSUME TypeOK, InOrder, AmendKeeps, ChainedBefore, [Next]_vars
  PROVE  ChainedBefore'
<1> USE DEF repoVars, refVars, trackerVars, history, Goto
<1>t. /\ base \in [Sessions -> 0..made] /\ chain \in [Sessions -> SUBSET Turns] /\ made \in Nat
      /\ cur \in Sessions /\ job.base \in 0..made
  BY DEF TypeOK
<1>n. OnBranch \subseteq Turns /\ recorded + 1 \notin Turns
  BY TipFacts DEF OnBranch, Commit, Turns
\* The refs and the reading as they were, whatever happens to the branch.
<1>1. ASSUME NEW b \in 0..made, NEW t, NEW i \in DOMAIN branch', t \in branch'[i].turns,
             \A k \in DOMAIN branch : t \in branch[k].turns => b < branch[k].id
      PROVE  b < branch'[i].id
  <2>1. CASE i \in DOMAIN branch /\ branch'[i] = branch[i]
    BY <1>1, <2>1
  <2>2. CASE branch'[i].id = made + 1
    BY <1>t, <2>2
  <2> QED
    BY <2>1, <2>2, CommitsFrom
<1>2. CASE RecordLink
  <2>1. /\ base' = [base EXCEPT ![cur] = job.base] /\ chain' = [chain EXCEPT ![cur] = job.turns]
        /\ step = "link" /\ step' = "render" /\ branch' = branch
    BY <1>2 DEF RecordLink
  <2> QED
    BY <1>t, <2>1 DEF ChainedBefore
<1>3. CASE RecordRead
  <2>1. /\ UNCHANGED <<branch, base, chain>> /\ step' = "link"
        /\ job'.base = Parent /\ job'.turns = PendingOn(cur) \cup {recorded + 1}
    BY <1>3 DEF RecordRead
  <2>2. ASSUME NEW t \in job'.turns, NEW i \in DOMAIN branch, t \in branch[i].turns
        PROVE  Parent < branch[i].id
    <3>1. t \in PendingOn(cur)
      BY <1>n, <2>1, <2>2 DEF OnBranch
    <3>2. Parent = base[cur] /\ t \in chain[cur]
      BY <3>1 DEF Parent, PendingOn
    <3> QED
      BY <1>t, <2>2, <3>2 DEF ChainedBefore
  <2> QED
    BY <2>1, <2>2 DEF ChainedBefore
<1>4. CASE ~RecordLink /\ ~RecordRead
  <2>1. \A s \in Sessions : chain'[s] = {} \/ (chain'[s] = chain[s] /\ base'[s] = base[s])
    <3>1. CASE \E refs, id : MoveRefs(refs, id)
      BY <3>1 DEF MoveRefs
    <3>2. CASE UNCHANGED <<base, chain>>
      BY <3>2
    <3> QED
      BY <1>4, <3>1, <3>2, RefsAloneSteps
         DEF RefsAlone, Service, FoldHook, MarkFolded, Discard, AdvanceRefs, Setup
  <2>2. step' = "link" => UNCHANGED <<step, job>>
    <3>1. CASE Tracker
      BY <1>4, <3>1 DEF Tracker, RenderRead, RenderWrite, SummaryRead,
         SummaryWrite, Service, Flush, FoldRead, FoldCommit, FoldFails, FoldHook, MarkFolded,
         Start, Setup, SyncOnce, Discard, Finish, Stop, Crash
    <3>2. CASE Git
      BY <3>2 DEF Git, StartCommit, Abort, Land, AdvanceRefs, ClearTrailer, NoAdvance, Reset
    <3>3. CASE UNCHANGED vars
      BY <3>3 DEF vars
    <3> QED
      BY <3>1, <3>2, <3>3 DEF Next
  <2> QED
    BY <1>1, <1>t, <2>1, <2>2 DEF ChainedBefore
<1> QED
  BY <1>2, <1>3, <1>4
\* What the user's git, the summary thread and an auto fold that is given up change while the
\* tracker is told nothing: pending turns go only where the user throws them away.
LEMMA LittleChanges ==
  ASSUME TypeOK, InOrder, AmendKeeps, ChainedBefore, HooksUp, Undisturbed', life = "up",
         Git \/ SummaryRead \/ SummaryWrite \/ FoldRead \/ FoldFails \/ UNCHANGED vars
  PROVE  /\ Undisturbed
         /\ Pending' \subseteq Pending
         /\ Pending \ Pending' \subseteq dropped' \ OnBranch'
         /\ dropped \ OnBranch \subseteq dropped' \ OnBranch'
<1> USE DEF repoVars, refVars, fileVars, trackerVars, userVars, history
<1>1. ASSUME UNCHANGED <<branch, thrown, base, chain, dropped>>, Undisturbed
      PROVE  /\ Undisturbed /\ Pending' \subseteq Pending
             /\ Pending \ Pending' \subseteq dropped' \ OnBranch'
             /\ dropped \ OnBranch \subseteq dropped' \ OnBranch'
  BY <1>1 DEF Pending, PendingIn, PendingOn, OnBranch
<1>2. CASE SummaryRead \/ SummaryWrite \/ FoldRead \/ FoldFails \/ UNCHANGED vars
  <2>1. UNCHANGED <<branch, thrown, base, chain, dropped, life, signal, user>>
    BY <1>2 DEF SummaryRead, SummaryWrite, FoldRead, FoldFails, vars
  <2>2. Undisturbed
    BY <2>1 DEF Undisturbed, Folded, Tip
  <2> QED
    BY <1>1, <2>1, <2>2
<1>3. CASE Abort \/ NoAdvance \/ \E amend \in BOOLEAN : StartCommit(amend)
  <2>1. UNCHANGED <<branch, thrown, base, chain, dropped, life, signal>>
    BY <1>3 DEF Abort, NoAdvance, StartCommit
  <2>2. Undisturbed
    BY <1>3, <2>1 DEF Abort, NoAdvance, StartCommit, Undisturbed, HooksUp
  <2> QED
    BY <1>1, <2>1, <2>2
<1>4. CASE AdvanceRefs \/ ClearTrailer
  BY <1>4 DEF AdvanceRefs, ClearTrailer, Undisturbed
<1>5. CASE Land
  <2>1. UNCHANGED <<thrown, base, chain, dropped, life, signal, draft>> /\ user = "editing" /\ user' = "landed"
    BY <1>5 DEF Land
  <2>2. Undisturbed
    BY <2>1 DEF Undisturbed
  <2>3. [Next]_vars
    BY <1>5 DEF Next, Git
  <2>4. draft.turns = {}
    <3>1. Tip'.turns = {}
      BY <2>1 DEF Undisturbed, Folded
    <3>2. branch \in Seq(Commit) /\ Front(branch) \in Seq(Commit)
      BY Fronted DEF TypeOK, Commit
    <3>3. Tip'.turns = draft.turns
      BY <1>5, <3>2, NewTip DEF Land
    <3> QED
      BY <3>1, <3>3
  <2>5. OnBranch' \subseteq OnBranch
    BY <1>5, <2>3, <2>4, BranchFrom DEF FoldCommit, Land
  <2>6. Pending' = Pending
    BY <2>1 DEF Pending, PendingIn, PendingOn
  <2> QED
    BY <2>1, <2>2, <2>5, <2>6
<1>6. CASE Reset
  <2>1. /\ UNCHANGED <<base, chain, life, signal, user>> /\ user \in {"idle", "editing"}
        /\ branch' = Front(branch) /\ thrown' = thrown \cup {Tip.id}
        /\ dropped \subseteq dropped' /\ ChainedOn(Tip.id) \subseteq dropped'
    BY <1>6 DEF Reset
  <2>2. Undisturbed
    BY <2>1 DEF Undisturbed
  <2>3. DOMAIN branch' \subseteq DOMAIN branch /\ \A i \in DOMAIN branch' : branch'[i] = branch[i]
    BY <2>1, OneLess
  <2>4. OnBranch' \subseteq OnBranch
    BY <2>3 DEF OnBranch
  <2>5. Pending' \subseteq Pending
    BY <2>1 DEF Pending, PendingIn, PendingOn
  <2>6. Pending \ Pending' \subseteq ChainedOn(Tip.id)
    BY <2>1 DEF Pending, PendingIn, PendingOn, ChainedOn
  <2>7. ASSUME NEW t \in ChainedOn(Tip.id), NEW i \in DOMAIN branch, t \in branch[i].turns PROVE FALSE
    <3>1. PICK s \in Sessions : base[s] = Tip.id /\ t \in chain[s]
      BY <2>7 DEF ChainedOn
    <3>2. Tip.id < branch[i].id
      BY <2>7, <3>1 DEF ChainedBefore
    <3>3. /\ Tip = branch[Len(branch)] /\ Len(branch) \in DOMAIN branch /\ Len(branch) \in Int
          /\ i \in Int /\ i <= Len(branch) /\ branch[i].id \in Int /\ Tip.id \in Int
      BY <2>7, TipFacts DEF Commit
    <3>4. i < Len(branch) => branch[i].id < Tip.id
      BY <2>7, <3>3 DEF InOrder
    <3> QED
      BY <3>2, <3>3, <3>4
  <2>8. Pending \ Pending' \subseteq dropped' \ OnBranch'
    BY <2>1, <2>4, <2>6, <2>7 DEF OnBranch
  <2> QED
    BY <2>1, <2>2, <2>4, <2>5, <2>8
<1> QED
  BY <1>2, <1>3, <1>4, <1>5, <1>6 DEF Git

LEMMA FitsStep ==
  ASSUME TypeOK, InOrder, AmendKeeps, RestInv, [Next]_vars
  PROVE  TrailerFits' /\ ReadingFits'
<1> USE DEF repoVars, refVars, fileVars, trackerVars, userVars, history, Goto
<1> DEFINE Small == Git \/ SummaryRead \/ SummaryWrite \/ FoldRead \/ FoldFails \/ UNCHANGED vars
\* What a trailer or a reading covered, it covers after a step that changes little.
<1>1. ASSUME Small, Undisturbed', life = "up", NEW x, Covers(x)
      PROVE  Pending' \subseteq x /\ x \subseteq Pending' \cup (dropped' \ OnBranch')
  <2>1. /\ Pending' \subseteq Pending
        /\ Pending \ Pending' \subseteq dropped' \ OnBranch'
        /\ dropped \ OnBranch \subseteq dropped' \ OnBranch'
    BY <1>1, LittleChanges DEF RestInv
  <2> QED
    BY <1>1, <2>1 DEF Covers
<1>2. Undisturbed' /\ Small => life = "up" /\ Undisturbed
  <2>1. Undisturbed' /\ Small => life = "up"
    BY DEF Undisturbed, Git, StartCommit, Abort, Land, AdvanceRefs, ClearTrailer, NoAdvance, Reset,
       SummaryRead, SummaryWrite, FoldRead, FoldFails, vars
  <2> QED
    BY <2>1, LittleChanges DEF RestInv
<1>3. ASSUME Undisturbed', step' \in {"idle", "fold"}, ~worker'.late
      PROVE  Pending' \subseteq trailer' /\ trailer' \subseteq Pending' \cup (dropped' \ OnBranch')
  <2>1. CASE RenderWrite
    <3>1. /\ UNCHANGED <<branch, thrown, base, chain, dropped, life, signal, user>>
          /\ step = "write" /\ trailer' = job.turns
      BY <2>1 DEF RenderWrite
    <3>2. Undisturbed
      BY <1>3, <3>1 DEF Undisturbed, Folded, Tip
    <3>3. Covers(job.turns)
      BY <3>1, <3>2 DEF RestInv, ReadingFits
    <3> QED
      BY <3>1, <3>3 DEF Covers, Pending, PendingIn, PendingOn, OnBranch
  <2>2. CASE SummaryWrite
    <3>1. UNCHANGED <<thrown, base, chain>> /\ trailer' = worker.turns /\ worker'.late = (worker.turns # Pending)
      BY <2>2 DEF SummaryWrite, Resting
    <3> QED
      BY <1>3, <3>1 DEF Pending, PendingIn, PendingOn
  <2>3. CASE Small /\ ~SummaryWrite
    <3>1. trailer' = trailer \/ ~Undisturbed'
      BY <2>3 DEF Git, StartCommit, Abort, Land, AdvanceRefs, ClearTrailer, NoAdvance, Reset,
         SummaryRead, FoldRead, FoldFails, vars, Undisturbed
    <3>2. step \in {"idle", "fold"} /\ worker'.late = worker.late
      BY <1>3, <2>3 DEF Git, StartCommit, Abort, Land, AdvanceRefs, ClearTrailer, NoAdvance, Reset,
         SummaryRead, FoldRead, FoldFails, vars, TypeOK
    <3>3. Covers(trailer)
      BY <1>2, <1>3, <2>3, <3>2 DEF RestInv, TrailerFits
    <3> QED
      BY <1>1, <1>2, <1>3, <2>3, <3>1, <3>3
  <2>4. ASSUME ~Small, ~RenderWrite PROVE FALSE
    <3>1. Tracker
      BY <2>4 DEF Next
    <3>2. \/ RecordRead \/ RecordLink \/ RenderRead \/ Service \/ Flush \/ FoldCommit \/ FoldHook
          \/ MarkFolded \/ (\E s \in Sessions : Start(s)) \/ SyncOnce \/ Discard
          \/ Finish \/ Stop \/ Crash
      BY <2>4, <3>1 DEF Tracker
    <3> HIDE DEF Small
    <3> QED
      BY <1>3, <3>2 DEF RecordRead, RecordLink, RenderRead, Service, Flush, FoldCommit, FoldHook,
         MarkFolded, Start, Setup, SyncOnce, Discard, Finish, Stop, Crash, Undisturbed
  <2> QED
    BY <2>1, <2>2, <2>3, <2>4
<1>4. ASSUME Undisturbed', step' = "write"
      PROVE  Pending' \subseteq job'.turns /\ job'.turns \subseteq Pending' \cup (dropped' \ OnBranch')
  <2>1. CASE RenderRead
    <3>1. UNCHANGED <<thrown, base, chain>> /\ job'.turns = Pending
      BY <2>1 DEF RenderRead
    <3> QED
      BY <3>1 DEF Pending, PendingIn, PendingOn
  <2>2. CASE Small
    <3>1. step = "write" /\ job' = job
      BY <1>4, <2>2 DEF Git, StartCommit, Abort, Land, AdvanceRefs, ClearTrailer, NoAdvance, Reset,
         SummaryRead, SummaryWrite, FoldRead, FoldFails, vars
    <3>2. Covers(job.turns)
      BY <1>2, <1>4, <2>2, <3>1 DEF RestInv, ReadingFits
    <3> QED
      BY <1>1, <1>2, <1>4, <2>2, <3>1, <3>2
  <2>3. ASSUME ~Small, ~RenderRead PROVE FALSE
    <3>1. Tracker
      BY <2>3 DEF Next
    <3>2. \/ RecordRead \/ RecordLink \/ RenderWrite \/ Service \/ Flush \/ FoldCommit \/ FoldHook
          \/ MarkFolded \/ (\E s \in Sessions : Start(s)) \/ SyncOnce \/ Discard
          \/ Finish \/ Stop \/ Crash
      BY <2>3, <3>1 DEF Tracker
    <3> HIDE DEF Small
    <3> QED
      BY <1>4, <3>2 DEF RecordRead, RecordLink, RenderWrite, Service, Flush, FoldCommit, FoldHook,
         MarkFolded, Start, Setup, SyncOnce, Discard, Finish, Stop, Crash, Undisturbed
  <2> QED
    BY <2>1, <2>2, <2>3
<1> QED
  BY <1>3, <1>4 DEF TrailerFits, ReadingFits, Covers

LEMMA RestInit == Init => RestInv
<1> SUFFICES ASSUME Init PROVE RestInv
  OBVIOUS
<1>1. /\ trailer = {} /\ step = "idle" /\ hooks /\ chain = [s \in Sessions |-> {}]
  BY DEF Init
<1>2. Pending = {}
  BY <1>1 DEF Pending, PendingIn, PendingOn
<1> QED
  BY <1>1, <1>2 DEF RestInv, TrailerFits, ReadingFits, Covers, ChainedBefore, HooksUp

LEMMA RestKept == FoldInv /\ RestInv /\ [Next]_vars => RestInv'
  BY FitsStep, ChainedStep, HooksStep DEF FoldInv, RestInv

\* When the tracker rests, the trailer holds all the pending turns and no turn a commit holds,
\* and manual-ref names their refs, unless the summary thread wrote it last from an old reading.
THEOREM TrailerCurrentAtRest == Spec => []TrailerCurrent
<1>1. RestInv /\ OnceInv => TrailerCurrent
  <2> SUFFICES ASSUME RestInv, OnceInv, Quiet, ~worker.late PROVE Current
    BY DEF TrailerCurrent
  <2>1. Covers(trailer)
    BY DEF Quiet, RestInv, TrailerFits, Undisturbed
  <2>2. \A s \in Sessions : PendingOn(s) # {} => s \in refFile
    BY DEF PendingOn, OnceInv, RefsListed
  <2> QED
    BY <2>1, <2>2 DEF Covers, Current
<1>2. Spec => []RestInv
  BY RestInit, RestKept, OnceHolds, PTL DEF Spec
<1> QED
  BY <1>1, <1>2, OnceHolds, PTL
=============================================================================
