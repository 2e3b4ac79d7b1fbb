------------------------- MODULE IntegrationProofs -------------------------
(***************************************************************************)
(* Proofs about Integration, for every set of sessions and branches and    *)
(* every bound.  RepoOK says what ties the refs to the worktrees, JobOK    *)
(* what the operation in progress has made sure of before its next step.   *)
(***************************************************************************)
EXTENDS Integration, TLAPS

\* The commits there are; with markers among them only where a turn can be committed in the
\* middle of a merge.
Span(m) == IF WhileMerging THEN 0..m ELSE 1..m

Trees(m) == [there : BOOLEAN, head : TurnBranches \cup {None}, at : SUBSET Span(m),
             dirty : BOOLEAN, merge : {"no", "marked", "resolved"}, theirs : SUBSET Span(m)]

\* Some branch of the user has these commits.
Landed(R, commits) == \E u \in UserBranches : commits \subseteq R[u]

\* A worktree is on a turn branch of its own session, or where a user's branch has been.
TreeOK(R, t, s) ==
    /\ t.head # None => t.head \in DOMAIN R /\ t.head[1] = s
    /\ ~t.there => t.head = None
    /\ t.merge # "no" => t.head # None
    /\ t.head = None => Landed(R, t.at)

\* A turn branch no worktree is on is in a branch of the user, and nothing is lost.
RepoOK(R, T, m) ==
    /\ m \in 0..MaxCommits
    /\ R = [b \in DOMAIN R |-> R[b]]
    /\ UserBranches \subseteq DOMAIN R /\ DOMAIN R \subseteq Branches
    /\ \A b \in DOMAIN R : R[b] \subseteq Span(m)
    /\ T \in [Sessions -> Trees(m)]
    /\ \A s \in Sessions : TreeOK(R, T[s], s)
    /\ \A b \in DOMAIN R \ UserBranches : T[b[1]].head = b \/ Landed(R, R[b])
    /\ \A c \in 1..m : \E b \in DOMAIN R : c \in R[b]

Kinds == {"none", "turn", "prompt", "align", "resolve", "resolved", "retarget", "exit", "stale"}
Jobs(j) ==
    /\ DOMAIN j = {"kind", "s", "base", "src", "step", "drop"}
    /\ j.kind \in Kinds /\ j.s \in Sessions \cup {None}
    /\ j.base \in UserBranches /\ j.src \in TurnBranches \cup {None}

\* What the steps of a job rely on: the worktree is still on the branch being integrated;
\* before it leaves that branch, and before the branch or the worktree goes, a branch of
\* the user has it all.
JobOK(R, T, j) ==
    /\ Jobs(j)
    /\ j.kind = "none" => j.step = "none"
    /\ j.step # "none" => j.s \in Sessions
    /\ j.src # None => j.src[1] = j.s
    /\ j.step \in {"align", "merge", "abort", "ff", "detach", "ffdir"} => j.src = T[j.s].head
    /\ j.step \in {"merge", "abort", "ff", "detach", "delete", "ffdir"} => j.src # None
    /\ j.step \in {"detach", "delete"} => j.src \in DOMAIN R /\ R[j.src] \subseteq R[j.base]
    /\ j.step \in {"delete", "branches"} => T[j.s].head = None
    /\ j.step \in {"ff", "detach"} => T[j.s].merge = "no"
    /\ j.step = "drop" => T[j.s].head = None \/ Landed(R, R[T[j.s].head])

ProcOK ==
    /\ checkedOut \in UserBranches
    /\ target \in [Sessions -> UserBranches]
    /\ phase \in {"down", "start", "up", "exit", "sweep", "recover"}
    /\ home \in Sessions \cup {None}
    /\ phase \in {"start", "up", "exit", "sweep"} => home \in Sessions
    /\ live \subseteq Sessions /\ turning \subseteq Sessions /\ left \subseteq Sessions
    /\ ctx \in [Sessions -> BOOLEAN]
    /\ delete \in BOOLEAN
    /\ runs \in 0..MaxRuns

Inv == RepoOK(refs, tree, made) /\ JobOK(refs, tree, job) /\ ProcOK

---------------------------------------------------------------------------
(* What kinds of change the repository survives *)

\* What was possible with m commits is possible with more.
LEMMA SpanGrows ==
    ASSUME NEW m \in Nat, NEW n \in Nat, m <= n
    PROVE  Span(m) \subseteq Span(n) /\ Trees(m) \subseteq Trees(n)
<1>1. Span(m) \subseteq Span(n)
  BY DEF Span
<1>2. QED
  BY <1>1 DEF Trees

\* What a branch of the user has, it still has when the branches of the user have grown.
LEMMA LandedStays ==
    ASSUME NEW R, NEW Q, NEW commits, Landed(R, commits),
           \A u \in UserBranches : R[u] \subseteq Q[u]
    PROVE  Landed(Q, commits)
BY DEF Landed

\* The commits are counted: a new one is among those in C.
Counted(m, n, C) == n = m \/ (n = m + 1 /\ n <= MaxCommits /\ n \in C)

\* Q is R with branch b at the commits C.
MovedTo(Q, R, b, C) == Q = [c \in DOMAIN R \cup {b} |-> IF c = b THEN C ELSE R[c]]

\* Branch b is one of session s, and the worktree t is on it.
OnBranch(t, b, s) == b \in TurnBranches /\ b[1] = s /\ t.head = b /\ t.there

\* A branch of the user goes forward, perhaps by a new commit.
LEMMA UserBranchGrows ==
    ASSUME NEW R, NEW T, NEW m, NEW n, NEW u \in UserBranches, NEW C, NEW Q,
           RepoOK(R, T, m),
           Counted(m, n, C),
           R[u] \subseteq C, C \subseteq Span(n),
           MovedTo(Q, R, u, C)
    PROVE  RepoOK(Q, T, n)
<1>1. /\ n \in 0..MaxCommits /\ m \in Nat /\ n \in Nat /\ m <= n
      /\ n = m \/ (n = m + 1 /\ n \in C)
  BY IntegrationAssumption DEF RepoOK, Counted
<1>2. /\ Span(m) \subseteq Span(n) /\ Trees(m) \subseteq Trees(n)
  BY <1>1, SpanGrows
<1>3. /\ DOMAIN Q = DOMAIN R
      /\ Q = [b \in DOMAIN Q |-> Q[b]]
      /\ \A b \in DOMAIN R : R[b] \subseteq Q[b]
      /\ Q[u] = C /\ u \in DOMAIN Q
      /\ \A b \in DOMAIN R \ {u} : Q[b] = R[b]
  BY DEF RepoOK, MovedTo
<1>4. \A v \in UserBranches : R[v] \subseteq Q[v]
  BY <1>3 DEF RepoOK
<1>5. \A b \in DOMAIN Q : Q[b] \subseteq Span(n)
  BY <1>2, <1>3 DEF RepoOK
<1>6. T \in [Sessions -> Trees(n)]
  BY <1>2 DEF RepoOK
<1>7. \A s \in Sessions : TreeOK(Q, T[s], s)
  BY <1>3, <1>4, LandedStays DEF RepoOK, TreeOK
<1>8. \A b \in DOMAIN Q \ UserBranches : T[b[1]].head = b \/ Landed(Q, Q[b])
  BY <1>3, <1>4, LandedStays DEF RepoOK
<1>9. \A c \in 1..n : \E b \in DOMAIN Q : c \in Q[b]
  <2> SUFFICES ASSUME NEW c \in 1..n PROVE \E b \in DOMAIN Q : c \in Q[b]
    OBVIOUS
  <2>1. CASE c \in 1..m
    BY <2>1, <1>3 DEF RepoOK
  <2>2. CASE c \notin 1..m
    <3>1. n = m + 1 /\ c = n /\ n \in C
      BY <2>2, <1>1
    <3>2. QED
      BY <3>1, <1>3
  <2>3. QED
    BY <2>1, <2>2
<1>10. QED
  BY <1>1, <1>3, <1>4, <1>5, <1>6, <1>7, <1>8, <1>9 DEF RepoOK

\* The turn branch of a session goes forward, perhaps by a new commit; a session that was on
\* none goes on a fresh one.
LEMMA TurnBranchGrows ==
    ASSUME NEW R, NEW T, NEW m, NEW n, NEW s \in Sessions, NEW b, NEW C, NEW Q, NEW t,
           RepoOK(R, T, m),
           Counted(m, n, C),
           (T[s].head = b /\ R[b] \subseteq C) \/ (T[s].head = None /\ b \notin DOMAIN R),
           C \subseteq Span(n),
           t \in Trees(n), OnBranch(t, b, s),
           MovedTo(Q, R, b, C)
    PROVE  RepoOK(Q, [T EXCEPT ![s] = t], n)
<1> DEFINE U == [T EXCEPT ![s] = t]
<1>1. /\ n \in 0..MaxCommits /\ m \in Nat /\ n \in Nat /\ m <= n
      /\ n = m \/ (n = m + 1 /\ n \in C)
  BY IntegrationAssumption DEF RepoOK, Counted
<1>2. /\ Span(m) \subseteq Span(n) /\ Trees(m) \subseteq Trees(n)
  BY <1>1, SpanGrows
<1>3. /\ b \in TurnBranches /\ b[1] = s /\ t.head = b /\ t.there
      /\ b \notin UserBranches /\ b # None
  BY IntegrationAssumption DEF OnBranch
<1>4. /\ DOMAIN Q = DOMAIN R \cup {b}
      /\ Q = [c \in DOMAIN Q |-> Q[c]]
      /\ Q[b] = C
      /\ \A c \in DOMAIN R \ {b} : Q[c] = R[c]
      /\ \A c \in DOMAIN R : R[c] \subseteq Q[c]
  BY <1>3, IntegrationAssumption DEF RepoOK, TreeOK, MovedTo
<1>5. \A v \in UserBranches : Q[v] = R[v]
  BY <1>3, <1>4 DEF RepoOK
<1>6. UserBranches \subseteq DOMAIN Q /\ DOMAIN Q \subseteq Branches
  BY <1>3, <1>4 DEF RepoOK, Branches
<1>7. \A c \in DOMAIN Q : Q[c] \subseteq Span(n)
  BY <1>2, <1>4 DEF RepoOK
<1>8. U \in [Sessions -> Trees(n)] /\ U[s] = t /\ \A r \in Sessions \ {s} : U[r] = T[r]
  BY <1>2 DEF RepoOK
<1>9. \A r \in Sessions : TreeOK(Q, U[r], r)
  <2> SUFFICES ASSUME NEW r \in Sessions PROVE TreeOK(Q, U[r], r)
    OBVIOUS
  <2>1. CASE r = s
    BY <2>1, <1>3, <1>4, <1>8 DEF TreeOK
  <2>2. CASE r # s
    <3>1. TreeOK(R, T[r], r) /\ U[r] = T[r]
      BY <2>2, <1>8 DEF RepoOK
    <3>2. QED
      BY <3>1, <1>4, <1>5, LandedStays DEF TreeOK
  <2>3. QED
    BY <2>1, <2>2
<1>10. \A c \in DOMAIN Q \ UserBranches : U[c[1]].head = c \/ Landed(Q, Q[c])
  <2> SUFFICES ASSUME NEW c \in DOMAIN Q \ UserBranches
               PROVE  U[c[1]].head = c \/ Landed(Q, Q[c])
    OBVIOUS
  <2>1. CASE c = b
    BY <2>1, <1>3, <1>8
  <2>2. CASE c # b
    <3>1. c \in DOMAIN R /\ Q[c] = R[c] /\ c[1] \in Sessions
      BY <2>2, <1>4 DEF RepoOK, Branches, TurnBranches
    <3>2. T[c[1]].head = c \/ Landed(R, R[c])
      BY <3>1 DEF RepoOK
    <3>3. CASE Landed(R, R[c])
      <4>1. \A v \in UserBranches : R[v] \subseteq Q[v]
        BY <1>5
      <4>2. Landed(Q, R[c])
        BY <4>1, <3>3, LandedStays
      <4>3. QED
        BY <4>2, <3>1
    <3>4. CASE T[c[1]].head = c
      <4>1. c # None
        BY <3>1, IntegrationAssumption DEF RepoOK, Branches
      <4>2. c[1] # s
        BY <4>1, <3>4, <2>2
      <4>3. QED
        BY <4>2, <3>1, <3>4, <1>8
    <3>5. QED
      BY <3>2, <3>3, <3>4
  <2>3. QED
    BY <2>1, <2>2
<1>11. \A c \in 1..n : \E d \in DOMAIN Q : c \in Q[d]
  <2> SUFFICES ASSUME NEW c \in 1..n PROVE \E d \in DOMAIN Q : c \in Q[d]
    OBVIOUS
  <2>1. CASE c \in 1..m
    BY <2>1, <1>4 DEF RepoOK
  <2>2. CASE c \notin 1..m
    BY <2>2, <1>1, <1>4
  <2>3. QED
    BY <2>1, <2>2
<1>12. QED
  BY <1>1, <1>4, <1>5, <1>6, <1>7, <1>8, <1>9, <1>10, <1>11 DEF RepoOK

\* The branch a session is on takes commits that are there already.
LEMMA HeadGrows ==
    ASSUME NEW R, NEW T, NEW m, NEW s \in Sessions, NEW C, NEW Q,
           RepoOK(R, T, m), T[s].head # None,
           R[T[s].head] \subseteq C, C \subseteq Span(m),
           MovedTo(Q, R, T[s].head, C)
    PROVE  RepoOK(Q, T, m)
<1> DEFINE t == T[s]
           b == T[s].head
<1>1. t \in Trees(m) /\ OnBranch(t, b, s)
  BY DEF RepoOK, TreeOK, Trees, OnBranch
<1>2. [T EXCEPT ![s] = t] = T
  BY DEF RepoOK
<1>3. Counted(m, m, C)
  BY DEF Counted
<1>4. (T[s].head = b /\ R[b] \subseteq C) \/ (T[s].head = None /\ b \notin DOMAIN R)
  OBVIOUS
<1>5. MovedTo(Q, R, b, C)
  OBVIOUS
<1> HIDE DEF t, b
<1>6. RepoOK(Q, [T EXCEPT ![s] = t], m)
  BY <1>1, <1>3, <1>4, <1>5, TurnBranchGrows
<1>7. QED
  BY <1>2, <1>6

\* A worktree changes and stays on its branch, or where it was.
LEMMA WorktreeChanges ==
    ASSUME NEW R, NEW T, NEW m, NEW s \in Sessions, NEW t,
           RepoOK(R, T, m),
           t \in Trees(m), t.head = T[s].head, t.there = T[s].there, t.at = T[s].at,
           t.merge # "no" => t.head # None
    PROVE  RepoOK(R, [T EXCEPT ![s] = t], m)
<1> DEFINE U == [T EXCEPT ![s] = t]
<1>1. U \in [Sessions -> Trees(m)] /\ \A r \in Sessions : U[r].head = T[r].head
  BY DEF RepoOK
<1>2. \A r \in Sessions : TreeOK(R, U[r], r)
  BY DEF RepoOK, TreeOK
<1>3. \A b \in DOMAIN R \ UserBranches : b[1] \in Sessions
  BY DEF RepoOK, Branches, TurnBranches
<1>4. QED
  BY <1>1, <1>2, <1>3 DEF RepoOK

\* A worktree leaves its branch, once a branch of the user has all there is on it.
LEMMA WorktreeLeaves ==
    ASSUME NEW R, NEW T, NEW m, NEW s \in Sessions, NEW t,
           RepoOK(R, T, m),
           t \in Trees(m), t.head = None, t.merge = "no", Landed(R, t.at),
           T[s].head = None \/ Landed(R, R[T[s].head])
    PROVE  RepoOK(R, [T EXCEPT ![s] = t], m)
<1> DEFINE U == [T EXCEPT ![s] = t]
<1>1. U \in [Sessions -> Trees(m)] /\ U[s] = t /\ \A r \in Sessions \ {s} : U[r] = T[r]
  BY DEF RepoOK
<1>2. \A r \in Sessions : TreeOK(R, U[r], r)
  BY <1>1 DEF RepoOK, TreeOK
<1>3. \A b \in DOMAIN R \ UserBranches : U[b[1]].head = b \/ Landed(R, R[b])
  <2> SUFFICES ASSUME NEW b \in DOMAIN R \ UserBranches
               PROVE  U[b[1]].head = b \/ Landed(R, R[b])
    OBVIOUS
  <2>1. b[1] \in Sessions /\ b # None
    BY IntegrationAssumption DEF RepoOK, Branches, TurnBranches
  <2>2. T[b[1]].head = b \/ Landed(R, R[b])
    BY DEF RepoOK
  <2>3. QED
    BY <1>1, <2>1, <2>2
<1>4. QED
  BY <1>1, <1>2, <1>3 DEF RepoOK

\* Turn branches go that no worktree is on.
LEMMA BranchesGo ==
    ASSUME NEW R, NEW T, NEW m, NEW Q, NEW D,
           RepoOK(R, T, m),
           D \subseteq DOMAIN R, UserBranches \subseteq D,
           \A b \in DOMAIN R \ D : T[b[1]].head # b,
           Q = [b \in D |-> R[b]]
    PROVE  /\ RepoOK(Q, T, m)
           /\ \A v \in UserBranches : Q[v] = R[v]
<1>1. /\ DOMAIN Q = D
      /\ Q = [b \in DOMAIN Q |-> Q[b]]
      /\ \A b \in D : Q[b] = R[b]
      /\ \A v \in UserBranches : Q[v] = R[v]
  OBVIOUS
<1>2. \A commits : Landed(R, commits) => Landed(Q, commits)
  BY <1>1 DEF Landed
<1>3. \A s \in Sessions : TreeOK(Q, T[s], s)
  BY <1>1, <1>2 DEF RepoOK, TreeOK
<1>4. \A c \in 1..m : \E b \in DOMAIN Q : c \in Q[b]
  <2> SUFFICES ASSUME NEW c \in 1..m PROVE \E b \in DOMAIN Q : c \in Q[b]
    OBVIOUS
  <2>1. PICK b \in DOMAIN R : c \in R[b]
    BY DEF RepoOK
  <2>2. CASE b \in D
    BY <2>1, <2>2, <1>1
  <2>3. CASE b \notin D
    <3>1. Landed(R, R[b])
      BY <2>3 DEF RepoOK
    <3>2. PICK u \in UserBranches : R[b] \subseteq R[u]
      BY <3>1 DEF Landed
    <3>3. QED
      BY <2>1, <3>2, <1>1
  <2>4. QED
    BY <2>2, <2>3
<1>5. QED
  BY <1>1, <1>2, <1>3, <1>4 DEF RepoOK

---------------------------------------------------------------------------
(* What an operation relies on, while others and its own steps change things *)

\* What a job relies on survives changes to the other worktrees and branches, and growth of the
\* branches of the user.
LEMMA JobStays ==
    ASSUME NEW R, NEW T, NEW m, NEW Q, NEW U, NEW j,
           RepoOK(R, T, m), JobOK(R, T, j),
           \A v \in UserBranches : R[v] \subseteq Q[v],
           \/ j.step = "none"
           \/ /\ U[j.s].head = T[j.s].head /\ U[j.s].merge = T[j.s].merge
              /\ \A b \in DOMAIN R \ UserBranches : b[1] = j.s => b \in DOMAIN Q /\ Q[b] = R[b]
    PROVE  JobOK(Q, U, j)
<1>1. CASE j.step = "none"
  BY <1>1 DEF JobOK
<1>2. CASE j.step # "none"
  <2>1. /\ j.s \in Sessions /\ U[j.s].head = T[j.s].head /\ U[j.s].merge = T[j.s].merge
        /\ \A b \in DOMAIN R \ UserBranches : b[1] = j.s => b \in DOMAIN Q /\ Q[b] = R[b]
    BY <1>2 DEF JobOK
  <2>2. T[j.s].head # None => T[j.s].head \in DOMAIN R \ UserBranches /\ T[j.s].head[1] = j.s
    BY <2>1, IntegrationAssumption DEF RepoOK, TreeOK, Trees
  <2>3. T[j.s].head # None => Q[T[j.s].head] = R[T[j.s].head]
    BY <2>1, <2>2
  <2>4. j.src \in DOMAIN R /\ j.src # None => j.src \in DOMAIN Q /\ Q[j.src] = R[j.src]
    BY <2>1, IntegrationAssumption DEF JobOK, Jobs
  <2>5. j.step \in {"detach", "delete"} => j.src \in DOMAIN Q /\ Q[j.src] \subseteq Q[j.base]
    BY <2>4 DEF JobOK, Jobs
  <2>6. j.step = "drop" => U[j.s].head = None \/ Landed(Q, Q[U[j.s].head])
    <3> SUFFICES ASSUME j.step = "drop", T[j.s].head # None
                 PROVE  Landed(Q, Q[U[j.s].head])
      BY <2>1
    <3>1. Landed(R, R[T[j.s].head])
      BY DEF JobOK
    <3>2. Landed(Q, R[T[j.s].head])
      BY <3>1, LandedStays
    <3>3. QED
      BY <3>2, <2>1, <2>3
  <2>7. QED
    BY <2>1, <2>5, <2>6 DEF JobOK
<1>3. QED
  BY <1>1, <1>2

\* With no job under way there is nothing to rely on.
LEMMA NoJobOK == ASSUME NEW Q, NEW U PROVE JobOK(Q, U, NoJob)
BY IntegrationAssumption DEF JobOK, Jobs, NoJob, Kinds, Detached

Openings == {"align", "merge", "ff", "branch", "retarget", "keep", "drop", "done"}

\* A job starts at a step that asks for no more than the session, its branch and the base.
LEMMA JobBegins ==
    ASSUME NEW Q, NEW U, NEW kind \in Kinds \ {"none"}, NEW s \in Sessions,
           NEW base \in UserBranches, NEW h \in TurnBranches \cup {None},
           NEW step \in Openings, NEW drop \in BOOLEAN,
           h = U[s].head, h # None => h[1] = s,
           step \in {"merge", "ff"} => h # None, step = "ff" => U[s].merge = "no",
           step = "drop" => h = None \/ Landed(Q, Q[h])
    PROVE  JobOK(Q, U, [kind |-> kind, s |-> s, base |-> base, src |-> h, step |-> step,
                        drop |-> drop])
<1> DEFINE j == [kind |-> kind, s |-> s, base |-> base, src |-> h, step |-> step, drop |-> drop]
<1>1. Jobs(j)
  BY DEF Jobs
<1>2. /\ j.kind = kind /\ j.s = s /\ j.src = h /\ j.step = step
  OBVIOUS
<1>3. JobOK(Q, U, j)
  <2> HIDE DEF j
  <2>1. QED
    BY <1>1, <1>2 DEF JobOK, Openings
<1>4. QED
  BY <1>3

\* Going on to another step changes nothing else about the job.
LEMMA NextStep ==
    ASSUME NEW j, Jobs(j), NEW step
    PROVE  /\ Jobs([j EXCEPT !.step = step])
           /\ [j EXCEPT !.step = step].step = step
           /\ [j EXCEPT !.step = step].kind = j.kind
           /\ [j EXCEPT !.step = step].s = j.s
           /\ [j EXCEPT !.step = step].base = j.base
           /\ [j EXCEPT !.step = step].src = j.src
BY DEF Jobs

\* A job goes on to a step that needs nothing made sure of.
LEMMA JobGoesOn ==
    ASSUME NEW R, NEW T, NEW Q, NEW U, NEW j, JobOK(R, T, j), j.step # "none",
           NEW step \in {"branch", "keep", "retarget", "again", "drop"},
           step = "drop" => U[j.s].head = None \/ Landed(Q, Q[U[j.s].head])
    PROVE  JobOK(Q, U, [j EXCEPT !.step = step])
<1> DEFINE k == [j EXCEPT !.step = step]
<1>1. Jobs(j) /\ j.kind # "none" /\ j.s \in Sessions /\ (j.src # None => j.src[1] = j.s)
  BY DEF JobOK
<1>2. Jobs(k) /\ k.kind = j.kind /\ k.s = j.s /\ k.src = j.src /\ k.step = step
  BY <1>1, NextStep
<1>3. JobOK(Q, U, k)
  <2> HIDE DEF k
  <2>1. QED
    BY <1>1, <1>2 DEF JobOK
<1>4. QED
  BY <1>3

\* A job may go on to any step Onward allows; to the drop of the worktree only if its work has
\* landed.
LEMMA OnwardOK ==
    ASSUME NEW R, NEW T, NEW Q, NEW U, NEW landed \in BOOLEAN,
           JobOK(R, T, job), job.step # "none", Onward(landed),
           landed => U[job.s].head = None \/ Landed(Q, Q[U[job.s].head])
    PROVE  JobOK(Q, U, job')
<1>1. CASE job' = NoJob
  BY <1>1, NoJobOK
<1>2. CASE \E step \in {"branch", "keep", "retarget", "again"} : Step(step)
  <2>1. PICK step \in {"branch", "keep", "retarget", "again"} : Step(step)
    BY <1>2
  <2>2. JobOK(Q, U, [job EXCEPT !.step = step])
    BY <2>1, JobGoesOn
  <2>3. QED
    BY <2>1, <2>2 DEF Step
<1>3. CASE landed /\ Step("drop")
  <2>1. JobOK(Q, U, [job EXCEPT !.step = "drop"])
    BY <1>3, JobGoesOn
  <2>2. QED
    BY <1>3, <2>1 DEF Step
<1>4. QED
  BY <1>1, <1>2, <1>3 DEF Onward

---------------------------------------------------------------------------
(* A commit *)

\* The branch a commit goes on belongs to the session, and is either the one it is on or a new one.
LEMMA FreshBranch ==
    ASSUME NEW s \in Sessions, RepoOK(refs, tree, made), CanBranch(s)
    PROVE  /\ TurnBranch(s) \in TurnBranches /\ TurnBranch(s)[1] = s
           /\ tree[s].head = TurnBranch(s) \/ (tree[s].head = None /\ TurnBranch(s) \notin DOMAIN refs)
           /\ tree[s].head # None => TurnBranch(s) = tree[s].head
<1>1. tree[s] \in Trees(made) /\ TreeOK(refs, tree[s], s)
  BY DEF RepoOK
<1>2. CASE tree[s].head # None
  BY <1>1, <1>2 DEF TurnBranch, Detached, Trees, TreeOK
<1>3. CASE tree[s].head = None
  <2> DEFINE k == CHOOSE k \in Free(s) : TRUE
  <2>1. k \in Free(s)
    BY <1>3 DEF CanBranch, Detached
  <2>2. TurnBranch(s) = <<s, k>>
    BY <1>3 DEF TurnBranch, Detached
  <2> HIDE DEF k
  <2>3. k \in 1..MaxTurn /\ <<s, k>> \notin DOMAIN refs
    BY <2>1 DEF Free, Exists
  <2>4. QED
    BY <1>3, <2>2, <2>3 DEF TurnBranches
<1>4. QED
  BY <1>2, <1>3

\* A commit in a worktree is on the session's own turn branch, and leaves the other sessions and the
\* branches of the user as they are.
LEMMA CommitInOK ==
    ASSUME NEW s \in Sessions, RepoOK(refs, tree, made), CanBranch(s), CanCommit(s),
           tree[s].merge = "marked" => WhileMerging,
           CommitIn(s)
    PROVE  /\ RepoOK(refs', tree', made')
           /\ \A v \in UserBranches : refs'[v] = refs[v]
           /\ DOMAIN refs \subseteq DOMAIN refs'
           /\ \A b \in DOMAIN refs : b # tree'[s].head => refs'[b] = refs[b]
           /\ tree'[s].there /\ tree'[s].merge = "no" /\ tree'[s].head \in TurnBranches /\ tree'[s].head[1] = s
           /\ tree[s].head # None => tree'[s].head = tree[s].head
           /\ \A r \in Sessions \ {s} : tree'[r] = tree[r]
<1> DEFINE b == TurnBranch(s)
           C == Tip(s) \cup tree[s].theirs \cup Committed(s)
           n == IF tree[s].merge = "no" THEN NewCommit ELSE made
           t == [NoTree EXCEPT !.there = TRUE, !.head = b]
<1>1. /\ tree[s] \in Trees(made) /\ TreeOK(refs, tree[s], s)
      /\ made \in 0..MaxCommits /\ MaxCommits \in Nat /\ made \in Nat
  BY IntegrationAssumption DEF RepoOK
<1>2. /\ b \in TurnBranches /\ b[1] = s
      /\ tree[s].head = b \/ (tree[s].head = None /\ b \notin DOMAIN refs)
      /\ tree[s].head # None => b = tree[s].head
  BY FreshBranch
<1>3. Counted(made, n, C)
  BY <1>1 DEF Counted, CanCommit, NewCommit, Committed
<1>4. n \in Nat /\ made <= n
  BY <1>1, <1>3 DEF Counted
<1>5. Span(made) \subseteq Span(n) /\ Trees(made) \subseteq Trees(n)
  BY <1>1, <1>4, SpanGrows
<1>6. Tip(s) \subseteq Span(made)
  BY <1>1 DEF Tip, Trees, RepoOK, TreeOK, Detached
<1>7. Committed(s) \subseteq Span(n)
  BY <1>1, <1>4 DEF Committed, Span, Markers, NewCommit, Trees
<1>8. C \subseteq Span(n)
  BY <1>1, <1>5, <1>6, <1>7 DEF Trees
<1>9. tree[s].head = b => refs[b] \subseteq C
  BY <1>2, IntegrationAssumption DEF Tip, Detached
<1>10. t \in Trees(n) /\ t.head = b /\ t.there /\ t.merge = "no"
  BY <1>2 DEF Trees, NoTree
<1>11. MovedTo(refs', refs, b, C)
  BY DEF CommitIn, Moved, Exists, MovedTo
<1>12. tree' = [tree EXCEPT ![s] = t] /\ made' = n
  BY DEF CommitIn
<1> HIDE DEF b, C, n, t
<1>18. OnBranch(t, b, s)
  BY <1>2, <1>10 DEF OnBranch
<1>13. RepoOK(refs', [tree EXCEPT ![s] = t], n)
  BY <1>18, <1>2, <1>3, <1>8, <1>9, <1>10, <1>11, TurnBranchGrows
<1>14. tree \in [Sessions -> Trees(made)]
  BY DEF RepoOK
<1>15. tree'[s] = t /\ \A r \in Sessions \ {s} : tree'[r] = tree[r]
  BY <1>12, <1>14
<1>16. DOMAIN refs \subseteq DOMAIN refs' /\ \A c \in DOMAIN refs : c # b => refs'[c] = refs[c]
  BY <1>11 DEF MovedTo
<1>19. \A v \in UserBranches : refs'[v] = refs[v]
  BY <1>2, <1>16, IntegrationAssumption DEF RepoOK
<1>17. QED
  BY <1>19, <1>2, <1>10, <1>12, <1>13, <1>15, <1>16

---------------------------------------------------------------------------
(* Every action *)

Grows == \A b \in UserBranches : refs[b] \subseteq refs'[b]
Removal == \A s \in Here : ~tree'[s].there => \E b \in UserBranches : Tip(s) \subseteq refs[b]
Good == Inv' /\ Grows /\ Removal

\* Where no worktree goes away, none goes with unintegrated work.
LEMMA TreesStand ==
    ASSUME \A s \in Sessions : tree[s].there => tree'[s].there
    PROVE  Removal
BY DEF Removal, Here

\* No job stays no job, whatever changes.
LEMMA IdleStays ==
    ASSUME NEW R, NEW T, NEW Q, NEW U, NEW j, JobOK(R, T, j), j.kind = "none"
    PROVE  JobOK(Q, U, j)
BY DEF JobOK

\* A step that leaves the repository alone.
LEMMA QuietGood ==
    ASSUME Inv, UNCHANGED <<refs, tree, made>>, JobOK(refs, tree, job'), ProcOK'
    PROVE  Good
<1>1. RepoOK(refs', tree', made') /\ JobOK(refs', tree', job')
  BY DEF Inv
<1>2. Grows /\ Removal
  BY DEF Grows, Removal, Here
<1>3. QED
  BY <1>1, <1>2 DEF Good, Inv

\* A step that commits in a worktree.
LEMMA CommitGood ==
    ASSUME Inv, NEW s \in Sessions, CanBranch(s), CanCommit(s),
           tree[s].merge = "marked" => WhileMerging,
           CommitIn(s), JobOK(refs', tree', job'), ProcOK'
    PROVE  Good
<1>1. RepoOK(refs', tree', made') /\ Grows
  BY CommitInOK DEF Inv, Grows
<1>2. \A r \in Sessions : tree[r].there => tree'[r].there
  BY CommitInOK DEF Inv
<1>3. QED
  BY <1>1, <1>2, TreesStand DEF Good, Inv

\* A step that changes the files of a worktree.
LEMMA WorktreeGood ==
    ASSUME Inv, NEW s \in Sessions, NEW t \in Trees(made),
           t.head = tree[s].head, t.there = tree[s].there, t.at = tree[s].at,
           t.merge # "no" => t.head # None,
           tree' = [tree EXCEPT ![s] = t], UNCHANGED <<refs, made>>,
           JobOK(refs, tree', job'), ProcOK'
    PROVE  Good
<1>1. RepoOK(refs, [tree EXCEPT ![s] = t], made)
  BY WorktreeChanges DEF Inv
<1>2. \A r \in Sessions : tree[r].there => tree'[r].there
  BY DEF Inv, RepoOK
<1>3. Grows /\ Removal
  BY <1>2, TreesStand DEF Grows
<1>4. QED
  BY <1>1, <1>3 DEF Good, Inv

\* A step by which a worktree leaves its branch, or goes.
LEMMA LeaveGood ==
    ASSUME Inv, NEW s \in Sessions, NEW t \in Trees(made),
           t.head = None, t.merge = "no", Landed(refs, t.at),
           tree[s].head = None \/ Landed(refs, refs[tree[s].head]),
           tree' = [tree EXCEPT ![s] = t], UNCHANGED <<refs, made>>,
           JobOK(refs, tree', job'), ProcOK'
    PROVE  Good
<1>1. RepoOK(refs, [tree EXCEPT ![s] = t], made)
  BY WorktreeLeaves DEF Inv
<1>2. tree[s].head = None => Landed(refs, tree[s].at)
  BY DEF Inv, RepoOK, TreeOK
<1>3. Landed(refs, Tip(s))
  BY <1>2 DEF Tip, Detached
<1>4. \A r \in Sessions \ {s} : tree'[r] = tree[r]
  BY DEF Inv, RepoOK
<1>5. Removal
  BY <1>3, <1>4 DEF Removal, Landed, Here
<1>6. Grows
  BY DEF Grows
<1>7. QED
  BY <1>1, <1>5, <1>6 DEF Good, Inv

\* A step that fast-forwards a branch of the user.
LEMMA ForwardGood ==
    ASSUME Inv, NEW u \in UserBranches, NEW C, refs[u] \subseteq C, C \subseteq Span(made),
           refs' = Moved(u, C), UNCHANGED <<tree, made>>,
           JobOK(refs', tree, job'), ProcOK'
    PROVE  Good
<1>1. RepoOK(refs, tree, made)
  BY DEF Inv
<1>2. MovedTo(refs', refs, u, C)
  BY DEF Moved, Exists, MovedTo
<1>3. Counted(made, made, C)
  BY DEF Counted
<1>4. RepoOK(refs', tree, made)
  BY <1>1, <1>2, <1>3, UserBranchGrows
<1>5. Grows
  BY <1>1, <1>2 DEF Grows, MovedTo, RepoOK
<1>6. Removal
  BY TreesStand
<1>7. QED
  BY <1>4, <1>5, <1>6 DEF Good, Inv

\* A step that deletes turn branches.
LEMMA BranchesGoGood ==
    ASSUME Inv, NEW D, D \subseteq DOMAIN refs, UserBranches \subseteq D,
           \A b \in DOMAIN refs \ D : tree[b[1]].head # b,
           refs' = [b \in D |-> refs[b]], UNCHANGED <<tree, made>>,
           JobOK(refs', tree, job'), ProcOK'
    PROVE  Good
<1>1. RepoOK(refs, tree, made)
  BY DEF Inv
<1>2. RepoOK(refs', tree, made) /\ \A v \in UserBranches : refs'[v] = refs[v]
  BY <1>1, BranchesGo
<1>3. Removal
  BY TreesStand
<1>4. QED
  BY <1>2, <1>3 DEF Good, Inv, Grows

\* The user and the agents.

\* UserCommits: the user commits in the repo directory: the branch checked out there grows.
LEMMA UserCommitsGood == ASSUME Inv, UserCommits PROVE Good
<1>1. /\ RepoOK(refs, tree, made) /\ JobOK(refs, tree, job) /\ ProcOK
      /\ made \in Nat /\ MaxCommits \in Nat
  BY IntegrationAssumption DEF Inv, RepoOK
<1>2. checkedOut \in UserBranches
  BY <1>1 DEF ProcOK
<1> DEFINE n == made + 1
           C == refs[checkedOut] \cup {n}
<1>3. /\ MovedTo(refs', refs, checkedOut, C)
      /\ made' = n /\ n = made + 1 /\ n <= MaxCommits /\ UNCHANGED <<tree, procVars, target, checkedOut, job>>
  BY DEF UserCommits, Moved, MovedTo, Exists, NewCommit, procVars
<1>4. C \subseteq Span(n) /\ refs[checkedOut] \subseteq C /\ n \in C
  BY <1>1, <1>2, SpanGrows DEF RepoOK, Span
<1> HIDE DEF C, n
<1>5. RepoOK(refs', tree, n)
  <2>1. Counted(made, n, C)
    BY <1>3, <1>4 DEF Counted
  <2>2. MovedTo(refs', refs, checkedOut, C)
    BY <1>3
  <2>3. RepoOK(refs, tree, made) /\ refs[checkedOut] \subseteq C /\ C \subseteq Span(n)
    BY <1>1, <1>4
  <2>4. QED
    BY <1>2, <2>1, <2>2, <2>3, UserBranchGrows
<1>6. Removal
  BY <1>3, TreesStand
<1>7. \A b \in DOMAIN refs : b \in DOMAIN refs' /\ (b # checkedOut => refs'[b] = refs[b])
  BY <1>3 DEF MovedTo
<1>11. \A v \in UserBranches : refs[v] \subseteq refs'[v]
  BY <1>1, <1>3, <1>4 DEF MovedTo, RepoOK
<1>8. JobOK(refs', tree, job)
  BY <1>1, <1>2, <1>11, <1>7, JobStays
<1>9. ProcOK'
  BY <1>1, <1>3 DEF ProcOK, procVars
<1>10. QED
  BY <1>3, <1>5, <1>6, <1>8, <1>9, <1>11 DEF Good, Inv, Grows

\* UserChecksOut: the user checks out another branch: no branch and no worktree changes.
LEMMA UserChecksOutGood == ASSUME Inv, NEW b \in UserBranches, UserChecksOut(b) PROVE Good
<1>1. ProcOK' /\ UNCHANGED <<refs, tree, made, job>>
  BY DEF Inv, ProcOK, UserChecksOut, procVars
<1>2. QED
  BY <1>1, QuietGood DEF Inv

\* AgentEdits: the agent edits files: the worktree is dirty, and stays on its branch.
LEMMA AgentEditsGood == ASSUME Inv, NEW s \in Sessions, AgentEdits(s) PROVE Good
<1> DEFINE t == [tree[s] EXCEPT !.dirty = TRUE]
<1>1. /\ RepoOK(refs, tree, made) /\ JobOK(refs, tree, job) /\ tree[s] \in Trees(made)
      /\ TreeOK(refs, tree[s], s)
  BY DEF Inv, RepoOK
<1>2. /\ t \in Trees(made)
      /\ t.there = tree[s].there /\ t.head = tree[s].head /\ t.at = tree[s].at
      /\ t.merge = tree[s].merge
  BY <1>1 DEF Trees
<1>3. tree' = [tree EXCEPT ![s] = t] /\ UNCHANGED <<refs, made, procVars>>
  BY DEF AgentEdits
<1> HIDE DEF t
<1>4. ProcOK' /\ job' = job
  BY <1>3 DEF AgentEdits, Inv, ProcOK, procVars
<1>5. \A r \in Sessions : tree'[r].head = tree[r].head /\ tree'[r].merge = tree[r].merge
  BY <1>1, <1>2, <1>3 DEF RepoOK
<1>6. JobOK(refs, tree', job)
  BY <1>1, <1>5, JobStays DEF JobOK
<1>7. QED
  BY <1>1, <1>2, <1>3, <1>4, <1>6, WorktreeGood DEF TreeOK

\* AgentCommits: the agent commits in its worktree, which puts the commit on a turn branch of the session.
LEMMA AgentCommitsGood == ASSUME Inv, NEW s \in Sessions, AgentCommits(s) PROVE Good
<1>1. RepoOK(refs, tree, made) /\ JobOK(refs, tree, job)
  BY DEF Inv
<1>2. /\ CanBranch(s) /\ CanCommit(s) /\ tree[s].merge = "no" /\ job.s # s /\ CommitIn(s)
      /\ tree[s].head # None
  BY IntegrationAssumption DEF AgentCommits, CanBranch, Managed, Detached
<1>3. /\ \A v \in UserBranches : refs'[v] = refs[v]
      /\ DOMAIN refs \subseteq DOMAIN refs'
      /\ \A b \in DOMAIN refs : b # tree'[s].head => refs'[b] = refs[b]
      /\ tree'[s].head[1] = s
      /\ \A r \in Sessions \ {s} : tree'[r] = tree[r]
  BY <1>1, <1>2, CommitInOK
<1>4. ProcOK' /\ job' = job
  BY DEF AgentCommits, Inv, ProcOK, procVars
<1>5. JobOK(refs', tree', job)
  <2>1. \A v \in UserBranches : refs[v] \subseteq refs'[v]
    BY <1>3
  <2>2. \/ job.step = "none"
        \/ tree'[job.s].head = tree[job.s].head /\ tree'[job.s].merge = tree[job.s].merge
    BY <1>1, <1>2, <1>3 DEF JobOK
  <2>3. \A b \in DOMAIN refs \ UserBranches : b[1] = job.s => b \in DOMAIN refs' /\ refs'[b] = refs[b]
    BY <1>2, <1>3
  <2>4. QED
    BY <1>1, <2>1, <2>2, <2>3, JobStays
<1>6. QED
  BY <1>2, <1>4, <1>5, CommitGood

\* MarkersRemoved: the agent resolves a conflict: the merge goes from marked to resolved.
LEMMA MarkersRemovedGood == ASSUME Inv, NEW s \in Sessions, MarkersRemoved(s) PROVE Good
<1> DEFINE t == [tree[s] EXCEPT !.merge = "resolved"]
<1>1. /\ RepoOK(refs, tree, made) /\ JobOK(refs, tree, job) /\ tree[s] \in Trees(made)
      /\ TreeOK(refs, tree[s], s) /\ tree[s].merge = "marked" /\ job.kind = "none"
  BY DEF Inv, RepoOK, MarkersRemoved
<1>2. /\ t \in Trees(made)
      /\ t.there = tree[s].there /\ t.head = tree[s].head /\ t.at = tree[s].at
  BY <1>1 DEF Trees
<1>3. tree' = [tree EXCEPT ![s] = t] /\ UNCHANGED <<refs, made, procVars>>
  BY DEF MarkersRemoved
<1> HIDE DEF t
<1>4. ProcOK' /\ job' = job
  BY <1>3 DEF MarkersRemoved, Inv, ProcOK, procVars
<1>5. JobOK(refs, tree', job')
  BY <1>1, <1>4, IdleStays
<1>6. QED
  BY <1>1, <1>2, <1>3, <1>4, <1>5, WorktreeGood DEF TreeOK

\* TurnEnds: a turn ends: only the process takes note.
LEMMA TurnEndsGood == ASSUME Inv, NEW s \in Sessions, TurnEnds(s) PROVE Good
<1>1. ProcOK' /\ UNCHANGED <<refs, tree, made, job>>
  BY DEF Inv, ProcOK, TurnEnds, repoVars
<1>2. QED
  BY <1>1, QuietGood DEF Inv

\* The steps of a job.

\* A job goes on to a step whose conditions hold.
LEMMA StepOK ==
    ASSUME NEW Q, NEW U, NEW x, Step(x), x # "none", Jobs(job), job.kind # "none",
           job.s \in Sessions, job.src # None => job.src[1] = job.s,
           x \in {"align", "merge", "abort", "ff", "detach", "ffdir"} => job.src = U[job.s].head,
           x \in {"merge", "abort", "ff", "detach", "delete", "ffdir"} => job.src # None,
           x \in {"detach", "delete"} => job.src \in DOMAIN Q /\ Q[job.src] \subseteq Q[job.base],
           x \in {"delete", "branches"} => U[job.s].head = None,
           x \in {"ff", "detach"} => U[job.s].merge = "no",
           x = "drop" => U[job.s].head = None \/ Landed(Q, Q[U[job.s].head])
    PROVE  JobOK(Q, U, job')
<1> DEFINE k == [job EXCEPT !.step = x]
<1>1. /\ Jobs(k) /\ k.kind = job.kind /\ k.s = job.s /\ k.base = job.base /\ k.src = job.src
      /\ k.step = x
  BY NextStep
<1>2. job' = k
  BY DEF Step
<1> HIDE DEF k
<1>3. JobOK(Q, U, k)
  BY <1>1 DEF JobOK
<1>4. QED
  BY <1>2, <1>3

\* What the invariant says in the middle of a job.
LEMMA InJob ==
    ASSUME Inv, job.step # "none"
    PROVE  /\ RepoOK(refs, tree, made) /\ JobOK(refs, tree, job) /\ ProcOK
           /\ Jobs(job) /\ job.kind # "none" /\ job.s \in Sessions
           /\ job.base \in UserBranches /\ job.base \in DOMAIN refs
           /\ job.src \in TurnBranches \cup {None} /\ (job.src # None => job.src[1] = job.s)
           /\ tree[job.s] \in Trees(made) /\ TreeOK(refs, tree[job.s], job.s)
BY DEF Inv, JobOK, Jobs, RepoOK

\* Ticking a session off leaves fewer of them.
LEMMA TickedOK == ASSUME Ticked PROVE left' \subseteq left
BY DEF Ticked

\* A step of a job leaves the process as it is.
LEMMA JobProc ==
    ASSUME Inv, JobFrame, turning' \subseteq turning, left' \subseteq left, ctx' \in [Sessions -> BOOLEAN]
    PROVE  ProcOK' /\ made' = made
BY DEF Inv, ProcOK, JobFrame

\* MergeClean: the base merges into the turn branch: it grows by what a branch of the user already has.
LEMMA MergeCleanGood == ASSUME Inv, MergeClean PROVE Good
<1> DEFINE C == refs[job.src] \cup refs[job.base]
<1>1. /\ job.step = "merge" /\ job.step # "none" /\ tree[job.s].merge = "no"
      /\ UNCHANGED <<tree, turning, ctx>> /\ JobFrame /\ Ticked
      /\ MovedTo(refs', refs, job.src, C)
  BY DEF MergeClean, Moved, MovedTo, Exists
<1>2. /\ RepoOK(refs, tree, made) /\ JobOK(refs, tree, job) /\ ProcOK
      /\ Jobs(job) /\ job.kind # "none" /\ job.s \in Sessions
      /\ job.base \in DOMAIN refs /\ job.src[1] = job.s /\ job.src # None
      /\ job.src = tree[job.s].head
  BY <1>1, InJob DEF JobOK
<1>3. job.src \in DOMAIN refs
  BY <1>2 DEF RepoOK, TreeOK
<1>4. C \subseteq Span(made) /\ refs[job.src] \subseteq C
  BY <1>2, <1>3 DEF RepoOK
<1> HIDE DEF C
<1>5. RepoOK(refs', tree, made)
  <2>1. MovedTo(refs', refs, tree[job.s].head, C) /\ refs[tree[job.s].head] \subseteq C
    BY <1>1, <1>2, <1>4
  <2>2. tree[job.s].head # None
    BY <1>2
  <2>3. QED
    BY <2>1, <2>2, <1>2, <1>4, HeadGrows
<1>7. JobOK(refs', tree, job')
  <2>1. CASE job' = NoJob
    BY <2>1, NoJobOK
  <2>2. CASE \E x \in {"ff", "ffdir"} : Step(x)
    BY <2>2, <1>1, <1>2, StepOK
  <2>3. QED
    BY <2>1, <2>2 DEF MergeClean
<1>8. ProcOK' /\ made' = made
  BY <1>1, TickedOK, JobProc DEF Inv, ProcOK
<1>9. Grows /\ Removal
  BY <1>1, <1>2, <1>4, TreesStand DEF Grows, MovedTo, RepoOK
<1>10. QED
  BY <1>1, <1>5, <1>7, <1>8, <1>9 DEF Good, Inv

\* MergeConflicts: the merge stops at conflicts: the worktree is marked and stays on its branch.
LEMMA MergeConflictsGood == ASSUME Inv, MergeConflicts PROVE Good
<1>1. job.step = "merge" /\ JobFrame /\ UNCHANGED <<refs, turning, left>>
  BY DEF MergeConflicts
<1>2. /\ RepoOK(refs, tree, made) /\ JobOK(refs, tree, job) /\ ProcOK
      /\ Jobs(job) /\ job.kind # "none" /\ job.s \in Sessions
      /\ job.base \in DOMAIN refs /\ job.src # None /\ tree[job.s].head = job.src
      /\ (job.src # None => job.src[1] = job.s)
      /\ tree[job.s] \in Trees(made)
  BY <1>1, InJob DEF JobOK
<1>3. ctx' \in [Sessions -> BOOLEAN]
  BY <1>2 DEF MergeConflicts, ProcOK
<1>4. ProcOK' /\ made' = made
  BY <1>1, <1>3, JobProc
<1>5. ASSUME tree'[job.s].head = tree[job.s].head PROVE JobOK(refs, tree', job')
  <2>1. CASE job' = NoJob
    BY <2>1, NoJobOK
  <2>2. CASE Step("abort")
    BY <2>2, <1>2, <1>5, StepOK
  <2>3. QED
    BY <2>1, <2>2 DEF MergeConflicts
<1>6. CASE UNCHANGED tree
  BY <1>1, <1>4, <1>5, <1>6, QuietGood
<1>7. CASE tree' = [tree EXCEPT ![job.s].merge = "marked", ![job.s].theirs = refs[job.base]]
  <2> DEFINE t == [tree[job.s] EXCEPT !.merge = "marked", !.theirs = refs[job.base]]
  <2>1. refs[job.base] \in SUBSET Span(made)
    BY <1>2 DEF RepoOK
  <2>2. /\ t \in Trees(made) /\ t.there = tree[job.s].there
        /\ t.head = tree[job.s].head /\ t.at = tree[job.s].at
    BY <2>1, <1>2 DEF Trees
  <2>3. tree' = [tree EXCEPT ![job.s] = t]
    BY <1>7, <1>2 DEF RepoOK
  <2> HIDE DEF t
  <2>4. tree'[job.s].head = tree[job.s].head
    BY <2>2, <2>3, <1>2 DEF RepoOK
  <2>5. QED
    BY <2>2, <2>3, <2>4, <1>1, <1>2, <1>4, <1>5, WorktreeGood
<1>8. QED
  BY <1>6, <1>7 DEF MergeConflicts

\* A step that only looks, and leaves the integration undone.
LEMMA GivesUpGood ==
    ASSUME Inv, job.step # "none", Onward(FALSE), Ticked, JobFrame,
           UNCHANGED <<refs, tree, turning, ctx>>
    PROVE  Good
<1>1. ProcOK' /\ made' = made
  BY TickedOK, JobProc DEF Inv, ProcOK
<1>2. JobOK(refs, tree, job')
  BY OnwardOK DEF Inv
<1>3. QED
  BY <1>1, <1>2, QuietGood

\* MergeRefused: git refuses the merge: the job gives up, and nothing has changed.
LEMMA MergeRefusedGood == ASSUME Inv, MergeRefused PROVE Good
BY GivesUpGood DEF MergeRefused

\* FastForwardRefused: the base is no longer an ancestor: the job gives up, and nothing has changed.
LEMMA FastForwardRefusedGood == ASSUME Inv, FastForwardRefused PROVE Good
BY GivesUpGood DEF FastForwardRefused

\* MergeAbort: the merge is aborted: the worktree is as it was before it.
LEMMA MergeAbortGood == ASSUME Inv, MergeAbort PROVE Good
<1> DEFINE t == [tree[job.s] EXCEPT !.merge = "no", !.theirs = {}]
<1>1. /\ job.step = "abort" /\ JobFrame /\ Ticked /\ Onward(FALSE) /\ UNCHANGED <<refs, turning, ctx>>
      /\ tree' = [tree EXCEPT ![job.s].merge = "no", ![job.s].theirs = {}]
  BY DEF MergeAbort
<1>2. /\ RepoOK(refs, tree, made) /\ JobOK(refs, tree, job) /\ job.s \in Sessions
      /\ tree[job.s] \in Trees(made)
  BY <1>1, InJob
<1>3. /\ t \in Trees(made) /\ t.there = tree[job.s].there
      /\ t.head = tree[job.s].head /\ t.at = tree[job.s].at /\ t.merge = "no"
  BY <1>2 DEF Trees
<1>4. tree' = [tree EXCEPT ![job.s] = t]
  BY <1>1, <1>2 DEF RepoOK
<1> HIDE DEF t
<1>5. JobOK(refs, tree', job')
  BY <1>1, <1>2, OnwardOK
<1>6. ProcOK' /\ made' = made
  BY <1>1, TickedOK, JobProc DEF Inv, ProcOK
<1>7. QED
  BY <1>1, <1>2, <1>3, <1>4, <1>5, <1>6, WorktreeGood

\* FastForward: the base takes the turn branch, so a branch of the user has all that is on it from here on.
LEMMA FastForwardGood == ASSUME Inv, FastForward PROVE Good
<1>1. /\ job.step = "ff" /\ refs[job.base] \subseteq refs[job.src]
      /\ refs' = Moved(job.base, refs[job.src]) /\ Step("detach")
      /\ JobFrame /\ UNCHANGED <<tree, turning, ctx, left>>
  BY DEF FastForward
<1>2. /\ RepoOK(refs, tree, made) /\ JobOK(refs, tree, job) /\ ProcOK
      /\ Jobs(job) /\ job.kind # "none" /\ job.s \in Sessions
      /\ job.base \in UserBranches
      /\ job.src # None /\ tree[job.s].head = job.src /\ job.src \in TurnBranches
      /\ (job.src # None => job.src[1] = job.s)
      /\ tree[job.s].merge = "no" /\ TreeOK(refs, tree[job.s], job.s)
  BY <1>1, InJob DEF JobOK
<1>3. job.src \in DOMAIN refs /\ refs[job.src] \subseteq Span(made) /\ job.src # job.base
  BY <1>2, IntegrationAssumption DEF TreeOK, RepoOK
<1>4. job.src \in DOMAIN refs' /\ refs'[job.src] \subseteq refs'[job.base]
  BY <1>1, <1>3 DEF Moved, Exists
<1>5. JobOK(refs', tree, job')
  BY <1>1, <1>2, <1>4, StepOK
<1>6. ProcOK' /\ made' = made
  BY <1>1, JobProc DEF Inv, ProcOK
<1>7. QED
  BY <1>1, <1>2, <1>3, <1>5, <1>6, ForwardGood

\* Detach: the worktree leaves the turn branch for the base, which has all of it.
LEMMA DetachGood == ASSUME Inv, Detach PROVE Good
<1> DEFINE t == [tree[job.s] EXCEPT !.head = None, !.at = refs[job.base]]
<1>1. /\ job.step = "detach" /\ Step("delete") /\ JobFrame /\ UNCHANGED <<refs, turning, ctx, left>>
      /\ tree' = [tree EXCEPT ![job.s].head = None, ![job.s].at = refs[job.base]]
  BY DEF Detach, Detached
<1>2. /\ RepoOK(refs, tree, made) /\ JobOK(refs, tree, job) /\ ProcOK
      /\ Jobs(job) /\ job.kind # "none" /\ job.s \in Sessions
      /\ job.base \in UserBranches /\ job.base \in DOMAIN refs
      /\ job.src # None /\ tree[job.s].head = job.src
      /\ (job.src # None => job.src[1] = job.s)
      /\ job.src \in DOMAIN refs /\ refs[job.src] \subseteq refs[job.base]
      /\ tree[job.s].merge = "no" /\ tree[job.s] \in Trees(made)
  BY <1>1, InJob DEF JobOK
<1>3. refs[job.base] \subseteq Span(made)
  BY <1>2 DEF RepoOK
<1>4. t \in Trees(made) /\ t.head = None /\ t.merge = "no" /\ t.at = refs[job.base]
  BY <1>2, <1>3 DEF Trees
<1>5. tree' = [tree EXCEPT ![job.s] = t]
  BY <1>1, <1>2 DEF RepoOK
<1> HIDE DEF t
<1>6. Landed(refs, t.at) /\ Landed(refs, refs[tree[job.s].head])
  BY <1>2, <1>4 DEF Landed
<1>7. tree'[job.s].head = None
  BY <1>2, <1>4, <1>5 DEF RepoOK
<1>8. JobOK(refs, tree', job')
  BY <1>1, <1>2, <1>7, StepOK
<1>9. ProcOK' /\ made' = made
  BY <1>1, JobProc DEF Inv, ProcOK
<1>10. QED
  BY <1>1, <1>2, <1>4, <1>5, <1>6, <1>8, <1>9, LeaveGood

\* DeleteBranch: the turn branch goes, once its worktree is off it and the base has all of it.
LEMMA DeleteBranchGood == ASSUME Inv, DeleteBranch PROVE Good
<1>1. /\ job.step = "delete" /\ Onward(TRUE) /\ JobFrame /\ Ticked /\ UNCHANGED tree
      /\ refs' = Others(job.src) /\ turning' \subseteq turning
  BY DEF DeleteBranch
<1>2. /\ RepoOK(refs, tree, made) /\ JobOK(refs, tree, job) /\ ProcOK /\ job.s \in Sessions
      /\ job.src \in TurnBranches /\ job.src[1] = job.s /\ job.src # None
      /\ tree[job.s].head = None
  BY <1>1, InJob DEF JobOK
<1> DEFINE D == DOMAIN refs \ {job.src}
<1>3. /\ D \subseteq DOMAIN refs /\ UserBranches \subseteq D
      /\ \A b \in DOMAIN refs \ D : tree[b[1]].head # b
  BY <1>2, IntegrationAssumption DEF RepoOK
<1>4. refs' = [b \in D |-> refs[b]]
  BY <1>1 DEF Others, Exists
<1>5. JobOK(refs', tree, job')
  BY <1>1, <1>2, OnwardOK
<1>6. ctx' \in [Sessions -> BOOLEAN]
  BY <1>2 DEF DeleteBranch, ProcOK
<1>7. ProcOK' /\ made' = made
  BY <1>1, <1>6, TickedOK, JobProc
<1> HIDE DEF D
<1>8. QED
  BY <1>1, <1>3, <1>4, <1>5, <1>7, BranchesGoGood

\* PromptBranch: the worktree goes on a new branch where it stands.
LEMMA PromptBranchGood == ASSUME Inv, PromptBranch PROVE Good
<1> DEFINE r == job.s
           b == TurnBranch(r)
           C == Tip(r)
           t == [tree[r] EXCEPT !.head = b, !.at = {}]
<1>1. /\ job.step = "branch" /\ tree[r].there /\ CanBranch(r) /\ JobFrame /\ UNCHANGED <<ctx, left>>
      /\ MovedTo(refs', refs, b, C)
      /\ tree' = [tree EXCEPT ![r].head = b, ![r].at = {}]
      /\ turning' = turning \cup {r} /\ job' = NoJob
  BY DEF PromptBranch, Moved, MovedTo, Exists, Here
<1>2. /\ RepoOK(refs, tree, made) /\ ProcOK /\ r \in Sessions
      /\ tree[r] \in Trees(made) /\ TreeOK(refs, tree[r], r)
  BY <1>1, InJob
<1>3. /\ b \in TurnBranches /\ b[1] = r
      /\ tree[r].head = b \/ (tree[r].head = None /\ b \notin DOMAIN refs)
  BY <1>1, <1>2, FreshBranch
<1>4. tree[r].head = b => refs[b] = C
  BY <1>3, IntegrationAssumption DEF Tip, Detached
<1>5. C \subseteq Span(made)
  BY <1>2 DEF Tip, Detached, RepoOK, TreeOK, Trees
<1>6. t \in Trees(made) /\ t.head = b /\ t.there = tree[r].there
  BY <1>2, <1>3 DEF Trees
<1>7. tree' = [tree EXCEPT ![r] = t]
  BY <1>1, <1>2 DEF RepoOK
<1>8. Counted(made, made, C) /\ OnBranch(t, b, r)
  BY <1>1, <1>3, <1>6 DEF Counted, OnBranch
<1>9. (tree[r].head = b /\ refs[b] \subseteq C) \/ (tree[r].head = None /\ b \notin DOMAIN refs)
  BY <1>3, <1>4
<1> HIDE DEF b, C, t, r
<1>10. RepoOK(refs', [tree EXCEPT ![r] = t], made)
  BY <1>1, <1>2, <1>5, <1>6, <1>8, <1>9, TurnBranchGrows
<1>11. Grows
  BY <1>1, <1>2, <1>3, IntegrationAssumption DEF Grows, MovedTo, RepoOK
<1>12. Removal
  BY <1>2, <1>6, <1>7, TreesStand DEF RepoOK
<1>13. JobOK(refs', tree', job')
  BY <1>1, NoJobOK
<1>14. ProcOK' /\ made' = made
  BY <1>1, <1>2 DEF ProcOK, JobFrame
<1>15. QED
  BY <1>7, <1>10, <1>11, <1>12, <1>13, <1>14 DEF Good, Inv

\* align_session_to_base takes a session off its branch only when the base has it all.
LEMMA RepointedGood ==
    ASSUME Inv, NEW s \in Sessions, NEW base \in UserBranches, tree' = Repointed(s, base),
           UNCHANGED <<refs, made>>, JobOK(refs, tree', job'), ProcOK'
    PROVE  Good
<1> DEFINE t == TreeAt(refs[base])
<1>1. RepoOK(refs, tree, made) /\ tree[s] \in Trees(made)
  BY DEF Inv, RepoOK
<1>2. CASE AlignLook(s, base) # "repoint"
  <2>1. tree' = tree
    BY <1>1, <1>2 DEF Repointed, RepoOK
  <2>2. QED
    BY <2>1, QuietGood
<1>3. CASE AlignLook(s, base) = "repoint"
  <2>1. tree' = [tree EXCEPT ![s] = t]
    BY <1>3 DEF Repointed
  <2>2. refs[base] \subseteq Span(made)
    BY <1>1 DEF RepoOK
  <2>3. t \in Trees(made) /\ t.head = None /\ t.merge = "no" /\ t.at = refs[base]
    BY <2>2 DEF TreeAt, NoTree, Trees, Detached
  <2>4. Landed(refs, t.at)
    BY <2>3 DEF Landed
  <2>5. tree[s].head = None \/ Landed(refs, refs[tree[s].head])
    <3>1. tree[s].head # None => Ahead(base, tree[s].head) = {}
      BY <1>1, <1>3 DEF AlignLook, Managed, Trees
    <3>2. QED
      BY <3>1 DEF Ahead, Landed
  <2> HIDE DEF t
  <2>6. QED
    BY <2>1, <2>3, <2>4, <2>5, LeaveGood
<1>4. QED
  BY <1>2, <1>3

\* StartAlign: the worktree moves to its base: the branch it leaves has landed there.
LEMMA StartAlignGood == ASSUME Inv, StartAlign PROVE Good
<1>1. /\ job.step = "align" /\ tree' = Repointed(job.s, job.base) /\ JobFrame
      /\ UNCHANGED <<refs, turning, ctx, left>>
  BY DEF StartAlign
<1>2. /\ RepoOK(refs, tree, made) /\ ProcOK /\ Jobs(job) /\ job.kind # "none"
      /\ job.s \in Sessions /\ job.base \in UserBranches
      /\ job.src = tree[job.s].head /\ (job.src # None => job.src[1] = job.s)
  BY <1>1, InJob DEF JobOK
<1>3. JobOK(refs, tree', job')
  <2>1. CASE job' = NoJob
    BY <2>1, NoJobOK
  <2>2. CASE AlignLook(job.s, job.base) = "merge" /\ Step("merge")
    <3>1. tree' = tree
      BY <1>1, <1>2, <2>2 DEF Repointed, RepoOK
    <3>2. job.src # None
      BY <1>2, <2>2, IntegrationAssumption DEF AlignLook, Managed
    <3>3. QED
      BY <1>2, <2>2, <3>1, <3>2, StepOK
  <2>3. QED
    BY <2>1, <2>2 DEF StartAlign
<1>4. ProcOK' /\ made' = made
  BY <1>1, JobProc DEF Inv, ProcOK
<1>5. QED
  BY <1>1, <1>2, <1>3, <1>4, RepointedGood

\* KeepOrDelete: at exit a worktree is kept or goes; it goes only when its branch has landed.
LEMMA KeepOrDeleteGood == ASSUME Inv, KeepOrDelete PROVE Good
<1>1. job.step = "keep" /\ JobFrame /\ Ticked /\ UNCHANGED <<refs, tree, turning, ctx>>
  BY DEF KeepOrDelete
<1>2. /\ JobOK(refs, tree, job) /\ job.s \in Sessions /\ tree[job.s] \in Trees(made)
      /\ job.base \in UserBranches
  BY <1>1, InJob
<1>3. JobOK(refs, tree, job')
  <2>1. CASE job' = NoJob
    BY <2>1, NoJobOK
  <2>2. CASE Step("drop") /\ (Managed(tree[job.s].head) => Ahead(job.base, tree[job.s].head) = {})
    <3>1. tree[job.s].head = None \/ Landed(refs, refs[tree[job.s].head])
      BY <1>2, <2>2 DEF Managed, Trees, Ahead, Landed
    <3>2. QED
      BY <1>1, <1>2, <2>2, <3>1, JobGoesOn DEF Step
  <2>3. QED
    BY <2>1, <2>2 DEF KeepOrDelete
<1>4. ProcOK' /\ made' = made
  BY <1>1, TickedOK, JobProc DEF Inv, ProcOK
<1>5. QED
  BY <1>1, <1>3, <1>4, QuietGood

\* RemoveTree: the worktree goes: it is off its branch, or a branch of the user has it.
LEMMA RemoveTreeGood == ASSUME Inv, RemoveTree PROVE Good
<1>1. /\ job.step = "drop" /\ Step("branches") /\ JobFrame /\ UNCHANGED <<refs, turning, ctx, left>>
      /\ tree' = [tree EXCEPT ![job.s] = NoTree]
  BY DEF RemoveTree
<1>2. /\ RepoOK(refs, tree, made) /\ JobOK(refs, tree, job) /\ Jobs(job) /\ job.kind # "none"
      /\ job.s \in Sessions /\ (job.src # None => job.src[1] = job.s)
      /\ tree[job.s].head = None \/ Landed(refs, refs[tree[job.s].head])
  BY <1>1, InJob DEF JobOK
<1>3. NoTree \in Trees(made) /\ NoTree.head = None /\ NoTree.merge = "no" /\ NoTree.at = {}
  BY DEF NoTree, Trees, Detached
<1>4. Landed(refs, NoTree.at)
  BY <1>3, IntegrationAssumption DEF Landed
<1>5. tree'[job.s].head = None
  BY <1>1, <1>2, <1>3 DEF RepoOK
<1>6. JobOK(refs, tree', job')
  BY <1>1, <1>2, <1>5, StepOK
<1>7. ProcOK' /\ made' = made
  BY <1>1, JobProc DEF Inv, ProcOK
<1>8. QED
  BY <1>1, <1>2, <1>3, <1>4, <1>6, <1>7, LeaveGood

\* RemoveBranches: the turn branches of a removed worktree go: each has landed, for no worktree is on it.
LEMMA RemoveBranchesGood == ASSUME Inv, RemoveBranches PROVE Good
<1> DEFINE D == {c \in Exists : Managed(c) => c[1] # job.s}
<1>1. /\ job.step = "branches" /\ job' = NoJob /\ JobFrame /\ Ticked /\ UNCHANGED <<tree, turning, ctx>>
      /\ refs' = [b \in D |-> refs[b]]
  BY DEF RemoveBranches
<1>2. RepoOK(refs, tree, made) /\ tree[job.s].head = None
  BY <1>1, InJob DEF JobOK
<1>3. /\ D \subseteq DOMAIN refs /\ UserBranches \subseteq D
      /\ \A b \in DOMAIN refs \ D : b \in TurnBranches /\ b[1] = job.s
  BY <1>2, IntegrationAssumption DEF RepoOK, Exists, Managed
<1>4. \A b \in DOMAIN refs \ D : tree[b[1]].head # b
  BY <1>2, <1>3, IntegrationAssumption
<1>5. JobOK(refs', tree, job')
  BY <1>1, NoJobOK
<1>6. ProcOK' /\ made' = made
  BY <1>1, TickedOK, JobProc DEF Inv, ProcOK
<1> HIDE DEF D
<1>7. QED
  BY <1>1, <1>3, <1>4, <1>5, <1>6, BranchesGoGood

\* ForwardDir: the branch checked out in the repo directory takes the turn branch of a stale worktree.
LEMMA ForwardDirGood == ASSUME Inv, ForwardDir PROVE Good
<1>1. /\ job.step = "ffdir" /\ refs[checkedOut] \subseteq refs[job.src]
      /\ refs' = Moved(checkedOut, refs[job.src]) /\ Onward(TRUE) /\ Ticked
      /\ JobFrame /\ UNCHANGED <<tree, turning, ctx>>
  BY DEF ForwardDir
<1>2. /\ RepoOK(refs, tree, made) /\ JobOK(refs, tree, job) /\ ProcOK /\ job.s \in Sessions
      /\ job.src \in TurnBranches /\ job.src # None /\ tree[job.s].head = job.src
      /\ TreeOK(refs, tree[job.s], job.s) /\ checkedOut \in UserBranches
  BY <1>1, InJob DEF JobOK, ProcOK
<1>3. job.src \in DOMAIN refs /\ refs[job.src] \subseteq Span(made) /\ job.src # checkedOut
  BY <1>2, IntegrationAssumption DEF TreeOK, RepoOK
<1>4. Landed(refs', refs'[tree[job.s].head])
  <2>1. refs'[job.src] = refs'[checkedOut]
    BY <1>1, <1>3 DEF Moved, Exists
  <2>2. QED
    BY <2>1, <1>2 DEF Landed
<1>5. JobOK(refs', tree, job')
  BY <1>1, <1>2, <1>4, OnwardOK
<1>6. ProcOK' /\ made' = made
  BY <1>1, TickedOK, JobProc DEF Inv, ProcOK
<1>7. QED
  BY <1>1, <1>2, <1>3, <1>5, <1>6, ForwardGood

\* A job that ends where it is.
LEMMA EndsGood ==
    ASSUME Inv, job' = NoJob, Ticked, JobFrame, UNCHANGED <<refs, tree, turning, ctx>>
    PROVE  Good
<1>1. ProcOK' /\ made' = made
  BY TickedOK, JobProc DEF Inv, ProcOK
<1>2. JobOK(refs, tree, job')
  BY NoJobOK
<1>3. QED
  BY <1>1, <1>2, QuietGood

\* ForwardDirRefused: it cannot be fast-forwarded: the job goes on to the next worktree.
LEMMA ForwardDirRefusedGood == ASSUME Inv, ForwardDirRefused PROVE Good
BY EndsGood DEF ForwardDirRefused

\* StaleDone: a stale worktree is done with.
LEMMA StaleDoneGood == ASSUME Inv, StaleDone PROVE Good
BY EndsGood DEF StaleDone

\* Another round of the sweep over a stale worktree begins like a job.
LEMMA StaleJobOK ==
    ASSUME RepoOK(refs', tree', made'), NEW s \in Sessions, NEW base \in UserBranches,
           NEW drop \in BOOLEAN, StaleJob(s, base, drop)
    PROVE  JobOK(refs', tree', job')
<1> DEFINE h == tree'[s].head
           step == IF Managed(h) /\ ~ refs'[h] \subseteq refs'[base]
                   THEN "merge" ELSE IF drop THEN "drop" ELSE "done"
<1>1. h \in TurnBranches \cup {None} /\ (h # None => h[1] = s)
  BY DEF RepoOK, TreeOK, Trees
<1>2. step \in Openings /\ (step # "ff")
  BY DEF Openings
<1>3. step \in {"merge", "ff"} => h # None
  BY IntegrationAssumption DEF Managed
<1>4. step = "drop" => h = None \/ Landed(refs', refs'[h])
  BY <1>1 DEF Managed, Landed
<1>5. job' = [kind |-> "stale", s |-> s, base |-> base, src |-> h, step |-> step, drop |-> drop]
  BY DEF StaleJob
<1>6. "stale" \in Kinds \ {"none"}
  BY DEF Kinds
<1>7. h = tree'[s].head
  OBVIOUS
<1> HIDE DEF step, h
<1>8. JobOK(refs', tree', [kind |-> "stale", s |-> s, base |-> base, src |-> h, step |-> step, drop |-> drop])
  BY <1>1, <1>2, <1>3, <1>4, <1>6, <1>7, JobBegins
<1>9. QED
  BY <1>5, <1>8

\* StaleAgain: the sweep looks at the worktree again, from what the refs say by now.
LEMMA StaleAgainGood == ASSUME Inv, StaleAgain PROVE Good
<1>1. /\ job.step = "again" /\ UNCHANGED <<refs, tree, turning, ctx, left>> /\ JobFrame
      /\ StaleJob(job.s, checkedOut, TRUE)
  BY DEF StaleAgain
<1>2. RepoOK(refs, tree, made) /\ ProcOK /\ job.s \in Sessions /\ checkedOut \in UserBranches
  BY <1>1, InJob DEF ProcOK
<1>3. ProcOK' /\ made' = made
  BY <1>1, <1>2, JobProc DEF ProcOK
<1>4. JobOK(refs', tree', job')
  BY <1>1, <1>2, <1>3, StaleJobOK
<1>5. QED
  BY <1>1, <1>3, <1>4, QuietGood

\* Retargeted: the worktree takes a new merge branch, and stands there if it had nothing of its own.
LEMMA RetargetedGood == ASSUME Inv, NEW b \in UserBranches, Retargeted(b) PROVE Good
<1> DEFINE t == TreeAt(refs[b])
<1>1. /\ job.step = "retarget" /\ job' = NoJob
      /\ UNCHANGED <<refs, checkedOut, phase, home, live, turning, ctx, left, delete, runs, made>>
  BY DEF Retargeted
<1>2. /\ RepoOK(refs, tree, made) /\ ProcOK /\ job.s \in Sessions
      /\ tree[job.s] \in Trees(made) /\ b \in DOMAIN refs
  BY <1>1, InJob DEF RepoOK
<1>3. JobOK(refs, tree', job')
  BY <1>1, NoJobOK
<1>4. ProcOK'
  BY <1>1, <1>2 DEF Retargeted, ProcOK
<1>5. CASE Unintegrated(job.s)
  <2>1. tree' = tree
    BY <1>5 DEF Retargeted
  <2>2. QED
    BY <2>1, <1>1, <1>3, <1>4, QuietGood
<1>6. CASE ~Unintegrated(job.s)
  <2>1. tree' = [tree EXCEPT ![job.s] = t]
    BY <1>6 DEF Retargeted
  <2>2. refs[b] \subseteq Span(made)
    BY <1>2 DEF RepoOK
  <2>3. t \in Trees(made) /\ t.head = None /\ t.merge = "no" /\ t.at = refs[b]
    BY <2>2 DEF TreeAt, NoTree, Trees, Detached
  <2>4. Landed(refs, t.at)
    BY <2>3 DEF Landed
  <2>5. tree[job.s].head = None \/ Landed(refs, refs[tree[job.s].head])
    <3>1. tree[job.s].head # None => Ahead(target[job.s], tree[job.s].head) = {}
      BY <1>2, <1>6 DEF Unintegrated, Managed, Trees
    <3>2. target[job.s] \in UserBranches
      BY <1>2 DEF ProcOK
    <3>3. QED
      BY <3>1, <3>2 DEF Ahead, Landed
  <2> HIDE DEF t
  <2>6. QED
    BY <2>1, <2>3, <2>4, <2>5, <1>1, <1>2, <1>3, <1>4, LeaveGood
<1>7. QED
  BY <1>5, <1>6

\* Sessions.

\* What a session step finds: no job, and the repository in order.
LEMMA IdleFacts ==
    ASSUME Inv, job.kind = "none", NEW s \in Sessions
    PROVE  /\ RepoOK(refs, tree, made) /\ ProcOK
           /\ tree[s] \in Trees(made) /\ TreeOK(refs, tree[s], s)
           /\ target[s] \in UserBranches /\ checkedOut \in UserBranches
           /\ target[s] \in DOMAIN refs /\ checkedOut \in DOMAIN refs
           /\ tree[s].head \in TurnBranches \cup {None} /\ (tree[s].head # None => tree[s].head[1] = s)
           /\ JobOK(refs', tree', job)
BY IdleStays DEF Inv, RepoOK, ProcOK, Trees, TreeOK

\* TurnCommit: a turn is committed on the session's own branch.
LEMMA TurnCommitGood == ASSUME Inv, NEW s \in Sessions, TurnCommit(s) PROVE Good
<1>1. /\ job.kind = "none" /\ CanCommit(s) /\ CanBranch(s) /\ CommitIn(s)
      /\ tree[s].merge = "marked" => WhileMerging
      /\ UNCHANGED <<checkedOut, target, phase, home, live, ctx, job, left, delete, runs>>
      /\ turning' = turning \ {s}
  BY DEF TurnCommit, Idle
<1>2. JobOK(refs', tree', job') /\ ProcOK
  BY <1>1, IdleFacts
<1>3. ProcOK'
  BY <1>1, <1>2 DEF ProcOK
<1>4. QED
  BY <1>1, <1>2, <1>3, CommitGood

\* A job begins with a merge, or with something that needs nothing made sure of.
LEMMA BeginsOK ==
    ASSUME Inv, job.kind = "none", NEW s \in Sessions, UNCHANGED <<refs, tree>>,
           NEW kind \in Kinds \ {"none"}, NEW base \in UserBranches,
           NEW step \in {"merge", "branch", "retarget"}, NEW drop \in BOOLEAN,
           step = "merge" => tree[s].head # None,
           Begins(kind, s, base, step, drop)
    PROVE  JobOK(refs', tree', job')
<1> DEFINE h == tree[s].head
<1>1. h \in TurnBranches \cup {None} /\ (h # None => h[1] = s) /\ h = tree'[s].head
  BY IdleFacts
<1>2. job' = [kind |-> kind, s |-> s, base |-> base, src |-> h, step |-> step, drop |-> drop]
  BY DEF Begins
<1>3. /\ step \in Openings /\ (step \in {"merge", "ff"} => h # None)
      /\ (step = "ff" => tree'[s].merge = "no")
      /\ (step = "drop" => h = None \/ Landed(refs', refs'[h]))
  BY DEF Openings
<1> HIDE DEF h
<1>4. JobOK(refs', tree', [kind |-> kind, s |-> s, base |-> base, src |-> h, step |-> step, drop |-> drop])
  BY <1>1, <1>3, JobBegins
<1>5. QED
  BY <1>2, <1>4

\* Integrate: the integration of a turn begins: it has made sure of nothing yet.
LEMMA IntegrateGood == ASSUME Inv, NEW s \in Sessions, Integrate(s) PROVE Good
<1>1. /\ job.kind = "none" /\ tree[s].head # None
      /\ Begins("turn", s, target[s], "merge", FALSE)
      /\ UNCHANGED <<refs, checkedOut, tree, target, phase, home, live, turning, ctx, left, delete, runs, made>>
  BY IntegrationAssumption DEF Integrate, Idle, Managed, repoVars
<1>2. target[s] \in UserBranches /\ ProcOK
  BY <1>1, IdleFacts
<1>3. JobOK(refs', tree', job')
  BY <1>1, <1>2, BeginsOK DEF Kinds
<1>4. ProcOK'
  BY <1>1, <1>2 DEF ProcOK
<1>5. QED
  BY <1>1, <1>3, <1>4, QuietGood

\* StartMerge: a merge begins on the branch the worktree is on.
LEMMA StartMergeGood == ASSUME Inv, NEW s \in Sessions, StartMerge(s) PROVE Good
<1>1. /\ job.kind = "none" /\ tree[s].head # None
      /\ Begins("resolve", s, target[s], "merge", FALSE)
      /\ UNCHANGED <<refs, checkedOut, tree, target, phase, home, live, turning, ctx, left, delete, runs, made>>
  BY IntegrationAssumption DEF StartMerge, Idle, Managed, repoVars
<1>2. target[s] \in UserBranches /\ ProcOK
  BY <1>1, IdleFacts
<1>3. JobOK(refs', tree', job')
  BY <1>1, <1>2, BeginsOK DEF Kinds
<1>4. ProcOK'
  BY <1>1, <1>2 DEF ProcOK
<1>5. QED
  BY <1>1, <1>3, <1>4, QuietGood

\* Prompt: a prompt goes to the agent: the worktree is made ready first.
LEMMA PromptGood == ASSUME Inv, NEW s \in Sessions, Prompt(s) PROVE Good
<1> DEFINE step == IF /\ ~ctx[s] /\ ~tree[s].dirty /\ tree[s].merge = "no"
                      /\ Managed(tree[s].head) /\ Ahead(target[s], tree[s].head) # {}
                   THEN "merge" ELSE "branch"
<1>1. /\ job.kind = "none" /\ Begins("prompt", s, target[s], step, FALSE)
      /\ UNCHANGED <<refs, checkedOut, tree, target, phase, home, live, turning, ctx, left, delete, runs, made>>
  BY DEF Prompt, Idle, repoVars
<1>2. target[s] \in UserBranches /\ ProcOK
  BY <1>1, IdleFacts
<1>3. step \in {"merge", "branch", "retarget"} /\ (step = "merge" => tree[s].head # None)
  BY IntegrationAssumption DEF Managed
<1> HIDE DEF step
<1>4. JobOK(refs', tree', job')
  BY <1>1, <1>2, <1>3, BeginsOK DEF Kinds
<1>5. ProcOK'
  BY <1>1, <1>2 DEF ProcOK
<1>6. QED
  BY <1>1, <1>4, <1>5, QuietGood

\* Align: an idle session is aligned with its base.
LEMMA AlignGood == ASSUME Inv, NEW s \in Sessions, Align(s) PROVE Good
<1>1. /\ job.kind = "none" /\ tree' = Repointed(s, target[s])
      /\ UNCHANGED <<refs, checkedOut, target, phase, home, live, turning, ctx, left, delete, runs, made>>
  BY DEF Align, Idle
<1>2. /\ target[s] \in UserBranches /\ ProcOK /\ RepoOK(refs, tree, made)
      /\ JobOK(refs', tree', job)
  BY <1>1, IdleFacts
<1>3. JobOK(refs', tree', job')
  <2>1. CASE job' = job
    BY <2>1, <1>2
  <2>2. CASE AlignLook(s, target[s]) = "merge" /\ Begins("align", s, target[s], "merge", FALSE)
    <3>1. tree' = tree
      BY <1>1, <1>2, <2>2 DEF Repointed, RepoOK
    <3>2. tree[s].head # None
      BY <2>2, IntegrationAssumption DEF AlignLook, Managed
    <3>3. QED
      BY <1>1, <1>2, <2>2, <3>1, <3>2, BeginsOK DEF Kinds
  <2>3. QED
    BY <2>1, <2>2 DEF Align
<1>4. ProcOK'
  BY <1>1, <1>2 DEF ProcOK
<1>5. QED
  BY <1>1, <1>2, <1>3, <1>4, RepointedGood

\* FinalizeMerge: a resolved merge is committed and integrated.
LEMMA FinalizeMergeGood == ASSUME Inv, NEW s \in Sessions, FinalizeMerge(s) PROVE Good
<1>1. /\ job.kind = "none"
      /\ UNCHANGED <<checkedOut, target, phase, home, live, turning, left, delete, runs>>
  BY DEF FinalizeMerge, Idle
<1>2. /\ RepoOK(refs, tree, made) /\ ProcOK /\ target[s] \in UserBranches
      /\ tree[s] \in Trees(made) /\ TreeOK(refs, tree[s], s) /\ JobOK(refs', tree', job)
  BY <1>1, IdleFacts
<1>3. ProcOK'
  BY <1>1, <1>2 DEF FinalizeMerge, ProcOK
<1>4. CASE UNCHANGED <<refs, tree, job, made>>
  BY <1>2, <1>3, <1>4, QuietGood
<1>5. CASE tree[s].merge = "resolved" /\ CommitIn(s) /\ Begins("resolved", s, target[s], "ff", FALSE)
  <2> DEFINE h == tree[s].head
  <2>1. h # None /\ CanBranch(s) /\ CanCommit(s)
    BY <1>2, <1>5 DEF TreeOK, CanBranch, CanCommit, Detached
  <2>2. /\ h \in TurnBranches \cup {None} /\ (h # None => h[1] = s) /\ h = tree'[s].head
        /\ tree'[s].merge = "no"
    BY <1>2, <1>5, <2>1, CommitInOK
  <2>3. job' = [kind |-> "resolved", s |-> s, base |-> target[s], src |-> h, step |-> "ff", drop |-> FALSE]
    BY <1>5 DEF Begins
  <2>4. "resolved" \in Kinds \ {"none"} /\ "ff" \in Openings
    BY DEF Kinds, Openings
  <2> HIDE DEF h
  <2>5. JobOK(refs', tree', [kind |-> "resolved", s |-> s, base |-> target[s], src |-> h, step |-> "ff", drop |-> FALSE])
    BY <1>2, <2>1, <2>2, <2>4, JobBegins
  <2>6. QED
    BY <1>3, <1>5, <2>1, <2>3, <2>5, CommitGood
<1>6. QED
  BY <1>4, <1>5 DEF FinalizeMerge

\* A worktree is made for a session that has none.
LEMMA OpenTreeGood ==
    ASSUME Inv, NEW s \in Sessions, OpenTree(s), UNCHANGED <<refs, made>>,
           JobOK(refs, tree', job'), ProcOK'
    PROVE  Good
<1> DEFINE t == TreeAt(refs[checkedOut])
<1>1. CASE tree[s].there
  BY <1>1, QuietGood DEF OpenTree
<1>2. CASE ~tree[s].there
  <2>1. tree' = [tree EXCEPT ![s] = t]
    BY <1>2 DEF OpenTree
  <2>2. RepoOK(refs, tree, made) /\ checkedOut \in UserBranches /\ checkedOut \in DOMAIN refs
    BY DEF Inv, ProcOK, RepoOK
  <2>3. refs[checkedOut] \subseteq Span(made)
    BY <2>2 DEF RepoOK
  <2>4. t \in Trees(made) /\ t.head = None /\ t.merge = "no" /\ t.at = refs[checkedOut]
    BY <2>3 DEF TreeAt, NoTree, Trees, Detached
  <2>5. Landed(refs, t.at)
    BY <2>2, <2>4 DEF Landed
  <2>6. tree[s].head = None \/ Landed(refs, refs[tree[s].head])
    BY <1>2, <2>2 DEF RepoOK, TreeOK
  <2> HIDE DEF t
  <2>7. QED
    BY <2>1, <2>4, <2>5, <2>6, LeaveGood
<1>3. QED
  BY <1>1, <1>2

\* Open: a session opens, in a worktree that is there or in a new one at its base.
LEMMA OpenGood == ASSUME Inv, NEW s \in Sessions, Open(s) PROVE Good
<1>1. /\ job.kind = "none" /\ OpenTree(s) /\ live' = live \cup {s} /\ home' = s
      /\ UNCHANGED <<refs, checkedOut, phase, turning, ctx, job, left, delete, runs, made>>
  BY DEF Open, Idle
<1>2. ProcOK /\ checkedOut \in UserBranches /\ JobOK(refs', tree', job)
  BY <1>1, IdleFacts
<1>3. ProcOK'
  BY <1>1, <1>2 DEF OpenTree, ProcOK
<1>4. QED
  BY <1>1, <1>2, <1>3, OpenTreeGood

\* SwitchTo: the foreground changes; nothing else does.
LEMMA SwitchToGood == ASSUME Inv, NEW s \in Sessions, SwitchTo(s) PROVE Good
<1>1. ProcOK' /\ UNCHANGED <<refs, tree, made, job>>
  BY DEF Inv, ProcOK, SwitchTo, repoVars
<1>2. QED
  BY <1>1, QuietGood DEF Inv

\* The commit a stop, an exit or a change of the merge branch may begin with.
LEMMA FinalCommitOK ==
    ASSUME Inv, job.kind = "none", NEW s \in Sessions, FinalCommit(s)
    PROVE  /\ RepoOK(refs', tree', made')
           /\ JobOK(refs', tree', job') /\ ProcOK' => Good
<1>1. CASE UNCHANGED <<refs, tree, made>>
  BY <1>1, QuietGood DEF Inv
<1>2. CASE /\ CanCommit(s) /\ CanBranch(s) /\ CommitIn(s)
           /\ tree[s].merge = "no" \/ WhileMerging
  BY <1>2, CommitInOK, CommitGood DEF Inv
<1>3. QED
  BY <1>1, <1>2 DEF FinalCommit

\* Stop: a session ends: what its turn left is committed first.
LEMMA StopGood == ASSUME Inv, NEW s \in Sessions, Stop(s) PROVE Good
<1>1. /\ job.kind = "none" /\ FinalCommit(s) /\ job' = job
  BY DEF Stop, Idle
<1>2. ProcOK /\ JobOK(refs', tree', job')
  BY <1>1, IdleFacts
<1>3. ProcOK'
  BY <1>2 DEF Stop, ProcOK
<1>4. QED
  BY <1>1, <1>2, <1>3, FinalCommitOK

\* Retarget: a session is given another branch to merge into.
LEMMA RetargetGood == ASSUME Inv, NEW s \in Sessions, Retarget(s) PROVE Good
<1> DEFINE h == tree'[s].head
           step == IF Managed(h) /\ ~ctx[s] THEN "merge" ELSE "retarget"
<1>1. /\ job.kind = "none" /\ FinalCommit(s)
      /\ UNCHANGED <<checkedOut, target, phase, home, live, turning, ctx, left, delete, runs>>
      /\ job' = [kind |-> "retarget", s |-> s, base |-> target[s], src |-> h, step |-> step, drop |-> FALSE]
  BY DEF Retarget, Idle
<1>2. ProcOK /\ target[s] \in UserBranches
  BY <1>1, IdleFacts
<1>3. RepoOK(refs', tree', made')
  BY <1>1, FinalCommitOK
<1>4. h \in TurnBranches \cup {None} /\ (h # None => h[1] = s)
  BY <1>3 DEF RepoOK, TreeOK, Trees
<1>5. /\ step \in Openings /\ step # "ff" /\ step # "drop" /\ (step \in {"merge", "ff"} => h # None)
      /\ "retarget" \in Kinds \ {"none"} /\ h = tree'[s].head
  BY IntegrationAssumption DEF Openings, Managed, Kinds
<1> HIDE DEF h, step
<1>6. JobOK(refs', tree', [kind |-> "retarget", s |-> s, base |-> target[s], src |-> h, step |-> step, drop |-> FALSE])
  BY <1>2, <1>4, <1>5, JobBegins
<1>7. ProcOK'
  BY <1>1, <1>2 DEF ProcOK
<1>8. QED
  BY <1>1, <1>6, <1>7, FinalCommitOK

\* Start, exit, crash and recovery.

\* Start: a run begins.
LEMMA StartGood == ASSUME Inv, NEW s \in Sessions, Start(s) PROVE Good
<1> DEFINE h == tree'[s].head
           base == target'[s]
<1>1. /\ phase' = "start" /\ home' = s /\ live' = {s} /\ left' = Here \ {s} /\ OpenTree(s)
      /\ runs < MaxRuns /\ runs' = runs + 1
      /\ job' = [kind |-> "align", s |-> s, base |-> base, src |-> h, step |-> "align", drop |-> FALSE]
      /\ UNCHANGED <<refs, checkedOut, turning, ctx, delete, made>>
  BY DEF Start
<1>2. RepoOK(refs, tree, made) /\ ProcOK /\ tree[s] \in Trees(made) /\ TreeOK(refs, tree[s], s)
  BY DEF Inv, RepoOK
<1>3. target' \in [Sessions -> UserBranches] /\ base \in UserBranches
  BY <1>1, <1>2 DEF OpenTree, ProcOK
<1>4. ProcOK'
  BY <1>1, <1>2, <1>3, IntegrationAssumption DEF ProcOK, Here
<1>5. h \in TurnBranches \cup {None} /\ (h # None => h[1] = s)
  <2>1. CASE tree' = tree
    BY <1>2, <2>1 DEF Trees, TreeOK
  <2>2. CASE tree' = [tree EXCEPT ![s] = TreeAt(refs[checkedOut])]
    BY <1>2, <2>2 DEF RepoOK, TreeAt, NoTree, Detached
  <2>3. QED
    BY <1>1, <2>1, <2>2 DEF OpenTree
<1>6. "align" \in Openings /\ "align" \in Kinds \ {"none"} /\ h = tree'[s].head
  BY DEF Openings, Kinds
<1> HIDE DEF h, base
<1>7. JobOK(refs, tree', [kind |-> "align", s |-> s, base |-> base, src |-> h, step |-> "align", drop |-> FALSE])
  BY <1>3, <1>5, <1>6, JobBegins
<1>8. QED
  BY <1>1, <1>4, <1>7, OpenTreeGood

\* ExitSession: at exit each open session is integrated in its turn.
LEMMA ExitSessionGood == ASSUME Inv, NEW s \in Sessions, ExitSession(s) PROVE Good
<1> DEFINE h == tree'[s].head
           step == IF ctx[s] \/ tree'[s].merge # "no" \/ tree'[s].dirty \/ ~Managed(h) THEN "keep"
                   ELSE IF refs'[h] \subseteq refs'[target[s]] THEN "ff" ELSE "merge"
<1>1. /\ job.kind = "none" /\ FinalCommit(s) /\ turning' = turning \ {s}
      /\ UNCHANGED <<checkedOut, target, phase, home, live, ctx, left, delete, runs>>
      /\ job' = [kind |-> "exit", s |-> s, base |-> target[s], src |-> h, step |-> step, drop |-> delete]
  BY DEF ExitSession
<1>2. ProcOK /\ target[s] \in UserBranches /\ delete \in BOOLEAN
  BY <1>1, IdleFacts DEF ProcOK
<1>3. RepoOK(refs', tree', made')
  BY <1>1, FinalCommitOK
<1>4. h \in TurnBranches \cup {None} /\ (h # None => h[1] = s)
  BY <1>3 DEF RepoOK, TreeOK, Trees
<1>5. /\ step \in Openings /\ step # "drop" /\ (step \in {"merge", "ff"} => h # None)
      /\ (step = "ff" => tree'[s].merge = "no")
      /\ "exit" \in Kinds \ {"none"} /\ h = tree'[s].head
  BY IntegrationAssumption DEF Openings, Managed, Kinds
<1> HIDE DEF h, step
<1>6. JobOK(refs', tree', [kind |-> "exit", s |-> s, base |-> target[s], src |-> h, step |-> step, drop |-> delete])
  BY <1>2, <1>4, <1>5, JobBegins
<1>7. ProcOK'
  BY <1>1, <1>2 DEF ProcOK
<1>8. QED
  BY <1>1, <1>6, <1>7, FinalCommitOK

\* CleanupStale: the sweep takes up a worktree no session is in.
LEMMA CleanupStaleGood == ASSUME Inv, NEW s \in Sessions, CleanupStale(s) PROVE Good
<1>1. /\ phase \in {"start", "sweep", "recover"} /\ StaleJob(s, SweepBase, phase # "start")
      /\ UNCHANGED <<refs, checkedOut, tree, target, phase, home, live, turning, ctx, left, delete, runs, made>>
  BY DEF CleanupStale, Sweeping, repoVars
<1>2. ProcOK /\ RepoOK(refs', tree', made')
  BY <1>1 DEF Inv
<1>3. SweepBase \in UserBranches
  BY <1>1, <1>2 DEF SweepBase, ProcOK
<1>4. JobOK(refs', tree', job')
  BY <1>1, <1>2, <1>3, StaleJobOK
<1>5. ProcOK'
  BY <1>1, <1>2 DEF ProcOK
<1>6. QED
  BY <1>1, <1>4, <1>5, QuietGood

\* RecoverStale: recovery commits what a stale worktree's finished turn left.
LEMMA RecoverStaleGood == ASSUME Inv, NEW s \in Sessions, RecoverStale(s) PROVE Good
<1>1. /\ CanCommit(s) /\ CanBranch(s) /\ CommitIn(s) /\ tree[s].merge = "no"
      /\ StaleJob(s, checkedOut, TRUE)
      /\ UNCHANGED <<checkedOut, target, phase, home, live, turning, ctx, left, delete, runs>>
  BY DEF RecoverStale
<1>2. ProcOK /\ checkedOut \in UserBranches /\ RepoOK(refs', tree', made')
  BY <1>1, CommitInOK DEF Inv, ProcOK
<1>3. JobOK(refs', tree', job')
  BY <1>2, <1>1, StaleJobOK
<1>4. ProcOK'
  BY <1>1, <1>2 DEF ProcOK
<1>5. QED
  BY <1>1, <1>3, <1>4, CommitGood

\* FlagStale: a worktree with unfinished work is passed over.
LEMMA FlagStaleGood == ASSUME Inv, NEW s \in Sessions, FlagStale(s) PROVE Good
<1>1. ProcOK' /\ UNCHANGED <<refs, tree, made, job>>
  BY DEF Inv, ProcOK, FlagStale, repoVars
<1>2. QED
  BY <1>1, QuietGood DEF Inv

\* Exit: the run is told to end.
LEMMA ExitGood == ASSUME Inv, NEW keep \in BOOLEAN, Exit(keep) PROVE Good
<1>1. ProcOK' /\ UNCHANGED <<refs, tree, made, job>>
  BY DEF Inv, ProcOK, Exit, Idle, repoVars
<1>2. QED
  BY <1>1, QuietGood DEF Inv

\* ExitSweep: the sessions are done, and the sweep begins.
LEMMA ExitSweepGood == ASSUME Inv, ExitSweep PROVE Good
<1>1. ProcOK' /\ UNCHANGED <<refs, tree, made, job>>
  BY DEF Inv, ProcOK, ExitSweep, repoVars, Here
<1>2. QED
  BY <1>1, QuietGood DEF Inv

\* Recover: Start-up recovery begins.
LEMMA RecoverGood == ASSUME Inv, Recover PROVE Good
<1>1. ProcOK' /\ UNCHANGED <<refs, tree, made, job>>
  BY IntegrationAssumption DEF Inv, ProcOK, Recover, repoVars, Here
<1>2. QED
  BY <1>1, QuietGood DEF Inv

\* OrphanSweep: turn branches no worktree is on go when the base has all of them, or git cannot tell.
LEMMA OrphanSweepGood == ASSUME Inv, OrphanSweep PROVE Good
<1> DEFINE D == {c \in Exists : Managed(c) => Held(c) \/ Ahead(SweepBase, c) # {}}
<1>1. /\ job.kind = "none" /\ refs' = [b \in D |-> refs[b]]
      /\ UNCHANGED <<checkedOut, tree, target, job, left, runs, made>>
  BY DEF OrphanSweep, Sweeping
<1>2. RepoOK(refs, tree, made) /\ ProcOK
  BY DEF Inv
<1>3. /\ D \subseteq DOMAIN refs /\ UserBranches \subseteq D
      /\ \A b \in DOMAIN refs \ D : b \in TurnBranches /\ ~Held(b)
  BY <1>2, IntegrationAssumption DEF RepoOK, Exists, Managed
<1>4. \A b \in DOMAIN refs \ D : tree[b[1]].head # b
  BY <1>3 DEF Held, TurnBranches
<1>5. JobOK(refs', tree, job')
  BY <1>1, IdleStays DEF Inv
<1>6. ProcOK'
  BY <1>1, <1>2 DEF OrphanSweep, Sweeping, ProcOK
<1> HIDE DEF D
<1>7. QED
  BY <1>1, <1>3, <1>4, <1>5, <1>6, BranchesGoGood

\* Crash: the process dies: what is on disk stays, and no job is under way.
LEMMA CrashGood == ASSUME Inv, Crash PROVE Good
<1>1. ProcOK' /\ UNCHANGED <<refs, tree, made>> /\ job' = NoJob
  BY DEF Inv, ProcOK, Crash, repoVars
<1>2. QED
  BY <1>1, QuietGood, NoJobOK

---------------------------------------------------------------------------
(* The theorems *)

\* The invariant holds before the first commit.
LEMMA InvInit == Init => Inv
<1> SUFFICES ASSUME Init PROVE Inv
  OBVIOUS
<1>1. /\ NoTree \in Trees(0) /\ NoTree.head = None /\ NoTree.merge = "no" /\ NoTree.at = {}
  BY DEF NoTree, Trees, Detached
<1>2. RepoOK(refs, tree, made)
  BY <1>1, IntegrationAssumption DEF Init, RepoOK, TreeOK, Landed, Branches
<1>3. JobOK(refs, tree, job)
  BY NoJobOK DEF Init
<1>4. /\ checkedOut \in UserBranches /\ target \in [Sessions -> UserBranches]
      /\ runs \in 0..MaxRuns
  BY IntegrationAssumption DEF Init
<1>5. /\ phase = "down" /\ home = None /\ live = {} /\ turning = {} /\ left = {}
      /\ ctx \in [Sessions -> BOOLEAN] /\ delete = FALSE
  BY DEF Init
<1>6. ProcOK
  BY <1>4, <1>5 DEF ProcOK
<1>7. QED
  BY <1>2, <1>3, <1>6 DEF Inv

\* Every step keeps the invariant, only lets the branches of the user grow, and removes only
\* worktrees whose work has landed.
LEMMA StepIsGood == ASSUME Inv, Next PROVE Good
<1>1. ASSUME UserStep PROVE Good
  BY <1>1, UserCommitsGood, UserChecksOutGood DEF UserStep
<1>2. ASSUME NEW s \in Sessions, AgentStep(s) PROVE Good
  BY <1>2, AgentEditsGood, AgentCommitsGood, MarkersRemovedGood, TurnEndsGood DEF AgentStep
<1>3. ASSUME JobStep PROVE Good
  BY <1>3, MergeCleanGood, MergeConflictsGood, MergeRefusedGood, MergeAbortGood,
     FastForwardGood, FastForwardRefusedGood, DetachGood, DeleteBranchGood,
     PromptBranchGood, StartAlignGood, KeepOrDeleteGood, RemoveTreeGood, RemoveBranchesGood,
     ForwardDirGood, ForwardDirRefusedGood, StaleAgainGood, StaleDoneGood, RetargetedGood
  DEF JobStep
<1>4. ASSUME NEW s \in Sessions, SessionStep(s) PROVE Good
  BY <1>4, TurnCommitGood, IntegrateGood, PromptGood, AlignGood, StartMergeGood,
     FinalizeMergeGood, RetargetGood, OpenGood, SwitchToGood, StopGood DEF SessionStep
<1>5. ASSUME ProcessStep PROVE Good
  BY <1>5, StartGood, ExitSessionGood, CleanupStaleGood, RecoverStaleGood, FlagStaleGood,
     ExitGood, ExitSweepGood, RecoverGood, OrphanSweepGood, CrashGood DEF ProcessStep
<1>6. QED
  BY <1>1, <1>2, <1>3, <1>4, <1>5 DEF Next

\* The invariant is inductive.
LEMMA InvStep == Inv /\ [Next]_vars => Inv'
<1> SUFFICES ASSUME Inv, [Next]_vars PROVE Inv'
  OBVIOUS
<1>1. CASE Next
  BY <1>1, StepIsGood DEF Good
<1>2. CASE UNCHANGED vars
  BY <1>2 DEF vars, repoVars, procVars, Inv, ProcOK
<1>3. QED
  BY <1>1, <1>2

\* In every state the refs, the worktrees, the operation in progress and the process agree: what
\* Inv says holds of every behaviour.
THEOREM Invariance == Spec => []Inv
<1>1. QED
  BY InvInit, InvStep, PTL DEF Spec

\* The variables keep to their values, and no worktree is on a branch that is gone.
THEOREM Typed == Spec => []TypeOK
<1>1. Inv => TypeOK
  <2> SUFFICES ASSUME Inv PROVE TypeOK
    OBVIOUS
  <2>1. Span(made) \subseteq 0..made /\ Span(made) \subseteq Commits
    BY IntegrationAssumption DEF Inv, RepoOK, Span, Commits
  <2>2. \A b \in Exists : refs[b] \subseteq 0..made
    BY <2>1 DEF Inv, RepoOK, Exists
  <2>3. tree \in [Sessions -> [there : BOOLEAN, head : TurnBranches \cup {Detached},
                              at : SUBSET Commits, dirty : BOOLEAN,
                              merge : {"no", "marked", "resolved"}, theirs : SUBSET Commits]]
    BY <2>1 DEF Inv, RepoOK, Trees, Detached
  <2>4. \A s \in Sessions : tree[s].head # Detached => tree[s].head \in Exists
    BY DEF Inv, RepoOK, TreeOK, Detached, Exists
  <2>5. job.kind \in {"none", "turn", "prompt", "align", "resolve", "resolved", "retarget",
                     "exit", "stale"}
    BY DEF Inv, JobOK, Jobs, Kinds
  <2>6. UserBranches \subseteq Exists /\ Exists \subseteq Branches /\ made \in 0..MaxCommits
    BY DEF Inv, RepoOK, Exists
  <2>7. QED
    BY <2>2, <2>3, <2>4, <2>5, <2>6 DEF TypeOK, Inv, ProcOK
<1>2. QED
  BY <1>1, Invariance, PTL

\* No commit is lost: a branch or a worktree goes only when a branch of the user has what
\* was on it.
THEOREM NothingIsLost == Spec => []WorkKept
<1>1. Inv => WorkKept
  BY DEF Inv, RepoOK, WorkKept, Exists
<1>2. QED
  BY <1>1, Invariance, PTL

\* Landing is a fast-forward: no step takes a commit off a branch of the user.
THEOREM OnlyFastForwards == Spec => TargetsOnlyGrow
<1>1. Inv /\ [Next]_vars => [\A b \in UserBranches : refs[b] \subseteq refs'[b]]_refs
  <2> SUFFICES ASSUME Inv, [Next]_vars
               PROVE  (\A b \in UserBranches : refs[b] \subseteq refs'[b]) \/ refs' = refs
    OBVIOUS
  <2>1. CASE Next
    BY <2>1, StepIsGood DEF Good, Grows
  <2>2. CASE UNCHANGED vars
    BY <2>2 DEF vars, repoVars
  <2>3. QED
    BY <2>1, <2>2
<1>2. QED
  BY <1>1, Invariance, PTL DEF Spec, TargetsOnlyGrow

\* A worktree that is removed leaves nothing behind that is not on a branch of the user.
THEOREM RemovedWhenIntegrated == Spec => RemovedIsIntegrated
<1>1. Inv /\ [Next]_vars =>
        [\A s \in Here : ~tree'[s].there => \E b \in UserBranches : Tip(s) \subseteq refs[b]]_tree
  <2> SUFFICES ASSUME Inv, [Next]_vars PROVE Removal \/ tree' = tree
    BY DEF Removal
  <2>1. CASE Next
    BY <2>1, StepIsGood DEF Good
  <2>2. CASE UNCHANGED vars
    BY <2>2 DEF vars, repoVars
  <2>3. QED
    BY <2>1, <2>2
<1>2. QED
  BY <1>1, Invariance, PTL DEF Spec, RemovedIsIntegrated

\* As long as no turn is committed in the middle of a merge, no conflict markers reach a
\* branch of the user.
THEOREM NoMarkersLand == ASSUME ~WhileMerging PROVE Spec => []MarkersStayOut
<1>1. Inv => MarkersStayOut
  <2> SUFFICES ASSUME Inv, NEW b \in UserBranches PROVE Markers \notin refs[b]
    BY DEF MarkersStayOut
  <2>1. refs[b] \subseteq 1..made /\ made \in Nat
    BY IntegrationAssumption DEF Inv, RepoOK, Span
  <2>2. QED
    BY <2>1 DEF Markers
<1>2. QED
  BY <1>1, Invariance, PTL

============================================================================
