---------------------------- MODULE RoutingProofs ----------------------------
(***************************************************************************)
(* Proofs about Routing, for any repositories, conversations, turns and    *)
(* mishaps.                                                                *)
(***************************************************************************)
EXTENDS Routing, WellFoundedInduction, TLAPS

-----------------------------------------------------------------------------
(* Data.                                                                   *)

\* A set of positions that is not empty has a last one.
LEMMA LastPosition ==
    ASSUME NEW n \in Nat, NEW S \in SUBSET (1..n), S # {}
    PROVE  Max(S) \in S /\ Max(S) \in 1..n /\ \A y \in S : y <= Max(S)
<1> DEFINE T == {n - x : x \in S}
<1>1. T \subseteq Nat /\ T # {}
  OBVIOUS
<1>2. PICK d \in T : \A e \in T : ~(<<e, d>> \in OpToRel(<, Nat))
  <2> HIDE DEF T
  <2> QED BY <1>1, WFMin, NatLessThanWellFounded
<1>3. \A e \in T : ~(e < d)
  BY <1>1, <1>2 DEF OpToRel
<1>4. PICK x \in S : d = n - x
  OBVIOUS
<1>5. \A y \in S : y <= x
  BY <1>3, <1>4
<1>6. Max(S) \in S /\ \A y \in S : Max(S) >= y
  <2>1. \E z \in S : \A y \in S : z >= y
    BY <1>5
  <2> QED BY <2>1 DEF Max
<1> QED BY <1>6

\* And a first one.
LEMMA FirstPosition ==
    ASSUME NEW n \in Nat, NEW S \in SUBSET (1..n), S # {}
    PROVE  Min(S) \in S /\ Min(S) \in 1..n /\ \A y \in S : Min(S) <= y
<1>1. S \subseteq Nat
  OBVIOUS
<1>2. PICK x \in S : \A e \in S : ~(<<e, x>> \in OpToRel(<, Nat))
  BY <1>1, WFMin, NatLessThanWellFounded
<1>3. \A y \in S : ~(y < x)
  BY <1>1, <1>2 DEF OpToRel
<1>5. \A y \in S : x <= y
  BY <1>1, <1>3
<1>4. Min(S) \in S /\ \A y \in S : Min(S) <= y
  <2>1. \E z \in S : \A y \in S : z <= y
    BY <1>5
  <2> QED BY <2>1 DEF Min
<1> QED BY <1>4

\* A transcript is a sequence of turns within the bound.
LEMMA TranscriptIsSeq ==
    ASSUME NEW s
    PROVE  s \in Transcript <=> s \in Seq(Turn) /\ Len(s) <= MaxTurns
<1>1. MaxTurns \in Nat
  BY RoutingAssumption
<1>2. ASSUME s \in Transcript PROVE s \in Seq(Turn) /\ Len(s) <= MaxTurns
  <2>1. PICK n \in 0..MaxTurns : s \in [1..n -> Turn]
    BY <1>2 DEF Transcript
  <2> QED BY <1>1, <2>1
<1>3. ASSUME s \in Seq(Turn), Len(s) <= MaxTurns PROVE s \in Transcript
  <2>1. Len(s) \in 0..MaxTurns /\ s \in [1..Len(s) -> Turn]
    BY <1>1, <1>3
  <2> QED BY <2>1 DEF Transcript
<1> QED BY <1>2, <1>3

-----------------------------------------------------------------------------
(* The inductive invariant.                                                *)

Job == [conv : Convs, how : Hows, fresh : BOOLEAN]

Turns == SUBSET Names

Typed ==
    /\ turns \in [Convs -> Transcript] /\ twists \in 0..MaxTwists
    /\ stopped \subseteq Repos
    /\ up \in [Repos -> {"down", "up", "ending", "other"}]
    /\ resumed \in [Repos -> [Convs -> 0..MaxTurns]]
    /\ floor \in [Repos -> {None} \cup [Convs -> 0..MaxTurns]]
    /\ mark \in [Repos -> [Convs -> Mark]]
    /\ seen \in [Repos -> SUBSET Convs]
    /\ job \in [Repos -> {NoJob} \cup Job]
    /\ mishaps \in 0..MaxMishaps
    /\ recorded \in [Repos -> Turns] /\ caught \in [Repos -> Turns]
    /\ skipped \in [Repos -> Turns] /\ forgotten \in [Repos -> Turns] /\ outgrown \in Turns

\* Only a tracker goes through a conversation, and through another's only once it routes.
JobOK(r) ==
    ~Idle(r) => /\ up[r] \in {"up", "ending"}
                /\ floor[r] # None
                /\ HomeOf[job[r].conv] # r

\* A turn that another has followed is over.
Frozen(c) == \A i \in 1..Len(turns[c]) : i < Len(turns[c]) => Over(turns[c][i])

\* No sub-agent works in a conversation that a tracker does not look at again.
Quiet(r, c) == c \in seen[r] => ~Helped(c)

\* A turn that is none of a repository's, and stays so but for a sub-agent's edits.
NotOurs(r, c, i) ==
    /\ i < Len(turns[c])
    /\ IF HomeOf[c] = r
       THEN turns[c][i].edits # {} /\ r \notin turns[c][i].edits
       ELSE \/ floor[r] # None /\ i <= floor[r][c]
            \/ r \notin turns[c][i].edits

\* A turn that a commit caught in the middle and that got no answer.
Halved(r, c, i) ==
    <<c, i>> \in caught[r] /\ i < Len(turns[c]) /\ ~Answers(turns[c][i])

\* What stands behind a watermark is in the repository's commits, was left out because it was
\* stopped, or is none of its; a turn that the mark stands in front of is there in part.
Behind(r, c) ==
    /\ mark[r][c].past <= Len(turns[c])
    /\ \A i \in 1..mark[r][c].past :
          \/ <<c, i>> \in recorded[r] \cup skipped[r] \cup outgrown
          \/ Halved(r, c, i) \/ NotOurs(r, c, i)
    /\ mark[r][c].part => <<c, mark[r][c].past + 1>> \in caught[r]

\* NothingLeftUnseen, of any repository, whether its tracker runs or not.
NothingLeft(r, c) ==
    (HomeOf[c] # r /\ c \in seen[r] /\ ~Running(c)) =>
        \A i \in Ended(c) :
            r \in turns[c][i].edits =>
                \/ InCommits(r, c, i) \/ Held(r, c, i) \/ Misses(r, c, i)
                \/ <<c, i>> \in forgotten[r] \cup outgrown

IInv ==
    /\ Typed
    /\ \A r \in Repos : JobOK(r)
    /\ \A c \in Convs : Frozen(c)
    /\ \A r \in Repos, c \in Convs : Behind(r, c) /\ Quiet(r, c) /\ NothingLeft(r, c)

-----------------------------------------------------------------------------
(* What a pass through a conversation comes to.                            *)

LEMMA TurnsTyped ==
    ASSUME Typed, NEW c \in Convs
    PROVE  /\ turns[c] \in Seq(Turn) /\ Len(turns[c]) \in 0..MaxTurns
           /\ \A i \in 1..Len(turns[c]) : turns[c][i] \in Turn
<1>1. turns[c] \in Transcript
  BY DEF Typed
<1>2. turns[c] \in Seq(Turn) /\ Len(turns[c]) <= MaxTurns
  BY <1>1, TranscriptIsSeq
<1> QED BY <1>2, RoutingAssumption

\* What a position was done with when a watermark goes over it.
DoneWith(r, c, p, i) ==
    \/ i <= mark[r][c].past
    \/ i \in p.gone
    \/ i \in p.taken /\ Over(turns[c][i])
    \/ Halved(r, c, i)
    \/ NotOurs(r, c, i)

\* What a pass did: it took and left out turns of the transcript, nothing that the watermark
\* goes over is lost, and of a conversation that has come to rest nothing is overlooked.
PassOK(r, c, p) ==
    LET m == mark[r][c]
    IN /\ p.text = turns[c]
       /\ p.gone \subseteq 1..Len(turns[c]) /\ p.taken \subseteq 1..Len(turns[c])
       /\ StepOver(m, p) \in Mark /\ StepOver(m, p).past <= Len(turns[c])
       /\ MarkAfter(m, p) \in Mark /\ MarkAfter(m, p).past <= Len(turns[c])
       /\ \A i \in 1..StepOver(m, p).past :
             i <= m.past \/ i \in p.gone \/ Halved(r, c, i) \/ NotOurs(r, c, i)
       /\ \A i \in 1..MarkAfter(m, p).past : DoneWith(r, c, p, i)
       /\ StepOver(m, p).part => StepOver(m, p) = m
       /\ LET next == MarkAfter(m, p)
          IN next.part => \/ next = m
                          \/ next.past + 1 \in p.taken /\ ~Over(turns[c][next.past + 1])
       /\ (HomeOf[c] # r /\ ~Running(c) /\ ~Helped(c)) =>
             \A i \in 1..Len(turns[c]) :
                (turns[c][i].end = "answered" /\ r \in turns[c][i].edits) =>
                    i <= m.past \/ i \in p.gone \/ i \in p.taken \/ i <= floor[r][c]

LEMMA PassFacts ==
    ASSUME IInv, NEW r \in Repos, NEW c \in Convs, NEW how,
           HomeOf[c] # r => floor[r] # None
    PROVE  PassOK(r, c, Pass(r, c, how, turns[c]))
<1> DEFINE p == Pass(r, c, how, turns[c])
           m == mark[r][c]
<1>0. Typed /\ Frozen(c) /\ m.past <= Len(turns[c])
  BY DEF IInv, Behind
<1> DEFINE text == turns[c]
           L == Len(turns[c])
           new == After(mark[r][c], text)
           gone == Untracked(r, c, new)
           rest == new \ gone
           kept == {i \in rest : Keeps(r, c, i, text[i])}
           some == Trimmed(how, text, kept)
           taken == IF kept = {} \/ Waits(how, text, kept) \/ Refuses(how, text, some)
                    THEN {} ELSE some
           passed == gone \cup (IF kept = {} /\ rest # {} THEN StepPast(rest) ELSE {})
<1>1. p.text = text /\ p.gone = gone /\ p.passed = passed /\ p.taken = taken
  BY DEF Pass
<1> HIDE DEF p, m
<1>2. /\ L \in Nat /\ L <= MaxTurns /\ MaxTurns \in Nat
      /\ m \in Mark /\ m.past \in Nat /\ m.past <= L
      /\ \A i \in 1..L : text[i] \in Turn
  <2>1. /\ L \in 0..MaxTurns /\ \A i \in 1..L : text[i] \in Turn
        /\ MaxTurns \in Nat
    BY <1>0, TurnsTyped, RoutingAssumption
  <2>2. m \in Mark /\ m.past <= L
    BY <1>0 DEF Typed, m
  <2> QED BY <2>1, <2>2 DEF Mark
<1>3. new \subseteq (m.past + 1)..L /\ new \subseteq 1..L
  BY <1>2 DEF After, m
<1>4. ASSUME NEW i \in 1..L, i > m.past
      PROVE  i \in new \/ (<<c, i>> \in caught[r] /\ ~Answers(text[i]))
  <2>1. CASE m.part /\ i = m.past + 1 /\ ~Answers(text[i])
    BY <2>1 DEF IInv, Behind, m
  <2>2. CASE ~(m.part /\ i = m.past + 1 /\ ~Answers(text[i]))
    BY <1>2, <1>4, <2>2 DEF After, m
  <2> QED BY <2>1, <2>2
<1>5. gone \subseteq new /\ \A g \in gone : \A i \in new : i <= g => i \in gone
  <2>1. resumed[r][c] \in Nat
    BY <1>0, RoutingAssumption DEF Typed
  <2>2. new \subseteq Nat
    BY <1>2, <1>3
  <2> HIDE DEF new
  <2> QED BY <2>1, <2>2 DEF Untracked
<1>6. ASSUME NEW i \in rest, i \notin kept, i < L PROVE NotOurs(r, c, i)
  <2>1. ~Keeps(r, c, i, text[i])
    BY <1>6
  <2>2. CASE HomeOf[c] = r
    BY <1>6, <2>1, <2>2 DEF Keeps, HomeKeeps, NotOurs
  <2>3. CASE HomeOf[c] # r
    <3>1. floor[r] # None /\ floor[r] \in [Convs -> 0..MaxTurns]
      BY <1>0, <2>3 DEF Typed
    <3>2. floor[r][c] \in Int /\ i \in Int
      BY <1>2, <1>3, <3>1
    <3>3. ~ForeignKeeps(r, c, i, text[i])
      BY <2>1, <2>3 DEF Keeps
    <3>4. i <= floor[r][c] \/ r \notin text[i].edits
      BY <3>2, <3>3 DEF ForeignKeeps
    <3> QED BY <1>6, <2>3, <3>1, <3>4 DEF NotOurs
  <2> QED BY <2>2, <2>3
<1>7. kept \subseteq rest /\ rest \subseteq new
  OBVIOUS
<1>8. taken \subseteq kept /\ \A x \in taken : \A i \in kept : i <= x => i \in taken
  <2>1. kept \in SUBSET (1..L)
    BY <1>3, <1>7
  <2> HIDE DEF kept, L, text
  <2>2. \/ some = kept
        \/ \E last : some = {i \in kept : i <= last} /\ last \in 1..L
    <3> DEFINE answers == {i \in kept : Answers(text[i])}
    <3>1. CASE how = "flush" \/ kept = {}
      BY <3>1 DEF Trimmed
    <3>2. CASE kept # {} /\ answers # {}
      <4>1. Max(answers) \in 1..L
        BY <1>2, <2>1, <3>2, LastPosition
      <4> QED BY <3>1, <3>2, <4>1 DEF Trimmed
    <3>3. CASE kept # {} /\ answers = {}
      <4>1. Min(kept) \in 1..L
        BY <1>2, <2>1, <3>3, FirstPosition
      <4> QED BY <3>1, <3>3, <4>1 DEF Trimmed
    <3> QED BY <3>1, <3>2, <3>3
  <2> HIDE DEF some
  <2>3. some \subseteq kept /\ \A x \in some : \A i \in kept : i <= x => i \in some
    <3>1. CASE some = kept
      BY <3>1
    <3>2. ASSUME NEW last \in 1..L, some = {i \in kept : i <= last}
          PROVE  \A x \in some : \A i \in kept : i <= x => i \in some
      BY <1>2, <2>1, <3>2
    <3> QED BY <2>2, <3>1, <3>2
  <2> QED BY <2>3
<1>9. /\ passed \in SUBSET (1..L)
      /\ \A x \in passed : x \in gone \/ (kept = {} /\ x \in rest /\ x < L)
  <2>1. rest \in SUBSET (1..L) /\ gone \in SUBSET (1..L)
    BY <1>3, <1>5
  <2>2. rest # {} => Max(rest) \in 1..L /\ \A y \in rest : y <= Max(rest)
    <3> HIDE DEF rest, L
    <3> QED BY <1>2, <2>1, LastPosition
  <2> HIDE DEF rest, gone, kept, L
  <2>3. CASE kept = {} /\ rest # {}
    <3>1. passed = gone \cup (rest \ {Max(rest)})
      BY <2>3 DEF StepPast
    <3>2. \A x \in rest \ {Max(rest)} : x < L
      BY <1>2, <2>1, <2>2, <2>3
    <3> HIDE DEF passed
    <3> QED BY <2>1, <2>3, <3>1, <3>2
  <2>4. CASE ~(kept = {} /\ rest # {})
    <3>1. passed = gone
      BY <2>4
    <3> HIDE DEF passed
    <3> QED BY <2>1, <3>1
  <2> QED BY <2>3, <2>4
<1> HIDE DEF new, gone, rest, kept, some, taken, passed, text, L
<1>10. rest = new \ gone
  BY DEF rest
<1>11. /\ StepOver(m, p) \in Mark /\ StepOver(m, p).past <= L
       /\ \A i \in 1..StepOver(m, p).past :
             i <= m.past \/ i \in p.gone \/ Halved(r, c, i) \/ NotOurs(r, c, i)
       /\ StepOver(m, p).part => StepOver(m, p) = m
  <2>1. CASE passed = {}
    BY <1>1, <1>2, <2>1 DEF StepOver
  <2>2. CASE passed # {}
    <3> DEFINE x == Max(passed)
    <3>1. x \in passed /\ x \in 1..L
      BY <1>2, <1>9, <2>2, LastPosition
    <3>2. StepOver(m, p) = [past |-> x, part |-> FALSE]
      BY <1>1, <2>2 DEF StepOver
    <3> HIDE DEF x
    <3>3. StepOver(m, p) \in Mark /\ StepOver(m, p).past = x
      BY <1>2, <3>1, <3>2 DEF Mark
    <3>4. ASSUME NEW i \in 1..x, i > m.past
          PROVE  i \in gone \/ Halved(r, c, i) \/ NotOurs(r, c, i)
      <4>0. x \in new
        BY <1>5, <1>7, <1>9, <3>1
      <4>1. SUFFICES ASSUME i \in new PROVE i \in gone \/ NotOurs(r, c, i)
        <5>1. i \in 1..L /\ (i \notin new => i < L)
          BY <1>2, <3>1, <4>0
        <5>2. i \notin new => Halved(r, c, i)
          BY <1>4, <3>4, <5>1 DEF Halved, text, L
        <5> QED BY <5>2
      <4>2. CASE x \in gone
        BY <1>2, <1>5, <3>1, <4>1, <4>2
      <4>3. CASE x \notin gone
        <5>1. kept = {} /\ i < L
          BY <1>2, <1>9, <3>1, <4>3
        <5> QED BY <1>6, <1>10, <4>1, <5>1
      <4> QED BY <4>2, <4>3
    <3>5. \A i \in 1..x : i <= m.past \/ i \in p.gone \/ Halved(r, c, i) \/ NotOurs(r, c, i)
      BY <1>1, <1>2, <3>1, <3>4
    <3> QED BY <1>2, <3>1, <3>2, <3>3, <3>5
  <2> QED BY <2>1, <2>2
<1>12. /\ MarkAfter(m, p) \in Mark /\ MarkAfter(m, p).past <= L
       /\ \A i \in 1..MarkAfter(m, p).past : DoneWith(r, c, p, i)
       /\ MarkAfter(m, p).part =>
             \/ MarkAfter(m, p) = m
             \/ /\ MarkAfter(m, p).past + 1 \in taken
                /\ ~Over(text[MarkAfter(m, p).past + 1])
  <2>1. CASE taken = {}
    BY <1>1, <1>11, <2>1 DEF MarkAfter, DoneWith, m
  <2>2. CASE taken # {}
    <3> DEFINE last == Max(taken)
    <3>1. taken \in SUBSET (1..L)
      BY <1>3, <1>7, <1>8
    <3>2. last \in taken /\ last \in 1..L
      BY <1>2, <2>2, <3>1, LastPosition
    <3>3. MarkAfter(m, p) = IF Over(text[last]) THEN [past |-> last, part |-> FALSE]
                            ELSE [past |-> last - 1, part |-> TRUE]
      BY <1>1, <2>2 DEF MarkAfter
    <3> HIDE DEF last
    <3>4. /\ MarkAfter(m, p) \in Mark
          /\ MarkAfter(m, p).past = IF Over(text[last]) THEN last ELSE last - 1
          /\ MarkAfter(m, p).part => ~Over(text[last])
      BY <1>2, <3>2, <3>3 DEF Mark
    <3>5. ASSUME NEW i \in 1..last, i > m.past, i = last => Over(text[last])
          PROVE  \/ i \in gone \/ (i \in taken /\ Over(text[i]))
                 \/ Halved(r, c, i) \/ NotOurs(r, c, i)
      <4>0. last \in new
        BY <1>7, <1>8, <3>2
      <4>1. SUFFICES ASSUME i \in new, i \in 1..L
                     PROVE  i \in gone \/ (i \in taken /\ Over(text[i])) \/ NotOurs(r, c, i)
        <5>1. i \in 1..L /\ (i \notin new => i < L)
          BY <1>2, <3>2, <4>0
        <5>2. i \notin new => Halved(r, c, i)
          BY <1>4, <3>5, <5>1 DEF Halved, text, L
        <5> QED BY <5>1, <5>2
      <4>2. CASE i \in gone
        BY <4>2
      <4>3. CASE i \in kept
        <5>1. i \in taken
          BY <1>2, <1>8, <3>2, <4>3
        <5>2. Over(text[i])
          BY <1>0, <1>2, <3>2, <3>5, <4>1 DEF Frozen, text, L
        <5> QED BY <5>1, <5>2
      <4>4. CASE i \notin gone /\ i \notin kept
        <5>1. i # last /\ i < L
          BY <1>2, <1>8, <3>2, <4>4
        <5> QED BY <1>6, <1>10, <4>1, <4>4, <5>1
      <4> QED BY <4>2, <4>3, <4>4
    <3>6. \A i \in 1..MarkAfter(m, p).past : DoneWith(r, c, p, i)
      <4>1. ASSUME NEW i \in 1..MarkAfter(m, p).past PROVE DoneWith(r, c, p, i)
        <5>1. i \in 1..last /\ (i = last => Over(text[last]))
          BY <1>2, <3>2, <3>4
        <5>2. i <= m.past \/ i > m.past
          BY <1>2, <5>1, <3>2
        <5> QED BY <1>1, <3>5, <5>1, <5>2 DEF DoneWith, text, m
      <4> QED BY <4>1
    <3>7. MarkAfter(m, p).part => MarkAfter(m, p).past + 1 = last
      BY <1>2, <3>2, <3>4
    <3> QED BY <1>2, <3>2, <3>4, <3>6, <3>7
  <2> QED BY <2>1, <2>2
<1>13. ASSUME HomeOf[c] # r, ~Running(c), ~Helped(c), NEW i \in 1..L,
              text[i].end = "answered", r \in text[i].edits
       PROVE  i <= m.past \/ i \in gone \/ i \in taken \/ i <= floor[r][c]
  <2>1. Answers(text[i])
    BY <1>13 DEF Answers
  <2>2. \A j \in 1..L : Over(text[j])
    <3>1. Over(text[L])
      BY <1>2, <1>13 DEF Running, L, text
    <3> QED BY <1>0, <1>2, <3>1 DEF Frozen, L, text
  <2>3. floor[r][c] \in Int
    BY <1>0, <1>13, RoutingAssumption DEF Typed
  <2>4. CASE i > m.past /\ i \notin gone /\ i > floor[r][c]
    <3>1. i \in new
      BY <1>2, <2>1, <2>4 DEF After, new, L, text, m
    <3>2. Keeps(r, c, i, text[i])
      BY <1>13, <2>4 DEF Keeps, ForeignKeeps
    <3>3. i \in kept
      BY <1>10, <2>4, <3>1, <3>2 DEF kept
    <3>4. kept \in SUBSET (1..L)
      BY <1>3, <1>7
    <3>5. Over(text[Max(kept)])
      BY <1>2, <2>2, <3>3, <3>4, LastPosition
    <3>6. ~Waits(how, text, kept)
      BY <1>13, <3>5 DEF Waits, Helped, text
    <3>7. i \in some
      <4>1. CASE how = "flush"
        BY <3>3, <4>1 DEF some, Trimmed
      <4>2. CASE how # "flush"
        <5> DEFINE answers == {j \in kept : Answers(text[j])}
        <5>1. i \in answers /\ answers \in SUBSET (1..L)
          BY <2>1, <3>3, <3>4
        <5>2. i <= Max(answers)
          <6> HIDE DEF answers
          <6> QED BY <1>2, <5>1, LastPosition
        <5> QED BY <3>3, <4>2, <5>1, <5>2 DEF some, Trimmed
      <4> QED BY <4>1, <4>2
    <3>8. ~Refuses(how, text, some)
      BY <1>13, <2>1, <3>7 DEF Refuses
    <3> QED BY <3>3, <3>6, <3>7, <3>8 DEF taken
  <2> QED BY <1>2, <2>3, <2>4
<1>14. p.gone \subseteq 1..L /\ p.taken \subseteq 1..L
  BY <1>1, <1>3, <1>5, <1>7, <1>8
<1>15. (HomeOf[c] # r /\ ~Running(c) /\ ~Helped(c)) =>
          \A i \in 1..Len(turns[c]) :
             (turns[c][i].end = "answered" /\ r \in turns[c][i].edits) =>
                 i <= m.past \/ i \in p.gone \/ i \in p.taken \/ i <= floor[r][c]
  BY <1>1, <1>13 DEF text, L
<1>16. PassOK(r, c, p)
  BY <1>1, <1>11, <1>12, <1>14, <1>15 DEF text, L, m, PassOK
<1> QED BY <1>16 DEF p

-----------------------------------------------------------------------------
(* The steps of the agent and its sub-agents.                              *)

\* A write leaves every turn but the last as it was, and every tracker will look again.
LEMMA WriteKeeps ==
    ASSUME IInv, NEW c \in Convs, NEW text \in Transcript, Write(c, text),
           twists' \in 0..MaxTwists,
           Len(turns[c]) <= Len(text),
           \A i \in 1..Len(turns[c]) : i < Len(turns[c]) => text[i] = turns[c][i],
           \A i \in 1..Len(text) : i < Len(text) => Over(text[i])
    PROVE  IInv'
<1> USE DEF IInv
<1>1. /\ turns' = [turns EXCEPT ![c] = text]
      /\ UNCHANGED <<up, stopped, resumed, floor, mark, mishaps>>
      /\ UNCHANGED <<recorded, caught, skipped, forgotten, outgrown>>
      /\ seen' = [r \in Repos |-> seen[r] \ {c}]
  BY DEF Write, life, history
<1>2. /\ job' \in [Repos -> {NoJob} \cup Job]
      /\ \A r \in Repos : Idle(r)' = Idle(r) /\ job'[r].conv = job[r].conv
  <2>1. job' = [r \in Repos |-> IF job[r].conv = c THEN [job[r] EXCEPT !.fresh = FALSE] ELSE job[r]]
    BY DEF Write
  <2>2. ASSUME NEW r \in Repos
        PROVE  /\ job'[r] \in {NoJob} \cup Job
               /\ (job'[r] = NoJob) = (job[r] = NoJob) /\ job'[r].conv = job[r].conv
    <3>1. job[r] = NoJob \/ job[r] \in Job
      BY DEF Typed
    <3>2. CASE job[r].conv # c
      BY <2>1, <3>1, <3>2
    <3>3. CASE job[r].conv = c
      <4>1. job'[r] = [job[r] EXCEPT !.fresh = FALSE]
        BY <2>1, <3>3
      <4>2. CASE job[r] = NoJob
        BY <3>3, <4>2, RoutingAssumption DEF NoJob
      <4>3. CASE job[r] # NoJob
        <5>1. job[r] \in Job /\ job[r].conv # None
          BY <3>1, <4>3, RoutingAssumption DEF Job
        <5>2. job'[r] \in Job /\ job'[r].conv = job[r].conv
          BY <4>1, <5>1 DEF Job
        <5> QED BY <4>3, <5>1, <5>2 DEF NoJob
      <4> QED BY <4>2, <4>3
    <3> QED BY <3>2, <3>3
  <2> QED BY <2>1, <2>2 DEF Idle
<1>3. turns' \in [Convs -> Transcript] /\ seen' \in [Repos -> SUBSET Convs]
  BY <1>1 DEF Typed
<1>4. Typed'
  BY <1>1, <1>2, <1>3 DEF Typed
<1>5. turns'[c] = text /\ \A d \in Convs : d # c => turns'[d] = turns[d]
  BY <1>1 DEF Typed
<1>6. \A r \in Repos : JobOK(r)'
  BY <1>1, <1>2 DEF JobOK
<1>7. ASSUME NEW d \in Convs PROVE Frozen(d)'
  BY <1>5 DEF Frozen
<1>8. /\ Len(turns[c]) \in Nat /\ Len(text) \in Nat
      /\ \A d \in Convs : Len(turns[d]) \in Nat
  BY TurnsTyped, TranscriptIsSeq
<1>9. ASSUME NEW r \in Repos, NEW d \in Convs, NEW i \in 1..Len(turns[d])
      PROVE  /\ NotOurs(r, d, i) => NotOurs(r, d, i)'
             /\ Halved(r, d, i) => Halved(r, d, i)'
  <2>1. CASE d # c
    BY <1>1, <1>5, <2>1 DEF NotOurs, Halved
  <2>2. CASE d = c /\ i < Len(turns[c])
    <3>1. turns'[c][i] = turns[c][i] /\ i < Len(turns'[c])
      BY <1>5, <1>8, <1>9, <2>2
    <3> QED BY <1>1, <2>2, <3>1 DEF NotOurs, Halved
  <2> QED BY <2>1, <2>2 DEF NotOurs, Halved
<1>10. ASSUME NEW r \in Repos, NEW d \in Convs PROVE Behind(r, d)'
  <2>1. Len(turns[d]) <= Len(turns'[d]) /\ mark[r][d].past \in Nat /\ Len(turns'[d]) \in Nat
    <3>1. mark[r][d] \in Mark
      BY DEF Typed
    <3>2. d = c => Len(turns[d]) <= Len(turns'[d])
      BY <1>5
    <3>3. d # c => Len(turns[d]) <= Len(turns'[d])
      BY <1>5, <1>8
    <3>4. Len(turns'[d]) \in Nat
      BY <1>5, <1>8
    <3> QED BY <3>1, <3>2, <3>3, <3>4 DEF Mark
  <2>2. mark[r][d].past <= Len(turns[d])
    BY DEF Behind
  <2>3. \A i \in 1..mark[r][d].past : i \in 1..Len(turns[d])
    BY <1>8, <2>1, <2>2
  <2> QED BY <1>1, <1>8, <1>9, <2>1, <2>2, <2>3 DEF Behind
<1>11. ASSUME NEW r \in Repos, NEW d \in Convs PROVE Quiet(r, d)' /\ NothingLeft(r, d)'
  <2>1. CASE d # c
    <3>1. turns'[d] = turns[d] /\ (d \in seen'[r] <=> d \in seen[r])
      BY <1>1, <1>5, <2>1
    <3>2. Quiet(r, d) /\ NothingLeft(r, d)
      OBVIOUS
    <3>3. Quiet(r, d)'
      BY <3>1, <3>2 DEF Quiet, Helped
    <3>4. NothingLeft(r, d)'
      BY <1>1, <3>1, <3>2 DEF NothingLeft, Running, Ended, InCommits, Held, Misses
    <3> QED BY <3>3, <3>4
  <2>2. CASE d = c
    BY <1>1, <2>2 DEF Quiet, NothingLeft
  <2> QED BY <2>1, <2>2
<1> QED BY <1>4, <1>6, <1>7, <1>10, <1>11

LEMMA TwistTyped == Typed /\ (Twist \/ UNCHANGED twists) => twists' \in 0..MaxTwists
BY RoutingAssumption DEF Typed, Twist

LEMMA PromptKeeps ==
    ASSUME IInv, NEW c \in Convs, Prompt(c)
    PROVE  IInv'
<1> DEFINE new == [edits |-> {}, end |-> "running", helped |-> FALSE]
           text == Append(turns[c], new)
           n == Len(turns[c])
<1>1. turns[c] \in Seq(Turn) /\ n \in 0..MaxTurns /\ new \in Turn
  BY TurnsTyped DEF IInv, Turn, Ends
<1> HIDE DEF new
<1>2. /\ text \in Seq(Turn) /\ Len(text) = n + 1
      /\ \A i \in 1..n : text[i] = turns[c][i]
  BY <1>1
<1>3. text \in Transcript
  <2>1. n < MaxTurns
    BY DEF Prompt
  <2>2. Len(text) <= MaxTurns
    BY <1>1, <1>2, <2>1, RoutingAssumption
  <2> HIDE DEF text
  <2> QED BY <1>2, <2>2, TranscriptIsSeq
<1>4. \A i \in 1..n : Over(turns[c][i])
  BY <1>1 DEF Prompt, Running, IInv, Frozen
<1>5. Write(c, text) /\ twists' \in 0..MaxTwists
  BY TwistTyped DEF Prompt, new, IInv
<1> HIDE DEF text
<1>6. /\ n <= Len(text)
      /\ \A i \in 1..n : i < n => text[i] = turns[c][i]
      /\ \A i \in 1..Len(text) : i < Len(text) => Over(text[i])
  <2>1. n \in Nat /\ Len(text) = n + 1
    BY <1>1, <1>2
  <2>2. \A i \in 1..Len(text) : i < Len(text) => i \in 1..n
    BY <2>1
  <2>3. \A i \in 1..Len(text) : i < Len(text) => Over(text[i])
    BY <1>2, <1>4, <2>2
  <2> QED BY <1>2, <2>1, <2>3
<1> QED BY <1>3, <1>5, <1>6, WriteKeeps

\* The last turn becomes another.
LEMMA LastTurnKeeps ==
    ASSUME IInv, NEW c \in Convs, turns[c] # <<>>, NEW t \in Turn,
           Write(c, [turns[c] EXCEPT ![Len(turns[c])] = t]), Twist \/ UNCHANGED twists
    PROVE  IInv'
<1> DEFINE n == Len(turns[c])
           text == [turns[c] EXCEPT ![n] = t]
<1>1. turns[c] \in Seq(Turn) /\ n \in 0..MaxTurns
  BY TurnsTyped DEF IInv
<1>2. n \in 1..MaxTurns
  BY <1>1, RoutingAssumption
<1>3. text \in Seq(Turn) /\ Len(text) = n
  BY <1>1, <1>2
<1>4. text \in Transcript
  BY <1>2, <1>3, TranscriptIsSeq, RoutingAssumption
<1>5. \A i \in 1..n : i < n => Over(turns[c][i])
  BY DEF IInv, Frozen
<1>6. \A i \in 1..n : i < n => text[i] = turns[c][i]
  BY <1>1, <1>2
<1>7. twists' \in 0..MaxTwists
  BY TwistTyped DEF IInv
<1>8. Write(c, text) /\ n <= Len(text) /\ \A i \in 1..Len(text) : i < Len(text) => Over(text[i])
  <2>1. n <= n /\ n \in Int
    BY <1>2, RoutingAssumption
  <2> HIDE DEF text
  <2>2. n <= Len(text) /\ \A i \in 1..Len(text) : i < Len(text) => Over(text[i])
    BY <1>3, <1>5, <1>6, <2>1
  <2> QED BY <2>2 DEF text
<1> HIDE DEF text
<1> QED BY <1>4, <1>6, <1>7, <1>8, WriteKeeps

\* The steps that write to the last turn.
LEMMA AgentSteps ==
    ASSUME IInv, NEW c \in Convs,
           \/ Delegate(c) \/ GoOn(c) \/ (\E end \in Ends : Finish(c, end))
           \/ (\E r \in Repos : Edit(c, r))
    PROVE  IInv'
<1> DEFINE n == Len(turns[c])
           u == turns[c][n]
<1>1. turns[c] # <<>> => turns[c] \in Seq(Turn) /\ n \in 1..Len(turns[c]) /\ u \in Turn
  <2>1. turns[c] \in Seq(Turn) /\ n \in 0..MaxTurns
    BY TurnsTyped DEF IInv
  <2> QED BY <2>1, RoutingAssumption
<1>2. CASE Delegate(c)
  <2>1. /\ turns[c] # <<>> /\ Twist
        /\ Write(c, [turns[c] EXCEPT ![n].helped = TRUE])
    BY <1>2 DEF Delegate, Running
  <2>2. Write(c, [turns[c] EXCEPT ![n] = [u EXCEPT !.helped = TRUE]])
    BY <2>1
  <2>3. [u EXCEPT !.helped = TRUE] \in Turn
    BY <1>1, <2>1 DEF Turn
  <2> HIDE DEF u
  <2> QED BY <2>1, <2>2, <2>3, LastTurnKeeps
<1>3. CASE GoOn(c)
  <2>1. /\ turns[c] # <<>> /\ Twist
        /\ Write(c, [turns[c] EXCEPT ![n].end = "running"])
    BY <1>3 DEF GoOn
  <2>2. Write(c, [turns[c] EXCEPT ![n] = [u EXCEPT !.end = "running"]])
    BY <2>1
  <2>3. [u EXCEPT !.end = "running"] \in Turn
    BY <1>1, <2>1 DEF Turn, Ends
  <2> HIDE DEF u
  <2> QED BY <2>1, <2>2, <2>3, LastTurnKeeps
<1>4. ASSUME NEW end \in Ends, Finish(c, end) PROVE IInv'
  <2>1. /\ turns[c] # <<>> /\ (Twist \/ UNCHANGED twists)
        /\ Write(c, [turns[c] EXCEPT ![n].end = end])
    BY <1>4 DEF Finish, Running
  <2>2. Write(c, [turns[c] EXCEPT ![n] = [u EXCEPT !.end = end]])
    BY <2>1
  <2>3. [u EXCEPT !.end = end] \in Turn
    BY <1>1, <2>1 DEF Turn
  <2> HIDE DEF u
  <2> QED BY <2>1, <2>2, <2>3, LastTurnKeeps
<1>5. ASSUME NEW r \in Repos, Edit(c, r) PROVE IInv'
  <2>1. /\ turns[c] # <<>> /\ UNCHANGED twists
        /\ Write(c, [turns[c] EXCEPT ![n].edits = @ \cup {r}])
    BY <1>5 DEF Edit, Running
  <2>2. Write(c, [turns[c] EXCEPT ![n] = [u EXCEPT !.edits = @ \cup {r}]])
    BY <2>1
  <2>3. [u EXCEPT !.edits = @ \cup {r}] \in Turn
    BY <1>1, <2>1 DEF Turn
  <2> HIDE DEF u
  <2> QED BY <2>1, <2>2, <2>3, LastTurnKeeps
<1> QED BY <1>2, <1>3, <1>4, <1>5

\* A sub-agent changes what its turn has edited, or ends: no tracker has looked away, and a
\* turn that another has followed is outgrown if it is none of a repository's no longer.
LEMMA HelpKeeps ==
    ASSUME IInv, NEW c \in Convs, NEW i \in 1..Len(turns[c]), turns[c][i].helped,
           NEW t \in Turn, t.end = turns[c][i].end,
           turns' = [turns EXCEPT ![c][i] = t],
           outgrown' \in Turns, outgrown \subseteq outgrown',
           i < Len(turns[c]) /\ t.edits # turns[c][i].edits => <<c, i>> \in outgrown',
           UNCHANGED <<twists, life, mark, seen, job, mishaps, recorded, caught, skipped, forgotten>>
    PROVE  IInv'
<1> USE DEF IInv
<1>1. /\ turns[c] \in Seq(Turn) /\ Len(turns[c]) \in 0..MaxTurns
      /\ UNCHANGED <<up, stopped, resumed, floor>>
  BY TurnsTyped DEF life
<1>2. /\ turns'[c] = [turns[c] EXCEPT ![i] = t]
      /\ \A d \in Convs : d # c => turns'[d] = turns[d]
  BY DEF Typed
<1>3. /\ turns'[c] \in Seq(Turn) /\ Len(turns'[c]) = Len(turns[c])
      /\ turns'[c][i] = t /\ \A j \in 1..Len(turns[c]) : j # i => turns'[c][j] = turns[c][j]
  BY <1>1, <1>2
<1>4. turns' \in [Convs -> Transcript]
  <2>1. turns'[c] \in Transcript
    <3>1. Len(turns'[c]) <= MaxTurns
      BY <1>1, <1>3, RoutingAssumption
    <3> QED BY <1>3, <3>1, TranscriptIsSeq
  <2> QED BY <1>2, <2>1 DEF Typed
<1>5. Typed'
  BY <1>1, <1>4 DEF Typed
<1>6. \A d \in Convs : Len(turns'[d]) = Len(turns[d])
  BY <1>2, <1>3
<1>7. \A d \in Convs : \A j \in 1..Len(turns[d]) : turns'[d][j].end = turns[d][j].end
  BY <1>2, <1>3
<1>8. ASSUME NEW d \in Convs PROVE Frozen(d)'
  BY <1>6, <1>7 DEF Frozen, Over
<1>9. \A r \in Repos : JobOK(r)'
  BY <1>1 DEF JobOK, Idle
<1>10. ASSUME NEW r \in Repos PROVE c \notin seen[r]
  BY <1>1 DEF Quiet, Helped
<1>11. ASSUME NEW r \in Repos, NEW d \in Convs PROVE Quiet(r, d)' /\ NothingLeft(r, d)'
  <2>1. CASE d # c
    <3>1. Quiet(r, d)'
      BY <1>2, <2>1 DEF Quiet, Helped
    <3>2. NothingLeft(r, d)
      OBVIOUS
    <3>3. NothingLeft(r, d)'
      BY <1>1, <1>2, <2>1, <3>2 DEF NothingLeft, Running, Ended, InCommits, Held, Misses
    <3> QED BY <3>1, <3>3
  <2>2. CASE d = c
    BY <1>10, <2>2 DEF Quiet, NothingLeft
  <2> QED BY <2>1, <2>2
<1>12. ASSUME NEW r \in Repos, NEW d \in Convs PROVE Behind(r, d)'
  <2>1. mark[r][d].past \in Nat /\ Len(turns[d]) \in Nat
    BY TurnsTyped DEF Typed, Mark
  <2>2. ASSUME NEW j \in 1..mark[r][d].past
        PROVE  \/ <<d, j>> \in recorded[r] \cup skipped[r] \cup outgrown'
               \/ Halved(r, d, j)' \/ NotOurs(r, d, j)'
    <3>0. mark[r][d].past <= Len(turns[d])
      BY DEF Behind
    <3>1. j \in 1..Len(turns[d])
      BY <2>1, <3>0
    <3>2. \/ <<d, j>> \in recorded[r] \cup skipped[r] \cup outgrown
          \/ Halved(r, d, j) \/ NotOurs(r, d, j)
      BY DEF Behind
    <3>3. Halved(r, d, j) => Halved(r, d, j)'
      BY <1>6, <1>7, <3>1 DEF Halved, Answers
    <3>4. ASSUME NotOurs(r, d, j) PROVE NotOurs(r, d, j)' \/ <<d, j>> \in outgrown'
      <4>1. CASE d # c \/ j # i \/ t.edits = turns[c][i].edits
        <5>1. turns'[d][j].edits = turns[d][j].edits
          BY <1>2, <1>3, <3>1, <4>1
        <5> QED BY <1>1, <1>6, <3>4, <5>1 DEF NotOurs
      <4>2. CASE d = c /\ j = i /\ t.edits # turns[c][i].edits
        BY <3>4, <4>2 DEF NotOurs
      <4> QED BY <4>1, <4>2
    <3> QED BY <3>2, <3>3, <3>4
  <2> QED BY <1>6, <2>2 DEF Behind
<1> QED BY <1>5, <1>8, <1>9, <1>11, <1>12

LEMMA HelperSteps ==
    ASSUME IInv, NEW c \in Convs, NEW i \in DOMAIN turns[c],
           HelperEnd(c, i) \/ \E r \in Repos : HelperEdit(c, i, r)
    PROVE  IInv'
<1> DEFINE u == turns[c][i]
<1>1. /\ turns[c] \in Seq(Turn) /\ i \in 1..Len(turns[c]) /\ u \in Turn
      /\ <<c, i>> \in Names /\ outgrown \in Turns
  <2>1. turns[c] \in Seq(Turn) /\ Len(turns[c]) \in 0..MaxTurns /\ outgrown \in Turns
    BY TurnsTyped DEF IInv, Typed
  <2>2. i \in 1..Len(turns[c])
    BY <2>1
  <2>3. i \in 1..MaxTurns /\ turns[c][i] \in Turn
    BY <2>1, <2>2, RoutingAssumption
  <2> QED BY <2>1, <2>2, <2>3 DEF Names
<1>2. CASE HelperEnd(c, i)
  <2> DEFINE t == [u EXCEPT !.helped = FALSE]
  <2>1. /\ u.helped /\ turns' = [turns EXCEPT ![c][i].helped = FALSE]
        /\ UNCHANGED <<twists, life, mark, seen, job, mishaps, recorded, caught, skipped, forgotten>>
        /\ outgrown' = outgrown
    BY <1>2 DEF HelperEnd, history
  <2>2. turns' = [turns EXCEPT ![c][i] = t]
    BY <2>1
  <2>3. t \in Turn /\ t.end = u.end /\ t.edits = u.edits
    BY <1>1 DEF Turn
  <2>4. outgrown' \in Turns /\ outgrown \subseteq outgrown'
    BY <1>1, <2>1
  <2>5. i < Len(turns[c]) /\ t.edits # turns[c][i].edits => <<c, i>> \in outgrown'
    BY <2>3
  <2>6. t.end = turns[c][i].end /\ turns[c][i].helped
    BY <2>1, <2>3
  <2> HIDE DEF t, u
  <2>7. UNCHANGED <<twists, life, mark, seen, job, mishaps, recorded, caught, skipped, forgotten>>
    BY <2>1
  <2>8. i \in 1..Len(turns[c]) /\ t \in Turn
    BY <1>1, <2>3
  <2> QED BY <2>2, <2>4, <2>5, <2>6, <2>7, <2>8, HelpKeeps
<1>3. ASSUME NEW r \in Repos, HelperEdit(c, i, r) PROVE IInv'
  <2> DEFINE t == [u EXCEPT !.edits = @ \cup {r}]
  <2>1. /\ u.helped /\ turns' = [turns EXCEPT ![c][i].edits = @ \cup {r}]
        /\ UNCHANGED <<twists, life, mark, seen, job, mishaps, recorded, caught, skipped, forgotten>>
        /\ outgrown' = IF i < Len(turns[c]) THEN outgrown \cup {<<c, i>>} ELSE outgrown
    BY <1>3 DEF HelperEdit
  <2>2. turns' = [turns EXCEPT ![c][i] = t]
    BY <2>1
  <2>3. t \in Turn /\ t.end = u.end
    BY <1>1 DEF Turn
  <2>4. /\ outgrown' \in Turns /\ outgrown \subseteq outgrown'
        /\ (i < Len(turns[c]) => <<c, i>> \in outgrown')
    BY <1>1, <2>1 DEF Turns
  <2> HIDE DEF t
  <2> QED BY <1>1, <2>1, <2>2, <2>3, <2>4, HelpKeeps
<1> QED BY <1>2, <1>3

-----------------------------------------------------------------------------
(* The steps of the trackers.                                              *)

\* What is in a repository's commits, and what was left out of them, stays so.
Kept ==
    /\ mark' \in [Repos -> [Convs -> Mark]]
    /\ recorded' \in [Repos -> Turns] /\ caught' \in [Repos -> Turns]
    /\ skipped' \in [Repos -> Turns] /\ forgotten' \in [Repos -> Turns]
    /\ \A s \in Repos : /\ recorded[s] \subseteq recorded'[s] /\ caught[s] \subseteq caught'[s]
                        /\ skipped[s] \subseteq skipped'[s]
                        /\ forgotten[s] \subseteq forgotten'[s]
    /\ \A s \in Repos, d \in Convs : Behind(s, d)'

\* What a pass adds: the turns placed and those left out stay what they were.
LEMMA PlacedKeeps ==
    ASSUME IInv, NEW r \in Repos, NEW c \in Convs,
           NEW m \in Mark, m.past <= Len(turns[c]),
           NEW gone \in SUBSET (1..Len(turns[c])), NEW add \in Turns, NEW half \in Turns,
           NEW lost \in Turns,
           \A i \in 1..m.past : \/ i <= mark[r][c].past \/ i \in gone
                                \/ <<c, i>> \in add \/ Halved(r, c, i) \/ NotOurs(r, c, i),
           m.part => m = mark[r][c] \/ <<c, m.past + 1>> \in half,
           mark' = [mark EXCEPT ![r][c] = m],
           recorded' = [recorded EXCEPT ![r] = @ \cup add],
           caught' = [caught EXCEPT ![r] = @ \cup half],
           skipped' = [skipped EXCEPT ![r] = @ \cup Named(c, gone)],
           forgotten' = [forgotten EXCEPT ![r] = @ \cup lost],
           UNCHANGED <<agent, life, outgrown>>
    PROVE  Kept
<1> USE DEF IInv
<1>1. UNCHANGED <<turns, up, stopped, resumed, floor, outgrown>>
  BY DEF agent, life
<1>3. Len(turns[c]) \in Nat /\ Len(turns[c]) <= MaxTurns /\ MaxTurns \in Nat
  BY TurnsTyped, RoutingAssumption
<1>4. \A i \in 1..Len(turns[c]) : <<c, i>> \in Names
  BY <1>3 DEF Names
<1>5. Named(c, gone) \in Turns
  BY <1>4 DEF Named, Turns
<1>6. mark' \in [Repos -> [Convs -> Mark]]
  BY DEF Typed
<1>7. /\ recorded' \in [Repos -> Turns] /\ caught' \in [Repos -> Turns]
      /\ skipped' \in [Repos -> Turns] /\ forgotten' \in [Repos -> Turns]
  BY <1>5 DEF Typed, Turns
<1>8. \A s \in Repos : /\ recorded[s] \subseteq recorded'[s] /\ caught[s] \subseteq caught'[s]
                       /\ skipped[s] \subseteq skipped'[s]
                       /\ forgotten[s] \subseteq forgotten'[s]
  BY DEF Typed
<1>9. ASSUME NEW s \in Repos, NEW d \in Convs PROVE Behind(s, d)'
  <2>1. /\ \A i : NotOurs(s, d, i)' = NotOurs(s, d, i)
        /\ \A i : Halved(s, d, i) => Halved(s, d, i)'
    BY <1>1, <1>8 DEF NotOurs, Halved
  <2>2. CASE s # r \/ d # c
    <3>1. mark'[s][d] = mark[s][d]
      BY <2>2 DEF Typed
    <3> QED BY <1>1, <1>8, <2>1, <3>1 DEF Behind
  <2>3. CASE s = r /\ d = c
    <3>1. mark'[r][c] = m
      BY DEF Typed
    <3>2. /\ recorded'[r] = recorded[r] \cup add /\ caught'[r] = caught[r] \cup half
          /\ skipped'[r] = skipped[r] \cup Named(c, gone)
      BY DEF Typed
    <3>3. m.past \in Nat /\ mark[r][c].past \in Nat
      BY DEF Typed, Mark
    <3>4. ASSUME NEW i \in 1..m.past
          PROVE  \/ <<c, i>> \in recorded'[r] \cup skipped'[r] \cup outgrown
                 \/ Halved(r, c, i)' \/ NotOurs(r, c, i)'
      <4>1. CASE i <= mark[r][c].past
        <5>1. i \in 1..mark[r][c].past
          BY <3>3, <4>1
        <5>2. Behind(r, c)
          OBVIOUS
        <5>3. \/ <<c, i>> \in recorded[r] \cup skipped[r] \cup outgrown
              \/ Halved(r, c, i) \/ NotOurs(r, c, i)
          BY <5>1, <5>2 DEF Behind
        <5> QED BY <2>1, <2>3, <3>2, <5>3
      <4>2. CASE i \in gone
        BY <3>2, <4>2 DEF Named
      <4> QED BY <2>1, <2>3, <3>2, <4>1, <4>2
    <3>5. m.part => <<c, m.past + 1>> \in caught'[r]
      BY <3>2 DEF Behind
    <3> QED BY <1>1, <2>3, <3>1, <3>4, <3>5 DEF Behind
  <2> QED BY <2>2, <2>3
<1> QED BY <1>6, <1>7, <1>8, <1>9 DEF Kept

\* The turns a pass records, and the watermark it leaves.
LEMMA TakenAdds ==
    ASSUME IInv, NEW r \in Repos, NEW c \in Convs, NEW p, PassOK(r, c, p)
    PROVE  LET add == Named(c, {i \in p.taken : Over(turns[c][i])})
               half == Named(c, {i \in p.taken : ~Over(turns[c][i])})
               m == MarkAfter(mark[r][c], p)
           IN /\ add \in Turns /\ half \in Turns /\ p.gone \in SUBSET (1..Len(turns[c]))
              /\ m \in Mark /\ m.past <= Len(turns[c])
              /\ \A i \in 1..m.past : \/ i <= mark[r][c].past \/ i \in p.gone
                                      \/ <<c, i>> \in add \/ Halved(r, c, i) \/ NotOurs(r, c, i)
              /\ m.part => m = mark[r][c] \/ <<c, m.past + 1>> \in half
<1> DEFINE add == Named(c, {i \in p.taken : Over(turns[c][i])})
           half == Named(c, {i \in p.taken : ~Over(turns[c][i])})
           m == MarkAfter(mark[r][c], p)
<1>1. Len(turns[c]) \in Nat /\ Len(turns[c]) <= MaxTurns /\ MaxTurns \in Nat
  BY TurnsTyped, RoutingAssumption DEF IInv
<1>2. p.taken \subseteq 1..Len(turns[c])
  BY DEF PassOK
<1>3. add \in Turns /\ half \in Turns
  BY <1>1, <1>2 DEF Named, Turns, Names
<1>4. \A i \in p.taken : IF Over(turns[c][i]) THEN <<c, i>> \in add ELSE <<c, i>> \in half
  BY DEF Named
<1> HIDE DEF add, half, m
<1>5. /\ p.gone \in SUBSET (1..Len(turns[c])) /\ m \in Mark /\ m.past <= Len(turns[c])
      /\ \A i \in 1..m.past : DoneWith(r, c, p, i)
      /\ m.part => \/ m = mark[r][c]
                   \/ m.past + 1 \in p.taken /\ ~Over(turns[c][m.past + 1])
  BY DEF PassOK, m
<1>6. \A i \in 1..m.past : \/ i <= mark[r][c].past \/ i \in p.gone
                           \/ <<c, i>> \in add \/ Halved(r, c, i) \/ NotOurs(r, c, i)
  BY <1>4, <1>5 DEF DoneWith
<1> QED BY <1>3, <1>4, <1>5, <1>6 DEF add, half, m

\* What is placed by a pass is kept.
LEMMA PlacedIsKept ==
    ASSUME IInv, NEW r \in Repos, NEW c \in Convs, NEW p, PassOK(r, c, p), Placed(r, c, p),
           UNCHANGED <<agent, life, forgotten, outgrown>>
    PROVE  /\ Kept
           /\ mark' = [mark EXCEPT ![r][c] = MarkAfter(@, p)]
           /\ Named(c, p.gone) \subseteq skipped'[r]
           /\ \A i \in p.taken : Over(turns[c][i]) => <<c, i>> \in recorded'[r]
<1> DEFINE m == MarkAfter(mark[r][c], p)
           add == Named(c, {i \in p.taken : Over(turns[c][i])})
           half == Named(c, {i \in p.taken : ~Over(turns[c][i])})
<1> USE DEF IInv
<1>1. p.text = turns[c]
  BY DEF PassOK
<1>2. /\ mark' = [mark EXCEPT ![r][c] = m]
      /\ recorded' = [recorded EXCEPT ![r] = @ \cup add]
      /\ caught' = [caught EXCEPT ![r] = @ \cup half]
      /\ skipped' = [skipped EXCEPT ![r] = @ \cup Named(c, p.gone)]
      /\ forgotten' = [forgotten EXCEPT ![r] = @ \cup {}]
  <2>1. forgotten \in [Repos -> Turns]
    BY DEF Typed
  <2>2. forgotten' = [forgotten EXCEPT ![r] = @ \cup {}]
    BY <2>1
  <2>3. mark' = [mark EXCEPT ![r][c] = m]
    BY DEF Placed, Typed
  <2> QED BY <1>1, <2>2, <2>3 DEF Placed
<1>3. {} \in Turns
  BY DEF Turns
<1>4. /\ add \in Turns /\ half \in Turns /\ p.gone \in SUBSET (1..Len(turns[c]))
      /\ m \in Mark /\ m.past <= Len(turns[c])
      /\ \A i \in 1..m.past : \/ i <= mark[r][c].past \/ i \in p.gone
                              \/ <<c, i>> \in add \/ Halved(r, c, i) \/ NotOurs(r, c, i)
      /\ m.part => m = mark[r][c] \/ <<c, m.past + 1>> \in half
  BY TakenAdds
<1>5. UNCHANGED <<agent, life, outgrown>>
  OBVIOUS
<1>6. Named(c, p.gone) \subseteq skipped'[r]
  BY <1>2 DEF Typed
<1>7. \A i \in p.taken : Over(turns[c][i]) => <<c, i>> \in recorded'[r]
  BY <1>2 DEF Typed, Named
<1>8. mark' = [mark EXCEPT ![r][c] = MarkAfter(@, p)]
  BY DEF Placed
<1> HIDE DEF add, half, m
<1>9. Kept
  BY <1>2, <1>3, <1>4, <1>5, PlacedKeeps
<1> QED BY <1>6, <1>7, <1>8, <1>9

LEMMA HomeKeepsInv ==
    ASSUME IInv, NEW r \in Repos, NEW c \in Convs, NEW how, ProcessHome(r, c, how)
    PROVE  IInv'
<1> DEFINE p == Pass(r, c, how, turns[c])
<1> USE DEF IInv
<1>1. /\ HomeOf[c] = r /\ Placed(r, c, p)
      /\ UNCHANGED <<agent, life, seen, job, mishaps, forgotten, outgrown>>
  BY DEF ProcessHome
<1>2. PassOK(r, c, p)
  BY <1>1, PassFacts
<1> HIDE DEF p
<1>3. /\ Kept /\ mark' = [mark EXCEPT ![r][c] = MarkAfter(@, p)]
      /\ UNCHANGED <<agent, life, forgotten, outgrown>>
  <2>1. UNCHANGED <<agent, life, forgotten, outgrown>>
    BY <1>1
  <2> QED BY <1>1, <1>2, <2>1, PlacedIsKept
<1>4. UNCHANGED <<turns, twists, up, stopped, resumed, floor, seen, job, mishaps, outgrown>>
  BY <1>1 DEF agent, life
<1>5. Typed'
  BY <1>3, <1>4 DEF Typed, Kept
<1>6. (\A s \in Repos : JobOK(s)') /\ (\A d \in Convs : Frozen(d)')
  BY <1>4 DEF JobOK, Idle, Frozen
<1>7. ASSUME NEW s \in Repos, NEW d \in Convs PROVE Quiet(s, d)' /\ NothingLeft(s, d)'
  <2>1. Quiet(s, d)'
    BY <1>4 DEF Quiet, Helped
  <2>2. CASE HomeOf[d] # s
    <3>1. mark'[s][d] = mark[s][d]
      BY <1>1, <1>3, <2>2 DEF Typed
    <3>2. NothingLeft(s, d)
      OBVIOUS
    <3>3. /\ recorded[s] \subseteq recorded'[s] /\ caught[s] \subseteq caught'[s]
          /\ skipped[s] \subseteq skipped'[s] /\ forgotten[s] \subseteq forgotten'[s]
      BY <1>3 DEF Kept
    <3> QED BY <1>4, <2>1, <3>1, <3>2, <3>3 DEF NothingLeft, Running, Ended, InCommits, Held, Misses
  <2>3. CASE HomeOf[d] = s
    BY <2>1, <2>3 DEF NothingLeft
  <2> QED BY <2>2, <2>3
<1> QED BY <1>3, <1>5, <1>6, <1>7 DEF Kept

\* The end of a pass: the conversation is remembered as it was listed.
LEMMA RememberKeeps ==
    ASSUME IInv, NEW r \in Repos, ~Idle(r), NEW c \in Convs, c = job[r].conv,
           NEW p, PassOK(r, c, p), Kept,
           \A s \in Repos, d \in Convs : s # r \/ d # c => mark'[s][d] = mark[s][d],
           Named(c, p.gone) \subseteq skipped'[r],
           \A i \in p.taken : Over(turns[c][i]) => <<c, i>> \in recorded'[r] \cup forgotten'[r],
           seen' = Remembered(r), job' = [job EXCEPT ![r] = NoJob],
           UNCHANGED <<agent, life, outgrown>>, mishaps' \in 0..MaxMishaps
    PROVE  IInv'
<1> USE DEF IInv
<1>1. UNCHANGED <<turns, twists, up, stopped, resumed, floor, outgrown>>
  BY DEF agent, life
<1>2. HomeOf[c] # r /\ floor[r] # None
  BY DEF JobOK
<1>3. /\ seen' \in [Repos -> SUBSET Convs]
      /\ \A s \in Repos, d \in Convs : s # r \/ d # c => (d \in seen'[s] <=> d \in seen[s])
      /\ c \in seen'[r] => ~Helped(c)
  <2>1. CASE Helped(c)
    <3>1. seen' = seen
      BY <2>1 DEF Remembered, Helped
    <3>2. Quiet(r, c)
      OBVIOUS
    <3> QED BY <2>1, <3>1, <3>2 DEF Typed, Quiet
  <2>2. CASE ~Helped(c)
    <3>1. seen' = [seen EXCEPT ![r] = IF job[r].fresh THEN @ \cup {c} ELSE @ \ {c}]
      BY <2>2 DEF Remembered, Helped
    <3> QED BY <2>2, <3>1 DEF Typed
  <2> QED BY <2>1, <2>2
<1>4. /\ job' \in [Repos -> {NoJob} \cup Job]
      /\ \A s \in Repos : Idle(s)' \/ (~Idle(s) /\ job'[s] = job[s])
  BY DEF Typed, Idle
<1>5. Typed'
  BY <1>1, <1>3, <1>4 DEF Typed, Kept
<1>6. (\A s \in Repos : JobOK(s)') /\ (\A d \in Convs : Frozen(d)')
  BY <1>1, <1>4 DEF JobOK, Frozen
<1>7. ASSUME NEW s \in Repos, NEW d \in Convs PROVE Quiet(s, d)'
  <2>1. Quiet(s, d) /\ Helped(d)' = Helped(d)
    BY <1>1 DEF Helped
  <2> QED BY <1>3, <2>1 DEF Quiet
<1>8. ASSUME NEW s \in Repos, NEW d \in Convs PROVE NothingLeft(s, d)'
  <2>0. /\ recorded[s] \subseteq recorded'[s] /\ caught[s] \subseteq caught'[s]
        /\ skipped[s] \subseteq skipped'[s] /\ forgotten[s] \subseteq forgotten'[s]
    BY DEF Kept
  <2>1. CASE s # r \/ d # c
    <3>1. (d \in seen'[s] <=> d \in seen[s]) /\ mark'[s][d] = mark[s][d]
      BY <1>3, <2>1
    <3>2. NothingLeft(s, d)
      OBVIOUS
    <3> QED BY <1>1, <2>0, <3>1, <3>2 DEF NothingLeft, Running, Ended, InCommits, Held, Misses
  <2>2. CASE s = r /\ d = c
    <3>1. SUFFICES ASSUME c \in seen'[r], ~Running(c), NEW i \in Ended(c), r \in turns[c][i].edits
                   PROVE  \/ InCommits(r, c, i)' \/ Held(r, c, i)' \/ Misses(r, c, i)'
                          \/ <<c, i>> \in forgotten'[r] \cup outgrown
      BY <1>1, <2>2 DEF NothingLeft, Running, Ended
    <3>2. i \in 1..Len(turns[c]) /\ Over(turns[c][i]) /\ i \in Nat
      BY <3>1, TurnsTyped DEF Ended
    <3>3. mark'[r][c].past \in Nat
      BY DEF Kept, Mark
    <3>4. CASE i <= mark'[r][c].past
      <4>1. i \in 1..mark'[r][c].past
        BY <3>2, <3>3, <3>4
      <4>2. \/ <<c, i>> \in recorded'[r] \cup skipped'[r] \cup outgrown
            \/ Halved(r, c, i)' \/ NotOurs(r, c, i)'
        <5>1. Behind(r, c)'
          BY DEF Kept
        <5> QED BY <1>1, <4>1, <5>1 DEF Behind
      <4>3. NotOurs(r, c, i)' => Misses(r, c, i)'
        BY <1>1, <1>2, <3>1 DEF NotOurs, Misses
      <4>4. Halved(r, c, i)' => InCommits(r, c, i)'
        BY DEF Halved, InCommits
      <4> QED BY <4>2, <4>3, <4>4 DEF InCommits, Misses
    <3>5. CASE ~(i <= mark'[r][c].past) /\ turns[c][i].end # "answered"
      BY <1>1, <3>2, <3>3, <3>5 DEF Held
    <3>6. CASE ~(i <= mark'[r][c].past) /\ turns[c][i].end = "answered"
      <4>1. ~Helped(c)
        BY <1>3, <3>1
      <4>2. i <= mark[r][c].past \/ i \in p.gone \/ i \in p.taken \/ i <= floor[r][c]
        BY <1>2, <3>1, <3>2, <3>6, <4>1 DEF PassOK
      <4>3. CASE i <= mark[r][c].past
        <5>1. i \in 1..mark[r][c].past
          BY <3>2, <4>3, TurnsTyped DEF Typed, Mark
        <5>2. \/ <<c, i>> \in recorded[r] \cup skipped[r] \cup outgrown
              \/ Halved(r, c, i) \/ NotOurs(r, c, i)
          BY <5>1 DEF Behind
        <5>3. ~Halved(r, c, i)
          BY <3>6 DEF Halved, Answers
        <5>4. NotOurs(r, c, i) => Misses(r, c, i)'
          BY <1>1, <1>2, <3>1 DEF NotOurs, Misses
        <5> QED BY <2>0, <2>2, <5>2, <5>3, <5>4 DEF InCommits, Misses
      <4>4. CASE i \in p.gone
        BY <4>4 DEF Misses, Named
      <4>5. CASE i \in p.taken
        BY <3>2, <4>5 DEF InCommits
      <4>6. CASE i <= floor[r][c]
        BY <1>1, <4>6 DEF Misses
      <4> QED BY <4>2, <4>3, <4>4, <4>5, <4>6
    <3> QED BY <3>4, <3>5, <3>6
  <2> QED BY <2>1, <2>2
<1> QED BY <1>5, <1>6, <1>7, <1>8 DEF Kept

LEMMA PlaceKeeps ==
    ASSUME IInv, NEW r \in Repos, Place(r)
    PROVE  IInv'
<1> DEFINE c == job[r].conv
           p == Pass(r, c, job[r].how, turns[c])
<1> USE DEF IInv
<1>1. /\ ~Idle(r) /\ Placed(r, c, p) /\ seen' = Remembered(r)
      /\ job' = [job EXCEPT ![r] = NoJob]
      /\ UNCHANGED <<agent, life, mishaps, forgotten, outgrown>>
  BY DEF Place
<1>2. c \in Convs /\ floor[r] # None
  BY <1>1 DEF Typed, Idle, Job, JobOK
<1>3. PassOK(r, c, p)
  BY <1>2, PassFacts
<1>4. c = job[r].conv
  OBVIOUS
<1> HIDE DEF p, c
<1>5. /\ Kept
      /\ mark' = [mark EXCEPT ![r][c] = MarkAfter(@, p)]
      /\ Named(c, p.gone) \subseteq skipped'[r]
      /\ \A i \in p.taken : Over(turns[c][i]) => <<c, i>> \in recorded'[r]
  <2>1. UNCHANGED <<agent, life, forgotten, outgrown>>
    BY <1>1
  <2> QED BY <1>1, <1>2, <1>3, <2>1, PlacedIsKept
<1>6. \A s \in Repos, d \in Convs : s # r \/ d # c => mark'[s][d] = mark[s][d]
  BY <1>5 DEF Typed
<1>7. mishaps' \in 0..MaxMishaps /\ UNCHANGED <<agent, life, outgrown>>
  BY <1>1 DEF Typed
<1> QED BY <1>1, <1>2, <1>3, <1>4, <1>5, <1>6, <1>7, RememberKeeps

LEMMA PlaceFailsKeeps ==
    ASSUME IInv, NEW r \in Repos, PlaceFails(r)
    PROVE  IInv'
<1> DEFINE c == job[r].conv
           p == Pass(r, c, job[r].how, turns[c])
           m == StepOver(mark[r][c], p)
<1> USE DEF IInv
<1>1. /\ ~Idle(r) /\ Mishap /\ seen' = Remembered(r)
      /\ job' = [job EXCEPT ![r] = NoJob]
      /\ skipped' = [skipped EXCEPT ![r] = @ \cup Named(c, p.gone)]
      /\ forgotten' = [forgotten EXCEPT ![r] = @ \cup Named(c, p.taken)]
      /\ UNCHANGED <<agent, life, recorded, caught, outgrown>>
  BY DEF PlaceFails
<1>2. c \in Convs /\ floor[r] # None /\ c = job[r].conv
  BY <1>1 DEF Typed, Idle, Job, JobOK
<1>3. mark' = [mark EXCEPT ![r][c] = m]
  <2> HIDE DEF p, c
  <2> QED BY <1>2 DEF PlaceFails, Typed, p, c
<1>4. PassOK(r, c, p)
  BY <1>2, PassFacts
<1> HIDE DEF p, m, c
<1>5. /\ recorded' = [recorded EXCEPT ![r] = @ \cup {}]
      /\ caught' = [caught EXCEPT ![r] = @ \cup {}]
  <2>1. recorded \in [Repos -> Turns] /\ caught \in [Repos -> Turns]
    BY DEF Typed
  <2> QED BY <1>1, <2>1
<1>6. p.gone \subseteq 1..Len(turns[c]) /\ p.taken \subseteq 1..Len(turns[c])
  BY <1>4 DEF PassOK
<1>7. Named(c, p.taken) \in Turns
  <2>1. Len(turns[c]) \in Nat /\ Len(turns[c]) <= MaxTurns /\ MaxTurns \in Nat
    BY <1>2, TurnsTyped, RoutingAssumption
  <2> QED BY <1>2, <1>6, <2>1 DEF Named, Turns, Names
<1>8. /\ m \in Mark /\ m.past <= Len(turns[c]) /\ p.gone \in SUBSET (1..Len(turns[c]))
      /\ \A i \in 1..m.past : \/ i <= mark[r][c].past \/ i \in p.gone
                              \/ Halved(r, c, i) \/ NotOurs(r, c, i)
      /\ m.part => m = mark[r][c]
  BY <1>4 DEF PassOK, m
<1>9. {} \in Turns /\ UNCHANGED <<agent, life, outgrown>>
  BY <1>1 DEF Turns
<1>10. Kept
  <2>1. /\ \A i \in 1..m.past : \/ i <= mark[r][c].past \/ i \in p.gone
                                 \/ <<c, i>> \in {} \/ Halved(r, c, i) \/ NotOurs(r, c, i)
        /\ m.part => m = mark[r][c] \/ <<c, m.past + 1>> \in {}
    BY <1>8
  <2>2. /\ skipped' = [skipped EXCEPT ![r] = @ \cup Named(c, p.gone)]
        /\ forgotten' = [forgotten EXCEPT ![r] = @ \cup Named(c, p.taken)]
        /\ UNCHANGED <<agent, life, outgrown>>
    BY <1>1
  <2>3. /\ c \in Convs /\ m \in Mark /\ m.past <= Len(turns[c])
        /\ p.gone \in SUBSET (1..Len(turns[c])) /\ {} \in Turns
    BY <1>2, <1>8, <1>9
  <2> HIDE DEF IInv
  <2> QED BY <1>3, <1>5, <1>7, <2>1, <2>2, <2>3, PlacedKeeps
<1>11. Named(c, p.gone) \subseteq skipped'[r]
  BY <1>1 DEF Typed
<1>12. \A i \in p.taken : Over(turns[c][i]) => <<c, i>> \in recorded'[r] \cup forgotten'[r]
  BY <1>1 DEF Typed, Named
<1>13. mishaps' \in 0..MaxMishaps
  BY <1>1, RoutingAssumption DEF Typed, Mishap
<1>14. \A s \in Repos, d \in Convs : s # r \/ d # c => mark'[s][d] = mark[s][d]
  BY <1>3 DEF Typed
<1> QED BY <1>1, <1>2, <1>4, <1>9, <1>10, <1>11, <1>12, <1>13, <1>14, RememberKeeps

\* A tracker lists a conversation.
LEMMA ListKeeps ==
    ASSUME IInv, NEW r \in Repos, NEW c \in Convs, NEW how \in Hows, List(r, c, how)
    PROVE  IInv'
<1> USE DEF IInv
<1>1. /\ Looking(r, how) /\ floor[r] # None /\ HomeOf[c] # r
      /\ job' = [job EXCEPT ![r] = [conv |-> c, how |-> how, fresh |-> TRUE]]
      /\ UNCHANGED <<turns, twists, up, stopped, resumed, floor, mark, seen, mishaps>>
      /\ UNCHANGED <<recorded, caught, skipped, forgotten, outgrown>>
  BY DEF List, agent, life, history
<1>2. /\ job' \in [Repos -> {NoJob} \cup Job]
      /\ job'[r].conv = c
      /\ \A s \in Repos : s # r => job'[s] = job[s]
  BY <1>1 DEF Typed, Job
<1>3. up[r] \in {"up", "ending"}
  BY <1>1 DEF Looking
<1>4. Typed'
  BY <1>1, <1>2 DEF Typed
<1>5. ASSUME NEW s \in Repos PROVE JobOK(s)'
  <2>1. CASE s = r
    BY <1>1, <1>2, <1>3, <2>1 DEF JobOK
  <2>2. CASE s # r
    BY <1>1, <1>2, <2>2 DEF JobOK, Idle
  <2> QED BY <2>1, <2>2
<1>6. ASSUME NEW s \in Repos, NEW d \in Convs
      PROVE  Frozen(d)' /\ Behind(s, d)' /\ Quiet(s, d)' /\ NothingLeft(s, d)'
  <2>1. Frozen(d) /\ Behind(s, d) /\ Quiet(s, d) /\ NothingLeft(s, d)
    OBVIOUS
  <2>2. Frozen(d)' /\ Behind(s, d)' /\ Quiet(s, d)'
    BY <1>1, <2>1 DEF Frozen, Behind, Halved, NotOurs, Quiet, Helped
  <2>3. NothingLeft(s, d)'
    BY <1>1, <2>1 DEF NothingLeft, Running, Ended, InCommits, Held, Misses
  <2> QED BY <2>2, <2>3
<1> QED BY <1>4, <1>5, <1>6

\* A repository begins to route: what was begun before stays none of its.
LEMMA BeginKeeps ==
    ASSUME IInv, NEW r \in Repos, BeginRouting(r)
    PROVE  IInv'
<1> USE DEF IInv
<1>1. /\ Idle(r) /\ floor[r] = None
      /\ floor' = [floor EXCEPT ![r] = [c \in Convs |-> Len(turns[c])]]
      /\ UNCHANGED <<turns, twists, up, stopped, resumed, mark, seen, job, mishaps>>
      /\ UNCHANGED <<recorded, caught, skipped, forgotten, outgrown>>
  BY DEF BeginRouting, agent, life, history
<1>2. \A c \in Convs : Len(turns[c]) \in 0..MaxTurns
  BY TurnsTyped
<1>3. /\ floor' \in [Repos -> {None} \cup [Convs -> 0..MaxTurns]]
      /\ \A c \in Convs : floor'[r][c] = Len(turns[c])
      /\ \A s \in Repos : s # r => floor'[s] = floor[s]
  BY <1>1, <1>2 DEF Typed
<1>4. Typed'
  BY <1>1, <1>3 DEF Typed, Idle
<1>5. ASSUME NEW s \in Repos PROVE JobOK(s)'
  BY <1>1, <1>3 DEF JobOK, Idle
<1>6. ASSUME NEW s \in Repos, NEW d \in Convs PROVE Quiet(s, d)' /\ Frozen(d)'
  BY <1>1 DEF Quiet, Helped, Frozen
<1>7. ASSUME NEW s \in Repos, NEW d \in Convs PROVE Behind(s, d)'
  <2>1. ASSUME NEW i
        PROVE  /\ NotOurs(s, d, i) => NotOurs(s, d, i)'
               /\ Halved(s, d, i) => Halved(s, d, i)'
    BY <1>1, <1>3 DEF NotOurs, Halved
  <2> QED BY <1>1, <2>1 DEF Behind
<1>8. ASSUME NEW s \in Repos, NEW d \in Convs PROVE NothingLeft(s, d)'
  <2>1. CASE s = r
    <3>1. \A i \in Ended(d) : i <= floor'[r][d]
      BY <1>2, <1>3 DEF Ended
    <3> QED BY <1>1, <2>1, <3>1 DEF NothingLeft, Running, Ended, Misses
  <2>2. CASE s # r
    <3>1. NothingLeft(s, d)
      OBVIOUS
    <3> QED BY <1>1, <1>3, <2>2, <3>1 DEF NothingLeft, Running, Ended, InCommits, Held, Misses
  <2> QED BY <2>1, <2>2
<1> QED BY <1>4, <1>5, <1>6, <1>7, <1>8

\* Trackers come and go: a tracker that comes knows nothing, one that goes drops what it did.
LEMMA LifeKeeps ==
    ASSUME IInv, UNCHANGED <<agent, floor, mark, history>>,
           stopped' \subseteq Repos, up' \in [Repos -> {"down", "up", "ending", "other"}],
           resumed' \in [Repos -> [Convs -> 0..MaxTurns]], mishaps' \in 0..MaxMishaps,
           seen' \in [Repos -> SUBSET Convs],
           \A r \in Repos : seen'[r] \subseteq seen[r],
           job' \in [Repos -> {NoJob} \cup Job],
           \A r \in Repos : \/ job'[r] = NoJob
                            \/ job'[r] = job[r] /\ (up[r] \in {"up", "ending"}
                                                     => up'[r] \in {"up", "ending"})
    PROVE  IInv'
<1> USE DEF IInv
<1>1. UNCHANGED <<turns, twists, floor, mark, recorded, caught, skipped, forgotten, outgrown>>
  BY DEF agent, history
<1>2. Typed'
  BY <1>1 DEF Typed
<1>3. ASSUME NEW r \in Repos PROVE JobOK(r)'
  BY <1>1 DEF JobOK, Idle
<1>4. ASSUME NEW c \in Convs PROVE Frozen(c)'
  BY <1>1 DEF Frozen
<1>5. ASSUME NEW r \in Repos, NEW c \in Convs PROVE Behind(r, c)'
  BY <1>1 DEF Behind, Halved, NotOurs
<1>6. ASSUME NEW r \in Repos, NEW c \in Convs PROVE Quiet(r, c)'
  BY <1>1 DEF Quiet, Helped
<1>7. ASSUME NEW r \in Repos, NEW c \in Convs PROVE NothingLeft(r, c)'
  <2>1. c \in seen'[r] => c \in seen[r]
    OBVIOUS
  <2>2. NothingLeft(r, c)
    OBVIOUS
  <2> QED BY <1>1, <2>1, <2>2 DEF NothingLeft, Running, Ended, InCommits, Held, Misses
<1> QED BY <1>2, <1>3, <1>4, <1>5, <1>6, <1>7

LEMMA LifeSteps ==
    ASSUME IInv, NEW r \in Repos,
           \/ Start(r) \/ Resume(r) \/ Stop(r) \/ Terminate(r)
           \/ Leave(r) \/ Hold(r) \/ LetGo(r)
    PROVE  IInv'
<1>1. Typed /\ JobOK(r)
  BY DEF IInv
<1>2. /\ \A c \in Convs : Len(turns[c]) \in 0..MaxTurns
      /\ Mishap => mishaps' \in 0..MaxMishaps
  BY <1>1, TurnsTyped, RoutingAssumption DEF Typed, Mishap
<1>3. CASE Start(r)
  <2>1. /\ up[r] = "down" /\ up' = [up EXCEPT ![r] = "up"]
        /\ seen' = [seen EXCEPT ![r] = {}]
        /\ UNCHANGED <<agent, stopped, resumed, floor, mark, job, mishaps, history>>
    BY <1>3 DEF Start, Boot
  <2> QED BY <1>1, <2>1, LifeKeeps DEF Typed, JobOK
<1>4. CASE Resume(r)
  <2>1. /\ up[r] = "down" /\ up' = [up EXCEPT ![r] = "up"] /\ stopped' = stopped \ {r}
        /\ resumed' = [resumed EXCEPT ![r] = [c \in Convs |-> Len(turns[c])]]
        /\ seen' = [seen EXCEPT ![r] = {}]
        /\ UNCHANGED <<agent, floor, mark, job, mishaps, history>>
    BY <1>4 DEF Resume, Boot
  <2> QED BY <1>1, <1>2, <2>1, LifeKeeps DEF Typed, JobOK
<1>5. CASE Stop(r)
  <2>1. /\ Mishap /\ stopped' = stopped \cup {r}
        /\ up' = [up EXCEPT ![r] = IF @ = "up" THEN "ending" ELSE @]
        /\ UNCHANGED <<agent, resumed, floor, mark, seen, job, history>>
    BY <1>5 DEF Stop
  <2> QED BY <1>1, <1>2, <2>1, LifeKeeps DEF Typed, JobOK
<1>6. CASE Terminate(r)
  <2>1. /\ Mishap /\ up' = [up EXCEPT ![r] = "ending"]
        /\ UNCHANGED <<agent, stopped, resumed, floor, mark, seen, job, history>>
    BY <1>6 DEF Terminate
  <2> QED BY <1>1, <1>2, <2>1, LifeKeeps DEF Typed, JobOK
<1>7. CASE Leave(r)
  <2>1. /\ mishaps' \in 0..MaxMishaps
        /\ up' = [up EXCEPT ![r] = "down"] /\ job' = [job EXCEPT ![r] = NoJob]
        /\ UNCHANGED <<agent, stopped, resumed, floor, mark, seen, history>>
    BY <1>1, <1>2, <1>7 DEF Leave, Typed
  <2> QED BY <1>1, <2>1, LifeKeeps DEF Typed, JobOK
<1>8. CASE Hold(r) \/ LetGo(r)
  <2>1. /\ mishaps' \in 0..MaxMishaps
        /\ up[r] \in {"down", "other"} /\ up' \in [Repos -> {"down", "up", "ending", "other"}]
        /\ \A s \in Repos : s # r => up'[s] = up[s]
        /\ UNCHANGED <<agent, stopped, resumed, floor, mark, seen, job, history>>
    BY <1>1, <1>2, <1>8 DEF Hold, LetGo, Typed
  <2> QED BY <1>1, <2>1, LifeKeeps DEF Typed, JobOK
<1> QED BY <1>3, <1>4, <1>5, <1>6, <1>7, <1>8

-----------------------------------------------------------------------------
(* The theorems.                                                           *)

LEMMA InitInv == Init => IInv
<1> SUFFICES ASSUME Init PROVE IInv
  OBVIOUS
<1>1. <<>> \in Transcript
  <2>1. <<>> \in Seq(Turn) /\ Len(<<>>) = 0 /\ 0 <= MaxTurns
    BY RoutingAssumption
  <2> QED BY <2>1, TranscriptIsSeq
<1>2. Typed
  BY <1>1, RoutingAssumption DEF Init, Typed, Mark, Turns, Names
<1>3. (\A r \in Repos : JobOK(r)) /\ (\A c \in Convs : Frozen(c))
  BY DEF Init, JobOK, Idle, Frozen
<1>4. ASSUME NEW r \in Repos, NEW c \in Convs
      PROVE  Behind(r, c) /\ Quiet(r, c) /\ NothingLeft(r, c)
  <2>1. Behind(r, c)
    BY DEF Init, Behind
  <2>2. Quiet(r, c)
    BY DEF Init, Quiet
  <2>3. NothingLeft(r, c)
    BY DEF Init, NothingLeft
  <2> QED BY <2>1, <2>2, <2>3
<1> QED BY <1>2, <1>3, <1>4 DEF IInv

LEMMA NextInv == IInv /\ [Next]_vars => IInv'
<1> SUFFICES ASSUME IInv, [Next]_vars PROVE IInv'
  OBVIOUS
<1>1. CASE \E c \in Convs : \/ Prompt(c) \/ Delegate(c) \/ GoOn(c)
                          \/ (\E end \in Ends : Finish(c, end))
                          \/ (\E r \in Repos : Edit(c, r))
  BY <1>1, PromptKeeps, AgentSteps
<1>2. CASE \E c \in Convs : \E i \in DOMAIN turns[c] :
              HelperEnd(c, i) \/ \E r \in Repos : HelperEdit(c, i, r)
  BY <1>2, HelperSteps
<1>3. CASE \E r \in Repos, c \in Convs, how \in Hows : ProcessHome(r, c, how) \/ List(r, c, how)
  BY <1>3, HomeKeepsInv, ListKeeps
<1>4. CASE \E r \in Repos : BeginRouting(r) \/ Place(r) \/ PlaceFails(r)
  BY <1>4, BeginKeeps, PlaceKeeps, PlaceFailsKeeps
<1>5. CASE \E r \in Repos : \/ Start(r) \/ Resume(r) \/ Stop(r) \/ Terminate(r)
                            \/ Leave(r) \/ Hold(r) \/ LetGo(r)
  BY <1>5, LifeSteps
<1>6. CASE UNCHANGED vars
  <2>1. UNCHANGED <<agent, stopped, up, resumed, floor, mark, seen, job, mishaps, history>>
    BY <1>6 DEF vars, life
  <2> QED BY <2>1, LifeKeeps DEF IInv, Typed
<1> QED BY <1>1, <1>2, <1>3, <1>4, <1>5, <1>6 DEF Next

\* What is known of every repository and conversation, and of a pass through it, always holds.
THEOREM Invariant == Spec => []IInv
BY InitInv, NextInv, PTL DEF Spec

LEMMA TypeHolds == IInv => TypeOK
<1> SUFFICES ASSUME IInv PROVE TypeOK
  OBVIOUS
<1>1. \A r \in Repos : ~Idle(r) => job[r] \in Job
  BY DEF IInv, Typed, Idle
<1> QED BY <1>1 DEF IInv, Typed, JobOK, Job, Turns, TypeOK

\* The state keeps its shape: a watermark stands within the bound of a transcript, and only a
\* tracker that runs goes through another's conversation.
THEOREM TypeCorrect == Spec => []TypeOK
BY Invariant, TypeHolds, PTL

\* What a home has left is none of its, unless a sub-agent has made it so since.
LEMMA LeftIsNotOurs ==
    ASSUME IInv, NEW c \in Convs, NEW i \in Ended(c), Left(c, i), <<c, i>> \notin outgrown
    PROVE  NotOurs(HomeOf[c], c, i)
<1>1. HomeOf[c] \in Repos
  BY RoutingAssumption
<1>2. i \in 1..mark[HomeOf[c]][c].past
  <2>1. i \in 1..Len(turns[c]) /\ mark[HomeOf[c]][c].past \in Nat
    BY <1>1 DEF Ended, IInv, Typed, Mark
  <2> QED BY <2>1, TurnsTyped DEF Left, IInv
<1>3. Behind(HomeOf[c], c)
  BY <1>1 DEF IInv
<1> QED BY <1>2, <1>3 DEF Behind, Halved, InCommits, Left

LEMMA OwnStay == IInv => OwnTurnsStay
BY LeftIsNotOurs DEF OwnTurnsStay, NotOurs

\* The turns that a home has gone past are in its commits if they edited it, or nothing: for
\* any repositories, conversations and turns, however often a turn went on after it looked
\* finished, however it ended and whoever was tracked meanwhile - but for what a sub-agent
\* edits once another turn has followed (_process_home, Router.home_filter).
THEOREM OwnTurns == Spec => []OwnTurnsStay
BY Invariant, OwnStay, PTL

LEMMA Claimed == IInv => HandedOverIsClaimed
<1> SUFFICES ASSUME IInv, NEW c \in Convs, NEW i \in Ended(c), Left(c, i),
                    NEW r \in turns[c][i].edits, <<c, i>> \notin outgrown
             PROVE  Misses(r, c, i) \/ InCommits(r, c, i) \/ i > mark[r][c].past
  BY DEF HandedOverIsClaimed
<1>1. i \in 1..Len(turns[c]) /\ i \in Nat /\ r \in Repos
  BY TurnsTyped DEF Ended, IInv, Turn
<1>2. mark[r][c].past \in Nat
  BY <1>1 DEF IInv, Typed, Mark
<1>3. r # HomeOf[c]
  BY LeftIsNotOurs DEF NotOurs
<1>4. CASE i <= mark[r][c].past
  <2>1. i \in 1..mark[r][c].past
    BY <1>1, <1>2, <1>4
  <2>2. <<c, i>> \in recorded[r] \cup skipped[r] \/ Halved(r, c, i) \/ NotOurs(r, c, i)
    BY <1>1, <2>1 DEF IInv, Behind
  <2> QED BY <1>3, <2>2 DEF NotOurs, Misses, Halved, InCommits
<1> QED BY <1>1, <1>2, <1>4

\* A turn that its home has left to others is, for each of them, recorded, or still before its
\* watermark, or one that it misses for a reason of its own (Router.foreign_filter,
\* record_elsewhere).
THEOREM HandedOver == Spec => []HandedOverIsClaimed
BY Invariant, Claimed, PTL

LEMMA Unseen == IInv => NothingLeftUnseen
BY DEF IInv, NothingLeft, NothingLeftUnseen

\* A conversation that a tracker will not look at again until it changes has no answer left for
\* it, whatever was written to it while the tracker went through it, whatever was deferred and
\* whatever was cancelled (candidates, record_elsewhere, finish_parse_if_ready).
THEOREM NothingUnseen == Spec => []NothingLeftUnseen
BY Invariant, Unseen, PTL
=============================================================================
