------------------------- MODULE TurnCaptureProofs -------------------------
(***************************************************************************)
(* For any conversations, clocks and budgets: the capture keeps its types, *)
(* nothing prompted while tracking was stopped reaches a commit, and no    *)
(* watermark goes back.  Under hypotheses that say where it is not so: no  *)
(* turn is counted twice.                                                  *)
(***************************************************************************)
EXTENDS TurnCapture, TLAPS, FiniteSetTheorems, SequenceTheorems, WellFoundedInduction

\* A row's second is a number, and later rows have no earlier second.
LEMMA SecondType ==
  ASSUME NEW r \in Nat PROVE Second(r) \in Nat
BY BoundsAssumption DEF Second

LEMMA SecondMonotone ==
  ASSUME NEW a \in Nat, NEW b \in Nat, a <= b PROVE Second(a) <= Second(b)
BY BoundsAssumption DEF Second

LEMMA FirstSecond ==
  ASSUME NEW a \in Nat, a >= RowsPerSecond PROVE Second(a) > 0
BY BoundsAssumption DEF Second

\* A number of positions of a sequence.
LEMMA CountBound ==
  ASSUME NEW n \in Nat, NEW S \in SUBSET (1..n)
  PROVE  IsFiniteSet(S) /\ Cardinality(S) \in 0..n
<1>1. IsFiniteSet(1..n) /\ Cardinality(1..n) = n
  BY FS_Interval
<1>2. IsFiniteSet(S) /\ Cardinality(S) <= Cardinality(1..n)
  BY <1>1, FS_Subset
<1> QED
  BY <1>1, <1>2, FS_CardinalityType

\* The rows of a turn: its prompt first, its newest last, and its id after the prompt. A turn
\* with text has an id.
RowsOf(t) ==
    /\ t.user <= t.last /\ t.said <= t.last
    /\ Replied(t) => t.user < t.said
    /\ t.final => Replied(t)

\* Turns one after the other, the newest row of none written after now.
TurnsBy(turns, now) ==
    /\ turns \in Seq(Turn)
    /\ \A i, j \in 1..Len(turns) : i < j => turns[i].last < turns[j].user
    /\ \A i \in 1..Len(turns) : RowsOf(turns[i]) /\ turns[i].last <= now

\* Any segment of such turns is again one.
LEMMA Segment ==
  ASSUME NEW turns \in Seq(Turn), NEW m \in Nat \ {0}, NEW n \in Nat, n <= Len(turns)
  PROVE  /\ SubSeq(turns, m, n) \in Seq(Turn)
         /\ \A now : TurnsBy(turns, now) => TurnsBy(SubSeq(turns, m, n), now)
<1> DEFINE s == SubSeq(turns, m, n)
<1>1. \A i \in m..n : turns[i] \in Turn
  BY ElementOfSeq
<1>2. /\ s \in Seq(Turn)
      /\ Len(s) = IF m <= n THEN n - m + 1 ELSE 0
      /\ \A i \in 1..(n - m + 1) : s[i] = turns[m + i - 1]
  BY <1>1, SubSeqProperties
<1>3. Len(turns) \in Nat
  BY LenProperties
<1> QED
  BY <1>2, <1>3 DEF TurnsBy

\* Rows are numbers.
LEMMA TurnRows ==
  ASSUME NEW t \in Turn PROVE t.user \in Nat /\ t.said \in Nat /\ t.last \in Nat
BY BoundsAssumption DEF Turn, Rows

LEMMA Users ==
  ASSUME NEW turns \in Seq(Turn)
  PROVE  \A i \in 1..Len(turns) :
             turns[i].user \in Nat /\ turns[i].said \in Nat /\ turns[i].last \in Nat
<1>1. \A i \in 1..Len(turns) : turns[i] \in Turn
  BY ElementOfSeq
<1> QED
  BY <1>1, TurnRows

\* Prompts of such turns are in order, and none is after now.
LEMMA UsersInOrder ==
  ASSUME NEW turns, NEW now \in Nat, TurnsBy(turns, now)
  PROVE  /\ \A i \in 1..Len(turns) : turns[i].user <= now
         /\ \A i, j \in 1..Len(turns) : i < j => turns[i].user < turns[j].user
<1>1. \A i \in 1..Len(turns) : turns[i].user \in Nat /\ turns[i].last \in Nat
  BY Users DEF TurnsBy
<1> QED
  BY <1>1 DEF TurnsBy, RowsOf

\* What is past stays past.
LEMMA StillPast ==
  ASSUME NEW turns \in Seq(Turn), NEW a \in Nat, NEW b \in Nat, a <= b, TurnsBy(turns, a)
  PROVE  TurnsBy(turns, b)
<1>1. \A i \in 1..Len(turns) : turns[i].last \in Nat
  BY Users
<1> QED
  BY <1>1 DEF TurnsBy

\* A new turn, a turn that goes on, and two turns made one keep such a sequence.
LEMMA AppendedTurn ==
  ASSUME NEW turns \in Seq(Turn), NEW t \in Turn, NEW now \in Nat
  PROVE  /\ Append(turns, t) \in Seq(Turn)
         /\ TurnsBy(turns, now) /\ t.user = now + 1 /\ RowsOf(t) /\ t.last = now + 1
                => TurnsBy(Append(turns, t), now + 1)
<1>1. Len(turns) \in Nat
  BY LenProperties
<1>2. /\ Append(turns, t) \in Seq(Turn)
      /\ Len(Append(turns, t)) = Len(turns) + 1
      /\ \A i \in 1..Len(turns) : Append(turns, t)[i] = turns[i]
      /\ Append(turns, t)[Len(turns) + 1] = t
  BY AppendProperties
<1>3. \A i \in 1..(Len(turns) + 1) :
        Append(turns, t)[i] = IF i <= Len(turns) THEN turns[i] ELSE t
  BY <1>1, <1>2
<1>4. ASSUME TurnsBy(turns, now), t.user = now + 1, RowsOf(t), t.last = now + 1
      PROVE  TurnsBy(Append(turns, t), now + 1)
  <2>1. \A i \in 1..Len(turns) : turns[i].user \in Nat /\ turns[i].last \in Nat
    BY Users
  <2>2. \A i \in 1..(Len(turns) + 1) :
          RowsOf(Append(turns, t)[i]) /\ Append(turns, t)[i].last <= now + 1
    BY <1>1, <1>3, <1>4, <2>1 DEF TurnsBy
  <2>3. \A i, j \in 1..(Len(turns) + 1) :
          i < j => Append(turns, t)[i].last < Append(turns, t)[j].user
    BY <1>1, <1>3, <1>4, <2>1 DEF TurnsBy
  <2> QED
    BY <1>2, <2>2, <2>3 DEF TurnsBy
<1> QED
  BY <1>2, <1>4

LEMMA UpdatedTurns ==
  ASSUME NEW turns \in Seq(Turn), NEW i \in 1..Len(turns), NEW t \in Turn,
         t.user = turns[i].user,
         NEW now \in Nat, NEW later \in Nat, now <= later,
         TurnsBy(turns, now) => RowsOf(t),
         t.last = turns[i].last \/ (i = Len(turns) /\ t.last = later)
  PROVE  /\ [turns EXCEPT ![i] = t] \in Seq(Turn)
         /\ TurnsBy(turns, now) => TurnsBy([turns EXCEPT ![i] = t], later)
<1> DEFINE u == [turns EXCEPT ![i] = t]
<1>1. u \in Seq(Turn) /\ Len(u) = Len(turns) /\ \A j \in 1..Len(turns) : u[j] = IF j = i THEN t ELSE turns[j]
  BY ExceptSeq
<1>2. Len(turns) \in Nat /\ \A j \in 1..Len(turns) : turns[j].user \in Nat /\ turns[j].last \in Nat
  BY LenProperties, Users
<1> HIDE DEF u
<1>3. ASSUME TurnsBy(turns, now) PROVE TurnsBy(u, later)
  <2>1. \A j \in 1..Len(turns) : RowsOf(u[j]) /\ u[j].last <= later /\ u[j].user = turns[j].user
    BY <1>1, <1>2, <1>3 DEF TurnsBy
  <2>2. \A j \in 1..Len(turns) : j < Len(turns) => u[j].last = turns[j].last
    BY <1>1, <1>2
  <2>3. ASSUME NEW j \in 1..Len(turns), NEW k \in 1..Len(turns), j < k
        PROVE  u[j].last < u[k].user
    <3>1. j < Len(turns) /\ turns[j].last < turns[k].user
      BY <1>2, <1>3, <2>3 DEF TurnsBy
    <3> QED
      BY <2>1, <2>2, <3>1
  <2> QED
    BY <1>1, <2>1, <2>3 DEF TurnsBy
<1> QED
  BY <1>1, <1>3 DEF u

LEMMA Joined ==
  ASSUME NEW a \in Seq(Turn), NEW t \in Turn, NEW b \in Seq(Turn)
  PROVE  /\ a \o <<t>> \o b \in Seq(Turn)
         /\ Len(a \o <<t>> \o b) = Len(a) + 1 + Len(b)
         /\ \A k \in 1..(Len(a) + 1 + Len(b)) :
                (a \o <<t>> \o b)[k] = IF k <= Len(a) THEN a[k]
                                       ELSE IF k = Len(a) + 1 THEN t ELSE b[k - Len(a) - 1]
<1>1. <<t>> \in Seq(Turn) /\ Len(<<t>>) = 1 /\ <<t>>[1] = t
  OBVIOUS
<1>2. Len(a) \in Nat /\ Len(b) \in Nat
  BY LenProperties
<1> DEFINE x == a \o <<t>>
<1>3. /\ x \in Seq(Turn) /\ Len(x) = Len(a) + 1
      /\ \A k \in 1..(Len(a) + 1) : x[k] = IF k <= Len(a) THEN a[k] ELSE t
  BY <1>1, <1>2, ConcatProperties
<1> HIDE DEF x
<1>4. /\ x \o b \in Seq(Turn) /\ Len(x \o b) = Len(x) + Len(b)
      /\ \A k \in 1..(Len(x) + Len(b)) :
             (x \o b)[k] = IF k <= Len(x) THEN x[k] ELSE b[k - Len(x)]
  BY <1>3, ConcatProperties
<1>5. \A k \in 1..(Len(a) + 1 + Len(b)) :
        (x \o b)[k] = IF k <= Len(a) THEN a[k]
                      ELSE IF k = Len(a) + 1 THEN t ELSE b[k - Len(a) - 1]
  BY <1>2, <1>3, <1>4
<1>6. x \o b \in Seq(Turn) /\ Len(x \o b) = Len(a) + 1 + Len(b)
  BY <1>3, <1>4
<1> QED
  BY <1>5, <1>6 DEF x

LEMMA MergedTurns ==
  ASSUME NEW turns \in Seq(Turn), NEW i \in 1..(Len(turns) - 1), NEW t \in Turn,
         t.user = turns[i].user, t.last = turns[i + 1].last,
         RowsOf(turns[i]) /\ RowsOf(turns[i + 1]) /\ turns[i].last < turns[i + 1].user => RowsOf(t)
  PROVE  LET u == SubSeq(turns, 1, i - 1) \o <<t>> \o SubSeq(turns, i + 2, Len(turns))
         IN  /\ u \in Seq(Turn) /\ Len(u) = Len(turns) - 1
             /\ \A k \in 1..(Len(turns) - 1) :
                    u[k] = IF k < i THEN turns[k] ELSE IF k = i THEN t ELSE turns[k + 1]
             /\ \A now : TurnsBy(turns, now) => TurnsBy(u, now)
<1> DEFINE n == Len(turns)
           a == SubSeq(turns, 1, i - 1)
           b == SubSeq(turns, i + 2, n)
           u == a \o <<t>> \o b
<1>1. n \in Nat
  BY LenProperties
<1>2. \A k \in 1..n : turns[k] \in Turn
  BY ElementOfSeq
<1>3. a \in Seq(Turn) /\ Len(a) = i - 1 /\ \A k \in 1..(i - 1) : a[k] = turns[k]
  BY <1>1, <1>2, SubSeqProperties
<1>4. b \in Seq(Turn) /\ Len(b) = n - i - 1 /\ \A k \in 1..(n - i - 1) : b[k] = turns[i + 1 + k]
  <2>1. i + 2 \in Int /\ n \in Int /\ \A k \in (i + 2)..n : turns[k] \in Turn
    BY <1>1, <1>2
  <2>2. /\ b \in Seq(Turn)
        /\ Len(b) = IF i + 2 <= n THEN n - (i + 2) + 1 ELSE 0
        /\ \A k \in 1..(n - (i + 2) + 1) : b[k] = turns[i + 2 + k - 1]
    BY <2>1, SubSeqProperties
  <2>3. i \in Nat /\ i + 1 <= n /\ n - (i + 2) + 1 = n - i - 1
    BY <1>1
  <2> HIDE DEF b, n
  <2>4. Len(b) = n - i - 1
    <3>1. CASE i + 2 <= n
      BY <2>2, <2>3, <3>1
    <3>2. CASE i + 1 = n
      <4>1. ~(i + 2 <= n) /\ n - i - 1 = 0
        BY <2>3, <3>2
      <4> QED
        BY <2>2, <4>1
    <3> QED
      BY <1>1, <2>3, <3>1, <3>2
  <2>5. \A k \in 1..(n - i - 1) : i + 2 + k - 1 = i + 1 + k
    BY <1>1, <2>3
  <2>6. \A k \in 1..(n - i - 1) : b[k] = turns[i + 1 + k]
    BY <2>2, <2>3, <2>5
  <2> QED
    BY <2>2, <2>4, <2>6
<1> HIDE DEF a, b
<1>5. /\ u \in Seq(Turn) /\ Len(u) = Len(a) + 1 + Len(b)
      /\ \A k \in 1..(Len(a) + 1 + Len(b)) :
             u[k] = IF k <= Len(a) THEN a[k]
                    ELSE IF k = Len(a) + 1 THEN t ELSE b[k - Len(a) - 1]
  <2>1. a \in Seq(Turn) /\ b \in Seq(Turn)
    BY <1>3, <1>4
  <2> QED
    BY <2>1, Joined
<1> HIDE DEF u
<1>6. Len(u) = n - 1
  BY <1>1, <1>3, <1>4, <1>5
<1>7. \A k \in 1..(n - 1) :
        u[k] = IF k < i THEN turns[k] ELSE IF k = i THEN t ELSE turns[k + 1]
  <2> SUFFICES ASSUME NEW k \in 1..(n - 1)
               PROVE  u[k] = IF k < i THEN turns[k] ELSE IF k = i THEN t ELSE turns[k + 1]
    OBVIOUS
  <2>1. u[k] = IF k <= i - 1 THEN turns[k] ELSE IF k = i THEN t ELSE b[k - i]
    BY <1>1, <1>3, <1>4, <1>5
  <2>2. k > i => k - i \in 1..(n - i - 1) /\ i + 1 + (k - i) = k + 1
    BY <1>1
  <2>3. k > i => b[k - i] = turns[k + 1]
    BY <1>4, <2>2
  <2> QED
    BY <1>1, <2>1, <2>3
<1>8. \A now : TurnsBy(turns, now) => TurnsBy(u, now)
  <2> SUFFICES ASSUME NEW now, TurnsBy(turns, now) PROVE TurnsBy(u, now)
    OBVIOUS
  <2> DEFINE first(k) == IF k <= i THEN k ELSE k + 1
             last(k) == IF k < i THEN k ELSE k + 1
  <2>1. \A k \in 1..(n - 1) : first(k) \in 1..n /\ last(k) \in 1..n
    BY <1>1
  <2>2. \A k \in 1..(n - 1) : u[k].user = turns[first(k)].user /\ u[k].last = turns[last(k)].last
    BY <1>1, <1>7
  <2>3. \A j, k \in 1..(n - 1) : j < k => last(j) < first(k)
    BY <1>1
  <2>4. RowsOf(t)
    <3>1. i \in 1..n /\ i + 1 \in 1..n /\ i < i + 1
      BY <1>1
    <3> QED
      BY <3>1 DEF TurnsBy
  <2>5. \A k \in 1..(n - 1) : RowsOf(u[k])
    BY <1>1, <1>7, <2>4 DEF TurnsBy
  <2> HIDE DEF first, last
  <2>6. \A j, k \in 1..(n - 1) : j < k => u[j].last < u[k].user
    BY <2>1, <2>2, <2>3 DEF TurnsBy
  <2>7. \A k \in 1..(n - 1) : u[k].last <= now
    BY <2>1, <2>2 DEF TurnsBy
  <2> QED
    BY <1>5, <1>6, <2>5, <2>6, <2>7 DEF TurnsBy
<1> QED
  BY <1>5, <1>6, <1>7, <1>8 DEF a, b, u

\* A set of the first n positions with the first k of them has k at least.
LEMMA PrefixCount ==
  ASSUME NEW n \in Nat, NEW S \in SUBSET (1..n), NEW k \in 1..n, 1..k \subseteq S
  PROVE  k <= Cardinality(S)
<1>1. IsFiniteSet(S) /\ Cardinality(S) \in Nat
  BY CountBound
<1>2. Cardinality(1..k) <= Cardinality(S)
  BY <1>1, FS_Subset
<1>3. Cardinality(1..k) = k
  BY FS_Interval
<1> QED
  BY <1>2, <1>3

\* What is exported past a watermark is a segment of the conversation.
LEMMA ExportIsSegment ==
  ASSUME NEW turns \in Seq(Turn), NEW mark, NEW at
  PROVE  \E m \in Nat \ {0} : TurnsAfter(turns, mark, at) = SubSeq(turns, m, Len(turns))
<1> DEFINE marked == {i \in DOMAIN turns : mark \in {turns[i].user, turns[i].said}}
           i == CHOOSE k \in marked : TRUE
           older == {k \in DOMAIN turns : Began(turns[k]) <= at}
<1>1. Len(turns) \in Nat /\ DOMAIN turns = 1..Len(turns)
  BY LenProperties
<1>2. Cardinality(older) \in Nat
  <2>1. older \in SUBSET (1..Len(turns))
    BY <1>1
  <2> QED
    BY <1>1, <2>1, CountBound
<1>3. marked # {} => i \in 1..Len(turns)
  BY <1>1
<1>4. turns = SubSeq(turns, 1, Len(turns))
  BY SubSeqFull
<1>5. CASE mark = 0
  BY <1>4, <1>5 DEF TurnsAfter
<1>6. CASE mark # 0 /\ marked = {}
  <2>1. TurnsAfter(turns, mark, at) = SubSeq(turns, Cardinality(older) + 1, Len(turns))
    BY <1>6 DEF TurnsAfter
  <2>2. Cardinality(older) + 1 \in Nat \ {0}
    BY <1>2
  <2> QED
    BY <2>1, <2>2
<1>7. CASE mark # 0 /\ marked # {}
  <2>1. \/ TurnsAfter(turns, mark, at) = SubSeq(turns, i, Len(turns))
        \/ TurnsAfter(turns, mark, at) = SubSeq(turns, i + 1, Len(turns))
    BY <1>7 DEF TurnsAfter
  <2>2. i \in Nat \ {0} /\ i + 1 \in Nat \ {0}
    BY <1>1, <1>3, <1>7
  <2> QED
    BY <2>1, <2>2
<1> QED
  BY <1>5, <1>6, <1>7

\* Trimming takes a segment.
LEMMA TrimIsSegment ==
  ASSUME NEW turns \in Seq(Turn)
  PROVE  \E n \in 0..Len(turns) : Trimmed(turns) = SubSeq(turns, 1, n)
<1> DEFINE S == {i \in DOMAIN turns : \E j \in i..Len(turns) : turns[j].final}
           k == Cardinality(S)
<1>1. Len(turns) \in Nat /\ DOMAIN turns = 1..Len(turns)
  BY LenProperties
<1>2. k \in 0..Len(turns)
  <2>1. S \in SUBSET (1..Len(turns))
    BY <1>1
  <2> QED
    BY <1>1, <2>1, CountBound
<1>3. turns # <<>> => 1 \in 0..Len(turns)
  BY <1>1, EmptySeq
<1>4. Trimmed(turns) = SubSeq(turns, 1, IF k = 0 /\ turns # <<>> THEN 1 ELSE k)
  BY DEF Trimmed
<1> QED
  BY <1>2, <1>3, <1>4

\* A stop record splits turns into two segments.
LEMMA SplitIsSegments ==
  ASSUME NEW turns \in Seq(Turn)
  PROVE  /\ UntrackedCount(turns) \in 0..Len(turns)
         /\ UntrackedTurns(turns) \in Seq(Turn)
         /\ TrackedTurns(turns) \in Seq(Turn)
         /\ \A now : TurnsBy(turns, now) => TurnsBy(TrackedTurns(turns), now)
<1> DEFINE S == {i \in DOMAIN turns : BeforeFloor(turns[i])}
<1>1. Len(turns) \in Nat /\ DOMAIN turns = 1..Len(turns)
  BY LenProperties
<1>2. S \in SUBSET (1..Len(turns))
  BY <1>1
<1>3. UntrackedCount(turns) \in 0..Len(turns)
  BY <1>1, <1>2, CountBound DEF UntrackedCount
<1>4. UntrackedCount(turns) \in Nat /\ UntrackedCount(turns) <= Len(turns)
      /\ UntrackedCount(turns) + 1 \in Nat \ {0}
  BY <1>1, <1>3
<1> QED
  BY <1>1, <1>3, <1>4, Segment DEF UntrackedTurns, TrackedTurns

\* The tracked turns are those after the last untracked one.
LEMMA SplitPositions ==
  ASSUME NEW turns \in Seq(Turn)
  PROVE  LET count == UntrackedCount(turns)
         IN  /\ Len(TrackedTurns(turns)) = Len(turns) - count
             /\ \A i \in 1..Len(TrackedTurns(turns)) : TrackedTurns(turns)[i] = turns[count + i]
             /\ Len(UntrackedTurns(turns)) = count
             /\ UntrackedTurns(turns) # <<>> => count > 0 /\ Last(UntrackedTurns(turns)) = turns[count]
<1> DEFINE count == UntrackedCount(turns)
           n == Len(turns)
<1>1. n \in Nat /\ count \in 0..n /\ \A k \in 1..n : turns[k] \in Turn
  BY LenProperties, ElementOfSeq, SplitIsSegments
<1>2. count + 1 \in Int /\ n \in Int /\ \A k \in (count + 1)..n : turns[k] \in Turn
  BY <1>1
<1>3. /\ Len(TrackedTurns(turns)) = IF count + 1 <= n THEN n - (count + 1) + 1 ELSE 0
      /\ \A k \in 1..(n - (count + 1) + 1) : TrackedTurns(turns)[k] = turns[count + 1 + k - 1]
  BY <1>2, SubSeqProperties DEF TrackedTurns
<1>4. 1 \in Int /\ count \in Int /\ \A k \in 1..count : turns[k] \in Turn
  BY <1>1
<1>5. /\ Len(UntrackedTurns(turns)) = IF 1 <= count THEN count - 1 + 1 ELSE 0
      /\ \A k \in 1..(count - 1 + 1) : UntrackedTurns(turns)[k] = turns[1 + k - 1]
  BY <1>4, SubSeqProperties DEF UntrackedTurns
<1> HIDE DEF count, n
<1>6. Len(TrackedTurns(turns)) = n - count /\ Len(UntrackedTurns(turns)) = count
  BY <1>1, <1>3, <1>5
<1>7. \A k \in 1..(n - count) : TrackedTurns(turns)[k] = turns[count + k]
  BY <1>1, <1>3
<1>8. UntrackedTurns(turns) # <<>> => count > 0
  BY <1>1, <1>6, SplitIsSegments, EmptySeq
<1>9. count > 0 => UntrackedTurns(turns)[count] = turns[count]
  BY <1>1, <1>5
<1> QED
  BY <1>6, <1>7, <1>8, <1>9 DEF Last, count, n

\* The last of some turns is a turn.
LEMMA LastTurn ==
  ASSUME NEW turns \in Seq(Turn), turns # <<>>
  PROVE  Last(turns) \in Turn /\ Len(turns) \in 1..Len(turns)
<1>1. Len(turns) \in Nat \ {0}
  BY EmptySeq
<1> QED
  BY <1>1, ElementOfSeq DEF Last

\* A turn some of whose fields are replaced by values of their types.
LEMMA UpdatedTurn ==
  ASSUME NEW t \in Turn, NEW said \in 0..MaxClock, NEW last \in Rows, NEW spent \in Nat,
         NEW final \in BOOLEAN, NEW state \in {"running", "done", "interrupted"}
  PROVE  [t EXCEPT !.last = last, !.spent = spent, !.final = final, !.said = said,
                   !.state = state] \in Turn
BY DEF Turn

LEMMA MergedTurn ==
  ASSUME NEW t \in Turn, NEW user \in Rows, NEW said \in 0..MaxClock, NEW spent \in Nat,
         NEW final \in BOOLEAN, NEW helper \in BOOLEAN
  PROVE  [t EXCEPT !.user = user, !.said = said, !.final = final, !.spent = spent,
                   !.helper = helper] \in Turn
BY DEF Turn

\* The three ways a conversation changes: a prompt begins a turn; a turn goes on, the last one
\* unless it is by its sub-agent; a compaction makes one turn of two.
Begins(turns, u, later) ==
    \E t \in Turn :
        /\ Len(u) = Len(turns) + 1 /\ u[Len(turns) + 1] = t
        /\ \A k \in 1..Len(turns) : u[k] = turns[k]
        /\ t.user = later /\ t.last = later /\ later = clock + 1 /\ ~t.final /\ ~t.helper
        /\ \A k \in 1..Len(turns) : Finished(turns[k])

Continues(turns, i, t, later) ==
    /\ t.user = turns[i].user /\ turns[i].spent <= t.spent
    /\ turns[i].final => t.final
    /\ turns[i].helper \/ (i = Len(turns) /\ ~Finished(turns[i]))
    /\ t.helper => turns[i].helper \/ budget["helpers"] > 0
    /\ \/ t.last = turns[i].last /\ (turns[i].helper \/ t.spent = turns[i].spent)
       \/ i = Len(turns) /\ t.last = later /\ later > clock

GoesOn(turns, u, later) ==
    \E i \in 1..Len(turns) : \E t \in Turn :
        /\ Len(u) = Len(turns)
        /\ \A k \in 1..Len(turns) : u[k] = IF k = i THEN t ELSE turns[k]
        /\ Continues(turns, i, t, later)

BecomeOne(turns, u) ==
    \E i \in 1..(Len(turns) - 1) : \E t \in Turn :
        /\ Len(u) = Len(turns) - 1
        /\ \A k \in 1..(Len(turns) - 1) :
               u[k] = IF k < i THEN turns[k] ELSE IF k = i THEN t ELSE turns[k + 1]
        /\ t.user = turns[i].user /\ t.last = turns[i + 1].last
        /\ t.spent = turns[i].spent + turns[i + 1].spent
        /\ budget["merges"] > 0

Becomes(turns, u, later) == Begins(turns, u, later) \/ GoesOn(turns, u, later) \/ BecomeOne(turns, u)

\* An agent's step replaces one conversation in one of these ways, keeping its turns in order.
LEMMA AgentStep ==
  ASSUME TypeOK, NEW c \in Convs, Agent(c)
  PROVE  /\ clock' \in {clock, clock + 1} /\ clock' \in 1..MaxClock
         /\ \E u \in Seq(Turn) :
                /\ transcript' = [transcript EXCEPT ![c] = u]
                /\ Becomes(transcript[c], u, clock')
                /\ TurnsBy(transcript[c], clock) => TurnsBy(u, clock')
<1> DEFINE turns == transcript[c]
           n == Len(turns)
           Goal == /\ clock' \in {clock, clock + 1} /\ clock' \in 1..MaxClock
                   /\ \E u \in Seq(Turn) :
                          /\ transcript' = [transcript EXCEPT ![c] = u]
                          /\ Becomes(turns, u, clock')
                          /\ TurnsBy(turns, clock) => TurnsBy(u, clock')
<1>1. clock \in 1..MaxClock /\ clock \in Nat /\ MaxClock \in Nat
  BY BoundsAssumption DEF TypeOK
<1>2. turns \in Seq(Turn) /\ n \in Nat /\ DOMAIN turns = 1..n /\ \A i \in 1..n : turns[i] \in Turn
  BY LenProperties, ElementOfSeq DEF TypeOK
<1>3. turns # <<>> => n \in 1..n /\ Last(turns) = turns[n]
  BY <1>2, LastTurn DEF Last
<1>4. ASSUME NEW i \in 1..n, NEW t \in Turn, Continues(turns, i, t, clock'),
             TurnsBy(turns, clock) => RowsOf(t),
             clock' \in {clock, clock + 1}, clock' \in 1..MaxClock,
             transcript' = [transcript EXCEPT ![c] = [turns EXCEPT ![i] = t]]
      PROVE  Goal
  <2> DEFINE u == [turns EXCEPT ![i] = t]
  <2>1. clock' \in Nat /\ clock <= clock'
    BY <1>1, <1>4
  <2>2. u \in Seq(Turn) /\ (TurnsBy(turns, clock) => TurnsBy(u, clock'))
    BY <1>1, <1>2, <1>4, <2>1, UpdatedTurns DEF Continues
  <2> HIDE DEF u
  <2>3. transcript' = [transcript EXCEPT ![c] = u]
    BY <1>4 DEF u
  <2>4. Len(u) = n /\ \A k \in 1..n : u[k] = IF k = i THEN t ELSE turns[k]
    BY <1>2, <1>4, ExceptSeq DEF u
  <2>5. GoesOn(turns, u, clock')
    BY <1>4, <2>4 DEF GoesOn
  <2> QED
    BY <1>4, <2>2, <2>3, <2>5 DEF Becomes
<1>5. CASE Prompt(c)
  <2> DEFINE t == [user |-> clock', said |-> 0, last |-> clock', spent |-> 0, final |-> FALSE,
                   state |-> "running", helper |-> FALSE]
  <2>1. clock' = clock + 1 /\ clock' \in 1..MaxClock
    BY <1>1, <1>5 DEF Prompt, Tick
  <2>2. t \in Turn /\ t.user = clock + 1 /\ t.last = clock + 1 /\ RowsOf(t)
    BY <1>1, <2>1 DEF Turn, Rows, RowsOf, Replied
  <2>3. transcript' = [transcript EXCEPT ![c] = Append(turns, t)]
    BY <1>5 DEF Prompt
  <2>5. ~t.final /\ ~t.helper /\ \A k \in 1..n : Finished(turns[k])
    BY <1>2, <1>5 DEF Prompt
  <2> HIDE DEF t
  <2>4. Append(turns, t) \in Seq(Turn)
        /\ (TurnsBy(turns, clock) => TurnsBy(Append(turns, t), clock'))
    BY <1>1, <1>2, <2>1, <2>2, AppendedTurn
  <2>6. /\ Len(Append(turns, t)) = n + 1 /\ Append(turns, t)[n + 1] = t
        /\ \A k \in 1..n : Append(turns, t)[k] = turns[k]
    BY <1>2, <2>2, AppendProperties
  <2>7. Begins(turns, Append(turns, t), clock')
    BY <1>1, <2>1, <2>2, <2>5, <2>6 DEF Begins
  <2> QED
    BY <2>1, <2>3, <2>4, <2>7 DEF Becomes
<1>6. ASSUME NEW text \in BOOLEAN, NEW over \in BOOLEAN, Reply(c, text, over) PROVE Goal
  <2> DEFINE t == [turns[n] EXCEPT !.last = clock', !.spent = @ + 1, !.final = @ \/ text,
                        !.said = IF text \/ c \in EveryMessageIds THEN clock' ELSE @,
                        !.state = IF over THEN "done" ELSE "running"]
  <2>1. clock' = clock + 1 /\ clock' \in 1..MaxClock
    BY <1>1, <1>6 DEF Reply, Tick
  <2>2. n \in 1..n /\ turns[n] \in Turn
    BY <1>2, <1>3, <1>6 DEF Reply
  <2>3. t \in Turn /\ t.user = turns[n].user
    <3> DEFINE spent == turns[n].spent + 1
               final == turns[n].final \/ text
               said == IF text \/ c \in EveryMessageIds THEN clock' ELSE turns[n].said
               state == IF over THEN "done" ELSE "running"
    <3>1. spent \in Nat /\ said \in 0..MaxClock /\ clock' \in Rows
      BY <1>1, <2>1, <2>2 DEF Turn, Rows
    <3>2. final \in BOOLEAN /\ state \in {"running", "done", "interrupted"}
      OBVIOUS
    <3> HIDE DEF spent, final, said, state
    <3> DEFINE v == [turns[n] EXCEPT !.last = clock', !.spent = spent, !.final = final,
                                     !.said = said, !.state = state]
    <3>3. v \in Turn
      BY <2>2, <3>1, <3>2, UpdatedTurn
    <3>4. v.user = turns[n].user
      BY <2>2 DEF Turn
    <3> QED
      BY <3>3, <3>4 DEF spent, final, said, state
  <2>5. /\ t.last = clock' /\ t.said \in {turns[n].said, clock'}
        /\ t.final => turns[n].final \/ t.said = clock'
        /\ turns[n].final => t.final
        /\ t.helper = turns[n].helper /\ t.spent = turns[n].spent + 1 /\ turns[n].spent \in Nat
    BY <2>2 DEF Turn
  <2>7. ~Finished(turns[n])
    BY <1>6 DEF Reply
  <2>6. ASSUME TurnsBy(turns, clock) PROVE RowsOf(t)
    <3>1. RowsOf(turns[n]) /\ turns[n].last <= clock
      BY <2>2, <2>6 DEF TurnsBy
    <3>2. turns[n].user \in Nat /\ turns[n].said \in Nat /\ turns[n].last \in Nat
      BY <2>2, TurnRows
    <3> QED
      BY <1>1, <2>1, <2>3, <2>5, <3>1, <3>2 DEF RowsOf, Replied
  <2>4. transcript' = [transcript EXCEPT ![c] = [turns EXCEPT ![n] = t]]
    BY <1>6 DEF Reply
  <2> HIDE DEF t
  <2>8. Continues(turns, n, t, clock')
    BY <1>1, <2>1, <2>3, <2>5, <2>7 DEF Continues
  <2> QED
    BY <1>1, <1>4, <2>1, <2>2, <2>3, <2>4, <2>6, <2>8
<1>7. CASE Interrupt(c)
  <2> DEFINE t == [turns[n] EXCEPT !.state = "interrupted"]
  <2>1. /\ n \in 1..n /\ t \in Turn
        /\ t.user = turns[n].user /\ t.last = turns[n].last /\ t.said = turns[n].said
        /\ t.spent = turns[n].spent /\ t.final = turns[n].final /\ t.helper = turns[n].helper
        /\ turns[n].spent \in Nat /\ ~Finished(turns[n])
    BY <1>2, <1>3, <1>7 DEF Interrupt, Turn
  <2>3. TurnsBy(turns, clock) => RowsOf(t)
    BY <2>1 DEF TurnsBy, RowsOf, Replied
  <2>2. clock' = clock /\ transcript' = [transcript EXCEPT ![c] = [turns EXCEPT ![n] = t]]
    BY <1>7 DEF Interrupt
  <2> HIDE DEF t
  <2>4. Continues(turns, n, t, clock')
    BY <2>1 DEF Continues
  <2> QED
    BY <1>1, <1>4, <2>1, <2>2, <2>3, <2>4
<1>8. CASE Delegate(c)
  <2> DEFINE t == [turns[n] EXCEPT !.helper = TRUE]
  <2>1. /\ n \in 1..n /\ t \in Turn
        /\ t.user = turns[n].user /\ t.last = turns[n].last /\ t.said = turns[n].said
        /\ t.spent = turns[n].spent /\ t.final = turns[n].final
        /\ turns[n].spent \in Nat /\ ~Finished(turns[n]) /\ budget["helpers"] > 0
    BY <1>2, <1>3, <1>8 DEF Delegate, Spend, Turn
  <2>3. TurnsBy(turns, clock) => RowsOf(t)
    BY <2>1 DEF TurnsBy, RowsOf, Replied
  <2>2. clock' = clock /\ transcript' = [transcript EXCEPT ![c] = [turns EXCEPT ![n] = t]]
    BY <1>8 DEF Delegate
  <2> HIDE DEF t
  <2>4. Continues(turns, n, t, clock')
    BY <2>1 DEF Continues
  <2> QED
    BY <1>1, <1>4, <2>1, <2>2, <2>3, <2>4
<1>9. CASE HelperReports(c)
  <2>1. PICK i \in 1..n :
          /\ turns[i].helper
          /\ transcript' = [transcript EXCEPT ![c][i].helper = FALSE, ![c][i].spent = @ + 1]
    BY <1>2, <1>9 DEF HelperReports
  <2> DEFINE t == [turns[i] EXCEPT !.helper = FALSE, !.spent = @ + 1]
  <2>2. /\ t \in Turn
        /\ t.user = turns[i].user /\ t.last = turns[i].last /\ t.said = turns[i].said
        /\ t.final = turns[i].final /\ t.spent = turns[i].spent + 1 /\ turns[i].spent \in Nat
    <3>1. turns[i] \in Turn /\ turns[i].spent + 1 \in Nat /\ turns[i].spent \in Nat
      BY <1>2 DEF Turn
    <3>2. \A u \in Turn : \A k \in Nat :
            /\ [u EXCEPT !.helper = FALSE, !.spent = k] \in Turn
            /\ [u EXCEPT !.helper = FALSE, !.spent = k].user = u.user
            /\ [u EXCEPT !.helper = FALSE, !.spent = k].last = u.last
            /\ [u EXCEPT !.helper = FALSE, !.spent = k].said = u.said
            /\ [u EXCEPT !.helper = FALSE, !.spent = k].final = u.final
            /\ [u EXCEPT !.helper = FALSE, !.spent = k].spent = k
      BY DEF Turn
    <3> QED
      BY <3>1, <3>2
  <2>3. clock' = clock
    BY <1>9 DEF HelperReports
  <2>4. transcript' = [transcript EXCEPT ![c] = [turns EXCEPT ![i] = t]]
    BY <1>2, <2>1 DEF TypeOK, Turn
  <2>5. TurnsBy(turns, clock) => RowsOf(t)
    BY <2>2 DEF TurnsBy, RowsOf, Replied
  <2>6. ~t.helper
    BY <1>2 DEF Turn
  <2> HIDE DEF t
  <2>7. Continues(turns, i, t, clock')
    BY <2>1, <2>2, <2>6 DEF Continues
  <2> QED
    BY <1>1, <1>4, <2>2, <2>3, <2>4, <2>5, <2>7
<1>10. CASE Compact(c)
  <2> DEFINE merged(i) ==
        LET a == turns[i]
            b == turns[i + 1]
        IN [b EXCEPT !.user = a.user, !.said = IF Replied(b) THEN @ ELSE a.said,
                     !.final = a.final \/ b.final, !.spent = a.spent + b.spent,
                     !.helper = a.helper \/ b.helper]
  <2>1. PICK i \in 1..(n - 1) :
          /\ transcript' = [transcript EXCEPT ![c] =
                 SubSeq(turns, 1, i - 1) \o <<merged(i)>> \o SubSeq(turns, i + 2, n)]
          /\ budget["merges"] > 0
    BY <1>10 DEF Compact, Spend
  <2>2. turns[i] \in Turn /\ turns[i + 1] \in Turn
    BY <1>2
  <2>3. /\ merged(i) \in Turn
        /\ merged(i).user = turns[i].user /\ merged(i).last = turns[i + 1].last
        /\ merged(i).said = IF Replied(turns[i + 1]) THEN turns[i + 1].said ELSE turns[i].said
        /\ merged(i).final = (turns[i].final \/ turns[i + 1].final)
        /\ merged(i).spent = turns[i].spent + turns[i + 1].spent
    <3> DEFINE a == turns[i]
               b == turns[i + 1]
               said == IF Replied(b) THEN b.said ELSE a.said
               final == a.final \/ b.final
               spent == a.spent + b.spent
               helper == a.helper \/ b.helper
    <3>1. a.user \in Rows /\ said \in 0..MaxClock /\ spent \in Nat
      BY <2>2 DEF Turn
    <3>2. final \in BOOLEAN /\ helper \in BOOLEAN
      OBVIOUS
    <3> HIDE DEF spent, final, said, helper
    <3> DEFINE v == [b EXCEPT !.user = a.user, !.said = said, !.final = final, !.spent = spent,
                              !.helper = helper]
    <3>3. v \in Turn
      BY <2>2, <3>1, <3>2, MergedTurn
    <3>4. v.user = a.user /\ v.last = b.last /\ v.said = said /\ v.final = final /\ v.spent = spent
      BY <2>2 DEF Turn
    <3> QED
      BY <3>3, <3>4 DEF spent, final, said, helper
  <2> HIDE DEF merged
  <2>7. RowsOf(turns[i]) /\ RowsOf(turns[i + 1]) /\ turns[i].last < turns[i + 1].user
            => RowsOf(merged(i))
    <3>1. /\ turns[i].user \in Nat /\ turns[i].said \in Nat /\ turns[i].last \in Nat
          /\ turns[i + 1].user \in Nat /\ turns[i + 1].said \in Nat /\ turns[i + 1].last \in Nat
      BY <2>2, TurnRows
    <3>2. /\ merged(i).user = turns[i].user /\ merged(i).last = turns[i + 1].last
          /\ merged(i).said = IF Replied(turns[i + 1]) THEN turns[i + 1].said ELSE turns[i].said
      BY <2>3
    <3>3. merged(i).final => turns[i].final \/ turns[i + 1].final
      BY <2>3
    <3>4. ASSUME RowsOf(turns[i]), RowsOf(turns[i + 1]), turns[i].last < turns[i + 1].user
          PROVE  /\ merged(i).user <= merged(i).last /\ merged(i).said <= merged(i).last
                 /\ Replied(merged(i)) => merged(i).user < merged(i).said
                 /\ Replied(turns[i]) \/ Replied(turns[i + 1]) => Replied(merged(i))
      <4>1. /\ turns[i].user <= turns[i].last /\ turns[i].said <= turns[i].last
            /\ turns[i].said # 0 => turns[i].user < turns[i].said
            /\ turns[i + 1].user <= turns[i + 1].last /\ turns[i + 1].said <= turns[i + 1].last
            /\ turns[i + 1].said # 0 => turns[i + 1].user < turns[i + 1].said
        BY <3>4, Zenon DEF RowsOf, Replied
      <4>2. \/ turns[i + 1].said # 0 /\ merged(i).said = turns[i + 1].said
            \/ turns[i + 1].said = 0 /\ merged(i).said = turns[i].said
        BY <3>2 DEF Replied
      <4>3. turns[i].last < turns[i + 1].user
            /\ merged(i).user = turns[i].user /\ merged(i).last = turns[i + 1].last
        BY <3>2, <3>4
      <4>4. CASE turns[i + 1].said # 0
        BY <3>1, <4>1, <4>2, <4>3, <4>4 DEF Replied
      <4>5. CASE turns[i + 1].said = 0
        BY <3>1, <4>1, <4>2, <4>3, <4>5 DEF Replied
      <4> QED
        BY <4>4, <4>5
    <3> QED
      BY <3>3, <3>4, Zenon DEF RowsOf
  <2> DEFINE u == SubSeq(turns, 1, i - 1) \o <<merged(i)>> \o SubSeq(turns, i + 2, n)
  <2>4. /\ u \in Seq(Turn) /\ (TurnsBy(turns, clock) => TurnsBy(u, clock))
        /\ Len(u) = n - 1
        /\ \A k \in 1..(n - 1) :
               u[k] = IF k < i THEN turns[k] ELSE IF k = i THEN merged(i) ELSE turns[k + 1]
    BY <1>2, <2>3, <2>7, MergedTurns
  <2>5. clock' = clock
    BY <1>10 DEF Compact
  <2> HIDE DEF u
  <2>6. transcript' = [transcript EXCEPT ![c] = u]
    BY <2>1 DEF u
  <2>8. BecomeOne(turns, u)
    BY <2>1, <2>3, <2>4 DEF BecomeOne
  <2> QED
    BY <1>1, <2>4, <2>5, <2>6, <2>8 DEF Becomes
<1> QED
  BY <1>5, <1>6, <1>7, <1>8, <1>9, <1>10 DEF Agent

\* The second a turn began and ended in, and the mark past it.
LEMMA TurnTimes ==
  ASSUME NEW t \in Turn
  PROVE  /\ t.user \in Nat /\ t.last \in Nat /\ t.spent \in Nat
         /\ Began(t) \in Nat /\ Ended(t) \in Nat
         /\ MarkPast(t) \in [id : 0..MaxClock, at : Nat]
<1>1. /\ t.user \in Nat /\ t.last \in Nat /\ t.spent \in Nat
      /\ t.user \in 0..MaxClock /\ t.said \in 0..MaxClock
  BY BoundsAssumption DEF Turn, Rows
<1>2. Began(t) \in Nat /\ Ended(t) \in Nat
  BY <1>1, SecondType DEF Began, Ended
<1> QED
  BY <1>1, <1>2 DEF MarkPast

\* What a turn adds to the pending usage is a number.
LEMMA OwedType ==
  ASSUME TypeOK, NEW c \in Convs, NEW t \in Turn PROVE Owed(c, t) \in Nat
<1>1. t.spent \in Nat /\ captured.spent \in Nat
  BY TurnTimes DEF TypeOK
<1> QED
  BY <1>1 DEF Owed

\* The clock is a number.
LEMMA ClockType == TypeOK => clock \in Nat
BY BoundsAssumption DEF TypeOK

\* A capture in progress has a conversation and turns.
LEMMA JobType ==
  ASSUME TypeOK, step # "idle"
  PROVE  /\ job.conv \in Convs /\ job.turns \in Seq(Turn) /\ job.mark \in 0..MaxClock
         /\ job.mode \in {"poll", "flush", "final"}
         /\ job \in [conv : Convs, mode : {"poll", "flush", "final"}, turns : Seq(Turn),
                     mark : 0..MaxClock]
BY DEF TypeOK

\* A capture past its choice has something to record.
CaptureHasTurns == step \notin {"idle", "parsed"} => job.turns # <<>>

\* The turns ChooseTurns looks at.
LEMMA ChosenTypes ==
  ASSUME TypeOK, step # "idle",
         NEW fresh, fresh = TurnsAfter(job.turns, job.mark, marks[job.conv].at)
  PROVE  /\ fresh \in Seq(Turn)
         /\ UntrackedTurns(fresh) \in Seq(Turn)
         /\ TrackedTurns(fresh) \in Seq(Turn)
         /\ Trimmed(TrackedTurns(fresh)) \in Seq(Turn)
         /\ \A now : TurnsBy(job.turns, now) =>
                TurnsBy(TrackedTurns(fresh), now) /\ TurnsBy(Trimmed(TrackedTurns(fresh)), now)
<1>1. \A turns \in Seq(Turn) : Len(turns) \in Nat
  BY LenProperties
<1>2. fresh \in Seq(Turn) /\ \A now : TurnsBy(job.turns, now) => TurnsBy(fresh, now)
  <2>1. job.turns \in Seq(Turn)
    BY JobType
  <2>2. PICK m \in Nat \ {0} : fresh = SubSeq(job.turns, m, Len(job.turns))
    BY <2>1, ExportIsSegment
  <2> QED
    BY <1>1, <2>1, <2>2, Segment
<1>3. /\ TrackedTurns(fresh) \in Seq(Turn) /\ UntrackedTurns(fresh) \in Seq(Turn)
      /\ \A now : TurnsBy(fresh, now) => TurnsBy(TrackedTurns(fresh), now)
  BY <1>2, SplitIsSegments
<1>4. PICK n \in 0..Len(TrackedTurns(fresh)) :
        Trimmed(TrackedTurns(fresh)) = SubSeq(TrackedTurns(fresh), 1, n)
  BY <1>3, TrimIsSegment
<1>5. n \in Nat /\ n <= Len(TrackedTurns(fresh)) /\ 1 \in Nat \ {0}
  BY <1>1, <1>3, <1>4
<1> QED
  BY <1>2, <1>3, <1>4, <1>5, Segment

\* Each step of a capture keeps the types.
LEMMA CaptureTypes ==
  ASSUME TypeOK, CaptureHasTurns, Capture \/ WriteFails PROVE TypeOK'
<1>1. CASE ChooseTurns
  <2> DEFINE c == job.conv
             fresh == TurnsAfter(job.turns, job.mark, marks[c].at)
             untracked == UntrackedTurns(fresh)
             tracked == TrackedTurns(fresh)
             batch == IF job.mode = "flush" THEN tracked ELSE Trimmed(tracked)
  <2>1. step # "idle"
    BY <1>1 DEF ChooseTurns
  <2>2. untracked \in Seq(Turn) /\ batch \in Seq(Turn)
    BY <2>1, ChosenTypes
  <2>3. marks' \in [Convs -> [id : 0..MaxClock, at : Nat]]
    <3>1. marks' = IF untracked = <<>> THEN marks
                   ELSE [marks EXCEPT ![c] = MarkPast(Last(untracked))]
      BY <1>1 DEF ChooseTurns
    <3>2. untracked # <<>> => MarkPast(Last(untracked)) \in [id : 0..MaxClock, at : Nat]
      BY <2>2, LastTurn, TurnTimes
    <3> QED
      BY <3>1, <3>2 DEF TypeOK
  <2>4. Done \/ (step' = "chosen" /\ job' = [job EXCEPT !.turns = batch])
    BY <1>1 DEF ChooseTurns
  <2>5. \/ step' = "idle" /\ job' = NoJob
        \/ /\ step' = "chosen"
           /\ job' \in [conv : Convs, mode : {"poll", "flush", "final"}, turns : Seq(Turn),
                        mark : 0..MaxClock]
    BY <2>1, <2>2, <2>4, JobType DEF Done
  <2>6. UNCHANGED <<clock, transcript, captured, pending, recorded, gapOpen, floor, stretches,
                    life, settled, budget>>
    BY <1>1 DEF ChooseTurns, agentVars, gapVars
  <2> QED
    BY <2>3, <2>5, <2>6 DEF TypeOK
<1>2. CASE CountTurns
  <2> DEFINE c == job.conv
             turns == TrackedTurns(job.turns)
             Of(r) == {i \in DOMAIN turns : turns[i].user = r}
             added == [r \in Rows |->
                        IF Of(r) = {} THEN pending[c][r]
                        ELSE pending[c][r] + Owed(c, turns[CHOOSE i \in Of(r) : TRUE])]
  <2>1. step # "idle" /\ c \in Convs /\ turns \in Seq(Turn)
    BY <1>2, JobType, SplitIsSegments DEF CountTurns
  <2>2. added \in [Rows -> Nat]
    <3> SUFFICES ASSUME NEW r \in Rows PROVE added[r] \in Nat
      OBVIOUS
    <3>1. pending[c][r] \in Nat
      BY <2>1 DEF TypeOK
    <3>2. \A i \in Of(r) : turns[i] \in Turn
      BY <2>1, LenProperties, ElementOfSeq
    <3>3. Of(r) # {} => Owed(c, turns[CHOOSE i \in Of(r) : TRUE]) \in Nat
      BY <2>1, <3>2, OwedType
    <3> QED
      BY <3>1, <3>3
  <2>3. UNCHANGED <<clock, transcript, marks, recorded, gapOpen, floor, stretches, life,
                    settled, budget>>
    BY <1>2 DEF CountTurns, agentVars, gapVars
  <2>4. CASE Done /\ UNCHANGED <<captured, pending>>
    BY <2>3, <2>4 DEF TypeOK, Done
  <2>5. CASE /\ pending' = [pending EXCEPT ![c] = added]
             /\ captured' = IF Of(captured.user) = {} THEN captured ELSE NoCapture
             /\ step' = "counted"
             /\ UNCHANGED job
    <3>1. pending' \in [Convs -> [Rows -> Nat]]
      BY <2>1, <2>2, <2>5 DEF TypeOK
    <3>2. captured' \in [user : 0..MaxClock, spent : Nat]
      BY <2>5, BoundsAssumption DEF TypeOK, NoCapture
    <3>3. job' \in [conv : Convs, mode : {"poll", "flush", "final"}, turns : Seq(Turn),
                    mark : 0..MaxClock]
      BY <2>1, <2>5, JobType
    <3> QED
      BY <2>3, <2>5, <3>1, <3>2, <3>3 DEF TypeOK
  <2> QED
    BY <1>2, <2>4, <2>5 DEF CountTurns
<1>3. CASE WriteRecord
  <2>1. \A k \in Convs, r \in Rows : recorded[k][r] + pending[k][r] \in Nat
    BY DEF TypeOK
  <2> QED
    BY <1>3, <2>1 DEF WriteRecord, TypeOK, agentVars, gapVars
<1>4. CASE WriteFails
  <2>1. budget' \in [Events -> Nat]
    BY <1>4 DEF WriteFails, Spend, TypeOK, Events
  <2> QED
    BY <1>4, <2>1 DEF WriteFails, TypeOK, Done, agentVars, savedVars, gapVars
<1>5. CASE ClearTrace
  BY <1>5 DEF ClearTrace, Nothing, TypeOK, agentVars, gapVars
<1>6. CASE MoveMark
  <2> DEFINE t == Last(job.turns)
  <2>1. step # "idle" /\ t \in Turn
    BY <1>6, JobType, LastTurn DEF MoveMark, CaptureHasTurns
  <2>2. marks' \in [Convs -> [id : 0..MaxClock, at : Nat]]
    <3>1. marks' = [marks EXCEPT ![job.conv] =
                       [id |-> IF AnchorOnUser(t) THEN t.user ELSE t.said, at |-> Ended(t)]]
      BY <1>6 DEF MoveMark
    <3>2. t.user \in 0..MaxClock /\ t.said \in 0..MaxClock /\ Ended(t) \in Nat
      BY <2>1, TurnTimes, BoundsAssumption DEF Turn, Rows
    <3> QED
      BY <3>1, <3>2 DEF TypeOK
  <2>3. (step' = "marked" /\ job' = job) \/ (step' = "idle" /\ job' = NoJob)
    BY <1>6 DEF MoveMark, Done
  <2>4. UNCHANGED <<clock, transcript, captured, pending, recorded, gapOpen, floor, stretches,
                    life, settled, budget>>
    BY <1>6 DEF MoveMark, agentVars, gapVars
  <2> QED
    BY <2>1, <2>2, <2>3, <2>4, JobType DEF TypeOK
<1>7. CASE RememberCapture
  <2> DEFINE t == Last(job.turns)
  <2>1. t \in Turn
    BY <1>7, JobType, LastTurn DEF RememberCapture, CaptureHasTurns
  <2>2. captured' \in [user : 0..MaxClock, spent : Nat]
    BY <1>7, <2>1, BoundsAssumption DEF RememberCapture, Turn, Rows
  <2> QED
    BY <1>7, <2>2 DEF RememberCapture, Done, TypeOK, agentVars, gapVars
<1> QED
  BY <1>1, <1>2, <1>3, <1>4, <1>5, <1>6, <1>7 DEF Capture

\* Each stop, start, exit and crash keeps the types.
LEMMA LifecycleTypes ==
  ASSUME TypeOK, Lifecycle PROVE TypeOK'
<1>1. clock \in Nat /\ MaxClock \in Nat /\ (Tick => clock' = clock + 1 /\ clock' \in 1..MaxClock)
  BY BoundsAssumption DEF Tick, TypeOK
<1>2. \A event \in Events : Spend(event) => budget' \in [Events -> Nat]
  BY DEF Spend, TypeOK
<1>3. CASE UserStop
  <2>1. Second(clock') \in Nat /\ clock' \in 1..MaxClock
    BY <1>1, <1>3, SecondType DEF UserStop
  <2>2. budget' \in [Events -> Nat]
    BY <1>2, <1>3 DEF UserStop, Events
  <2> QED
    BY <1>3, <2>1, <2>2 DEF UserStop, TypeOK, agentVars, savedVars, trackerVars
<1>4. CASE UserStart
  <2>1. Second(clock') \in Nat /\ clock' \in 1..MaxClock
    BY <1>1, <1>4, SecondType DEF UserStart
  <2>2. stretches' \subseteq [from : Nat, to : Nat]
    <3> DEFINE ended(s) == [s EXCEPT !.to = IF s.to = 0 THEN Second(clock') ELSE s.to]
    <3>1. \A s \in [from : Nat, to : Nat] : ended(s) \in [from : Nat, to : Nat]
      BY <2>1
    <3>2. stretches' = {ended(s) : s \in stretches}
      BY <1>4 DEF UserStart
    <3> HIDE DEF ended
    <3>3. stretches \subseteq [from : Nat, to : Nat]
      BY DEF TypeOK
    <3> QED
      BY <3>1, <3>2, <3>3
  <2>3. life' \in {"down", "up", "stopping", "replaced"}
    BY <1>4 DEF UserStart, TypeOK
  <2> QED
    BY <1>4, <2>1, <2>2, <2>3 DEF UserStart, TypeOK, agentVars, savedVars
<1>5. CASE Start
  BY <1>5 DEF Start, TypeOK, agentVars, savedVars, gapVars
<1>6. ASSUME NEW how \in {"stopping", "replaced"}, Terminate(how) PROVE TypeOK'
  <2>1. budget' \in [Events -> Nat]
    BY <1>2, <1>6 DEF Terminate, Events
  <2> QED
    BY <1>6, <2>1 DEF Terminate, TypeOK, agentVars, savedVars, gapVars
<1>7. CASE Exit
  BY <1>7 DEF Exit, TypeOK, agentVars, savedVars, gapVars
<1>8. CASE Crash
  <2>1. budget' \in [Events -> Nat]
    BY <1>2, <1>8 DEF Crash, Events
  <2> QED
    BY <1>8, <2>1 DEF Crash, Done, TypeOK, agentVars, savedVars, gapVars
<1> QED
  BY <1>3, <1>4, <1>5, <1>6, <1>7, <1>8 DEF Lifecycle

\* What holds throughout: the types, and the turns of a capture under way.
TypeInv == TypeOK /\ CaptureHasTurns

\* The invariant holds initially and is kept by every step.
LEMMA TypeInvInit == Init => TypeInv
<1> SUFFICES ASSUME Init PROVE TypeInv
  OBVIOUS
<1>1. clock \in 1..MaxClock /\ floor \in Nat
  BY BoundsAssumption DEF Init
<1>2. marks \in [Convs -> [id : 0..MaxClock, at : Nat]]
  BY BoundsAssumption DEF Init, NoMark
<1>3. captured \in [user : 0..MaxClock, spent : Nat]
  BY BoundsAssumption DEF Init, NoCapture
<1>4. pending \in [Convs -> [Rows -> Nat]] /\ recorded \in [Convs -> [Rows -> Nat]]
  BY DEF Init, Nothing
<1>5. transcript \in [Convs -> Seq(Turn)]
  BY EmptySeq DEF Init
<1> QED
  BY <1>1, <1>2, <1>3, <1>4, <1>5, BoundsAssumption DEF Init, TypeInv, TypeOK, CaptureHasTurns

LEMMA TypeInvStep == TypeInv /\ [Next]_vars => TypeInv'
<1> SUFFICES ASSUME TypeInv, [Next]_vars PROVE TypeInv'
  OBVIOUS
<1> USE DEF TypeInv
<1>1. ASSUME NEW c \in Convs, Agent(c) PROVE TypeInv'
  <2>1. transcript' \in [Convs -> Seq(Turn)] /\ clock' \in 1..MaxClock
    <3>1. PICK u \in Seq(Turn) : transcript' = [transcript EXCEPT ![c] = u]
      BY <1>1, AgentStep
    <3>2. transcript \in [Convs -> Seq(Turn)]
      BY DEF TypeOK
    <3>3. clock' \in 1..MaxClock
      BY <1>1, AgentStep
    <3> QED
      BY <3>1, <3>2, <3>3
  <2>2. budget' \in [Events -> Nat]
    <3>1. budget' = budget \/ \E event \in Events : Spend(event)
      BY <1>1 DEF Agent, Prompt, Reply, Interrupt, Delegate, HelperReports, Compact, Events
    <3>2. \A event \in Events : Spend(event) => budget' \in [Events -> Nat]
      BY DEF Spend, TypeOK
    <3>3. budget \in [Events -> Nat]
      BY DEF TypeOK
    <3> QED
      BY <3>1, <3>2, <3>3
  <2>3. UNCHANGED <<savedVars, gapVars, trackerVars>>
    BY <1>1 DEF Agent, Prompt, Reply, Interrupt, Delegate, HelperReports, Compact
  <2> QED
    BY <2>1, <2>2, <2>3 DEF TypeOK, CaptureHasTurns, savedVars, gapVars, trackerVars
<1>2. ASSUME NEW c \in Convs, NEW mode \in {"poll", "flush", "final"}, StartParse(c, mode)
      PROVE  TypeInv'
  <2>1. transcript[c] \in Seq(Turn) /\ marks[c].id \in 0..MaxClock
    BY DEF TypeOK
  <2>2. settled' \subseteq Convs
    BY <1>2 DEF StartParse, TypeOK
  <2> QED
    BY <1>2, <2>1, <2>2
      DEF StartParse, TypeOK, CaptureHasTurns, agentVars, savedVars, gapVars
<1>3. CASE Capture \/ WriteFails
  <2>1. TypeOK'
    BY <1>3, CaptureTypes
  <2>2. CASE ChooseTurns
    <3> DEFINE tracked == TrackedTurns(TurnsAfter(job.turns, job.mark, marks[job.conv].at))
               batch == IF job.mode = "flush" THEN tracked ELSE Trimmed(tracked)
    <3>1. step' = "idle" \/ (batch # <<>> /\ job' = [job EXCEPT !.turns = batch])
      <4> HIDE DEF batch
      <4>1. batch = <<>> => Done
        BY <2>2 DEF ChooseTurns, batch
      <4>2. Done \/ job' = [job EXCEPT !.turns = batch]
        BY <2>2 DEF ChooseTurns, batch
      <4> QED
        BY <4>1, <4>2 DEF Done
    <3>2. step # "idle"
      BY <2>2 DEF ChooseTurns
    <3>3. \A u : [job EXCEPT !.turns = u].turns = u
      BY <3>2, JobType
    <3> HIDE DEF batch
    <3> QED
      BY <2>1, <3>1, <3>3 DEF CaptureHasTurns
  <2>3. CASE ~ChooseTurns
    BY <1>3, <2>1, <2>3 DEF Capture, CountTurns, WriteRecord, WriteFails, ClearTrace, MoveMark,
                RememberCapture, Done, CaptureHasTurns
  <2> QED
    BY <2>2, <2>3
<1>4. CASE Lifecycle
  <2>1. TypeOK'
    BY <1>4, LifecycleTypes
  <2>2. CaptureHasTurns'
    BY <1>4 DEF Lifecycle, UserStop, UserStart, Start, Terminate, Exit, Crash, Done,
                CaptureHasTurns, trackerVars
  <2> QED
    BY <2>1, <2>2
<1>5. CASE UNCHANGED vars
  BY <1>5 DEF vars, savedVars, gapVars, trackerVars, TypeOK, CaptureHasTurns
<1> QED
  BY <1>1, <1>2, <1>3, <1>4, <1>5 DEF Next

\* The saved state, the capture in progress and the transcripts keep their types, whatever
\* the conversations, the clock's grain and the budget.
THEOREM TypeCorrect == Spec => []TypeOK
<1>1. TypeInv => TypeOK
  BY DEF TypeInv
<1> QED
  BY <1>1, TypeInvInit, TypeInvStep, PTL DEF Spec

-----------------------------------------------------------------------------
(* Nothing of a stopped stretch is recorded.                               *)

\* A row strictly inside a stretch in which tracking was stopped.
Inside(row) ==
    \E s \in stretches : s.from < Second(row) /\ (s.to = 0 \/ Second(row) < s.to)

\* Stretches lie in the past, and once tracking has resumed every one of them has ended by the
\* floor; transcripts and the capture under way are in the order of their prompts, all of them
\* past; and only rows outside every stretch have tokens, recorded or waiting for a record.
StretchesPast ==
    /\ clock >= RowsPerSecond
    /\ \A s \in stretches : s.from <= Second(clock) /\ s.to <= Second(clock)

FloorCovers == ~gapOpen => \A s \in stretches : 0 < s.to /\ s.to <= floor

TurnsInOrder ==
    /\ \A c \in Convs : TurnsBy(transcript[c], clock)
    /\ step # "idle" => TurnsBy(job.turns, clock)

OnlyTracked ==
    \A c \in Convs, r \in Rows :
        recorded[c][r] + pending[c][r] > 0 => r <= clock /\ ~Inside(r)

StretchInv == TypeInv /\ StretchesPast /\ FloorCovers /\ TurnsInOrder /\ OnlyTracked

\* The turns a stop record leaves to be recorded began outside every stretch.
LEMMA TrackedOutside ==
  ASSUME TypeOK, StretchesPast, FloorCovers,
         NEW turns \in Seq(Turn), TurnsBy(turns, clock),
         NEW i \in 1..Len(TrackedTurns(turns))
  PROVE  LET row == TrackedTurns(turns)[i].user IN row <= clock /\ ~Inside(row)
<1> DEFINE S == {k \in DOMAIN turns : BeforeFloor(turns[k])}
           count == UntrackedCount(turns)
           j == count + i
           t == turns[j]
<1>1. Len(turns) \in Nat /\ DOMAIN turns = 1..Len(turns) /\ \A k \in 1..Len(turns) : turns[k] \in Turn
  BY LenProperties, ElementOfSeq
<1>2. count \in 0..Len(turns)
  BY SplitIsSegments
<1>3. Len(TrackedTurns(turns)) = Len(turns) - count /\ TrackedTurns(turns)[i] = t
  BY SplitPositions
<1>4. j \in 1..Len(turns) /\ t \in Turn
  BY <1>1, <1>2, <1>3
<1>5. ~BeforeFloor(t)
  <2> SUFFICES ASSUME BeforeFloor(t) PROVE FALSE
    OBVIOUS
  <2>1. \A k \in 1..j : BeforeFloor(turns[k])
    <3> SUFFICES ASSUME NEW k \in 1..j PROVE BeforeFloor(turns[k])
      OBVIOUS
    <3>1. k \in 1..Len(turns) /\ turns[k] \in Turn /\ (k < j \/ k = j)
      BY <1>1, <1>4
    <3>2. turns[k].user <= t.user
      <4>1. k < j => turns[k].user < t.user
        BY <1>4, <3>1, ClockType, UsersInOrder
      <4>2. t.user \in Nat /\ turns[k].user \in Nat
        BY <1>4, <3>1, TurnTimes
      <4> QED
        BY <3>1, <4>1, <4>2
    <3>3. Began(turns[k]) <= Began(t) /\ Began(turns[k]) \in Nat /\ Began(t) \in Nat
      BY <1>4, <3>1, <3>2, TurnTimes, SecondMonotone DEF Began
    <3>4. floor \in Nat
      BY DEF TypeOK
    <3> QED
      BY <3>3, <3>4 DEF BeforeFloor
  <2>2. 1..j \subseteq S /\ S \in SUBSET (1..Len(turns))
    BY <1>1, <1>4, <2>1
  <2>3. j <= Cardinality(S)
    BY <1>1, <1>4, <2>2, PrefixCount
  <2>4. Cardinality(S) = count
    BY DEF UntrackedCount
  <2> QED
    BY <1>2, <2>3, <2>4
<1>6. ~gapOpen /\ floor <= Second(t.user) /\ floor \in Nat /\ Second(t.user) \in Nat
  <2>1. floor \in Nat
    BY DEF TypeOK
  <2>2. Began(t) \in Nat
    BY <1>4, TurnTimes
  <2>3. ~gapOpen /\ ~(Began(t) < floor)
    BY <1>5 DEF BeforeFloor
  <2>4. floor <= Began(t)
    BY <2>1, <2>2, <2>3
  <2> QED
    BY <2>1, <2>2, <2>3, <2>4 DEF Began
<1>7. \A s \in stretches : 0 < s.to /\ s.to <= floor /\ s.to \in Nat
  BY <1>6 DEF FloorCovers, TypeOK
<1>8. ~Inside(t.user)
  BY <1>6, <1>7 DEF Inside
<1>9. t.user <= clock
  BY <1>4, ClockType, UsersInOrder
<1> QED
  BY <1>3, <1>8, <1>9

\* Only a stop or a start changes the stop record.
LEMMA GapStep ==
  ASSUME [Next]_vars
  PROVE  (gapOpen' = gapOpen /\ floor' = floor /\ stretches' = stretches) \/ UserStop \/ UserStart
<1>1. ASSUME NEW c \in Convs, Agent(c) PROVE UNCHANGED gapVars
  BY <1>1 DEF Agent, Prompt, Reply, Interrupt, Delegate, HelperReports, Compact
<1>2. ASSUME NEW c \in Convs, NEW mode \in {"poll", "flush", "final"}, StartParse(c, mode)
      PROVE  UNCHANGED gapVars
  BY <1>2 DEF StartParse
<1>3. CASE Capture \/ WriteFails
  BY <1>3 DEF Capture, WriteFails, ChooseTurns, CountTurns, WriteRecord, ClearTrace, MoveMark,
              RememberCapture, gapVars
<1>4. CASE Lifecycle
  BY <1>4 DEF Lifecycle, Start, Terminate, Exit, Crash, gapVars
<1>5. CASE UNCHANGED vars
  BY <1>5 DEF vars, gapVars
<1> QED
  BY <1>1, <1>2, <1>3, <1>4, <1>5 DEF Next, gapVars

\* Stretches and the floor: only a stop adds a stretch and only a start ends one.
LEMMA StretchStep ==
  ASSUME TypeInv, StretchesPast, FloorCovers, [Next]_vars
  PROVE  clock <= clock' /\ clock' \in Nat /\ StretchesPast' /\ FloorCovers'
<1>1. clock \in Nat /\ RowsPerSecond \in Nat
  BY BoundsAssumption DEF TypeInv, TypeOK
<1>2. clock' = clock \/ clock' = clock + 1
  <2>1. ASSUME NEW c \in Convs, Agent(c) PROVE clock' = clock \/ clock' = clock + 1
    BY <2>1, AgentStep DEF TypeInv
  <2>2. ASSUME NEW c \in Convs, NEW mode \in {"poll", "flush", "final"}, StartParse(c, mode)
        PROVE  clock' = clock
    BY <2>2 DEF StartParse
  <2>3. CASE Capture \/ WriteFails
    BY <2>3 DEF Capture, WriteFails, ChooseTurns, CountTurns, WriteRecord, ClearTrace, MoveMark,
                RememberCapture
  <2>4. CASE Lifecycle
    BY <2>4 DEF Lifecycle, UserStop, UserStart, Start, Terminate, Exit, Crash, Tick
  <2>5. CASE UNCHANGED vars
    BY <2>5 DEF vars
  <2> QED
    BY <2>1, <2>2, <2>3, <2>4, <2>5 DEF Next
<1>3. clock <= clock' /\ clock' \in Nat /\ clock >= RowsPerSecond /\ clock' >= RowsPerSecond
  BY <1>1, <1>2 DEF StretchesPast
<1>4. /\ Second(clock) \in Nat /\ Second(clock') \in Nat
      /\ Second(clock) <= Second(clock') /\ Second(clock') > 0
  BY <1>1, <1>3, SecondType, SecondMonotone, FirstSecond
<1>5. \A s \in stretches : s.from \in Nat /\ s.to \in Nat /\ s \in [from : Nat, to : Nat]
  BY DEF TypeInv, TypeOK
<1>6. CASE gapOpen' = gapOpen /\ floor' = floor /\ stretches' = stretches
  BY <1>1, <1>3, <1>4, <1>5, <1>6 DEF StretchesPast, FloorCovers
<1>7. CASE UserStop
  BY <1>1, <1>3, <1>4, <1>5, <1>7 DEF UserStop, StretchesPast, FloorCovers
<1>8. CASE UserStart
  <2> DEFINE ended(s) == [s EXCEPT !.to = IF s.to = 0 THEN Second(clock') ELSE s.to]
  <2>1. stretches' = {ended(s) : s \in stretches} /\ floor' = Second(clock')
    BY <1>8 DEF UserStart
  <2>2. \A s \in stretches : /\ ended(s).from = s.from
                             /\ ended(s).to = IF s.to = 0 THEN Second(clock') ELSE s.to
    BY <1>5
  <2> HIDE DEF ended
  <2>3. \A s \in stretches : /\ ended(s).from <= Second(clock') /\ ended(s).to <= Second(clock')
                             /\ 0 < ended(s).to
    BY <1>4, <1>5, <2>2 DEF StretchesPast
  <2> QED
    BY <1>3, <2>1, <2>3 DEF StretchesPast, FloorCovers
<1> QED
  BY <1>3, <1>6, <1>7, <1>8, GapStep

\* The turns of every conversation and of the capture stay in order and past.
LEMMA OrderStep ==
  ASSUME TypeInv, TypeInv', TurnsInOrder, [Next]_vars, clock <= clock', clock' \in Nat
  PROVE  TurnsInOrder'
<1>1. clock \in Nat /\ transcript \in [Convs -> Seq(Turn)] /\ (step # "idle" => job.turns \in Seq(Turn))
  <2>1. clock \in Nat /\ transcript \in [Convs -> Seq(Turn)]
    BY BoundsAssumption DEF TypeInv, TypeOK
  <2>2. step # "idle" => job.turns \in Seq(Turn)
    BY JobType DEF TypeInv
  <2> QED
    BY <2>1, <2>2
<1>2. /\ \A c \in Convs : TurnsBy(transcript[c], clock')
      /\ step # "idle" => TurnsBy(job.turns, clock')
  BY <1>1, StillPast DEF TurnsInOrder
<1>3. ASSUME NEW c \in Convs, Agent(c) PROVE TurnsInOrder'
  <2>1. PICK u \in Seq(Turn) : /\ transcript' = [transcript EXCEPT ![c] = u]
                               /\ TurnsBy(transcript[c], clock) => TurnsBy(u, clock')
    BY <1>3, AgentStep DEF TypeInv
  <2>2. TurnsBy(u, clock')
    BY <2>1 DEF TurnsInOrder
  <2>3. UNCHANGED <<step, job>>
    BY <1>3 DEF Agent, Prompt, Reply, Interrupt, Delegate, HelperReports, Compact, trackerVars
  <2> QED
    BY <1>1, <1>2, <2>1, <2>2, <2>3 DEF TurnsInOrder
<1>4. ASSUME NEW c \in Convs, NEW mode \in {"poll", "flush", "final"}, StartParse(c, mode)
      PROVE  TurnsInOrder'
  BY <1>2, <1>4 DEF StartParse, TurnsInOrder, agentVars
<1>5. CASE ChooseTurns
  <2> DEFINE tracked == TrackedTurns(TurnsAfter(job.turns, job.mark, marks[job.conv].at))
             batch == IF job.mode = "flush" THEN tracked ELSE Trimmed(tracked)
  <2>1. step # "idle"
    BY <1>5 DEF ChooseTurns
  <2>2. TurnsBy(batch, clock')
    BY <1>2, <2>1, ChosenTypes DEF TypeInv
  <2> HIDE DEF batch
  <2>3. Done \/ job' = [job EXCEPT !.turns = batch]
    BY <1>5 DEF ChooseTurns, batch
  <2>4. \A u : [job EXCEPT !.turns = u].turns = u
    BY <2>1, JobType DEF TypeInv
  <2>5. transcript' = transcript
    BY <1>5 DEF ChooseTurns, agentVars
  <2> QED
    BY <1>2, <2>2, <2>3, <2>4, <2>5 DEF TurnsInOrder, Done
<1>6. CASE (Capture /\ ~ChooseTurns) \/ WriteFails
  <2>1. step # "idle" /\ transcript' = transcript /\ (job' = job \/ step' = "idle")
    BY <1>6 DEF Capture, CountTurns, WriteRecord, WriteFails, ClearTrace, MoveMark,
                RememberCapture, Done, agentVars
  <2> QED
    BY <1>2, <2>1 DEF TurnsInOrder
<1>7. CASE Lifecycle
  <2>1. transcript' = transcript /\ ((step' = step /\ job' = job) \/ step' = "idle")
    BY <1>7 DEF Lifecycle, UserStop, UserStart, Start, Terminate, Exit, Crash, Done, agentVars,
                trackerVars
  <2> QED
    BY <1>2, <2>1 DEF TurnsInOrder
<1>8. CASE UNCHANGED vars
  BY <1>2, <1>8 DEF vars, trackerVars, TurnsInOrder
<1> QED
  BY <1>3, <1>4, <1>5, <1>6, <1>7, <1>8 DEF Next

\* No step puts a row of a stretch into the pending usage or the record.
LEMMA TrackedStep ==
  ASSUME StretchInv, [Next]_vars, clock <= clock', clock' \in Nat
  PROVE  OnlyTracked'
<1>1. /\ clock \in Nat
      /\ \A c \in Convs, r \in Rows : recorded[c][r] \in Nat /\ pending[c][r] \in Nat
      /\ \A r \in Rows : r \in Nat
  BY BoundsAssumption DEF StretchInv, TypeInv, TypeOK, Rows
<1>2. \/ CountTurns
      \/ WriteRecord
      \/ ClearTrace
      \/ recorded' = recorded /\ pending' = pending
  <2>1. ASSUME NEW c \in Convs, Agent(c) PROVE recorded' = recorded /\ pending' = pending
    BY <2>1 DEF Agent, Prompt, Reply, Interrupt, Delegate, HelperReports, Compact, savedVars
  <2>2. ASSUME NEW c \in Convs, NEW mode \in {"poll", "flush", "final"}, StartParse(c, mode)
        PROVE  recorded' = recorded /\ pending' = pending
    BY <2>2 DEF StartParse, savedVars
  <2>3. ASSUME ChooseTurns \/ WriteFails \/ MoveMark \/ RememberCapture
        PROVE  recorded' = recorded /\ pending' = pending
    BY <2>3 DEF ChooseTurns, WriteFails, MoveMark, RememberCapture, savedVars
  <2>4. ASSUME Lifecycle PROVE recorded' = recorded /\ pending' = pending
    BY <2>4 DEF Lifecycle, UserStop, UserStart, Start, Terminate, Exit, Crash, savedVars
  <2>5. ASSUME UNCHANGED vars PROVE recorded' = recorded /\ pending' = pending
    BY <2>5 DEF vars, savedVars
  <2> QED
    BY <2>1, <2>2, <2>3, <2>4, <2>5 DEF Next, Capture
<1>3. \/ stretches' = stretches
      \/ UserStop /\ recorded' = recorded /\ pending' = pending
      \/ UserStart /\ recorded' = recorded /\ pending' = pending
  BY GapStep DEF UserStop, UserStart, savedVars
<1>4. ASSUME NEW r \in Rows, r <= clock, ~Inside(r) PROVE r <= clock' /\ ~Inside(r)'
  <2>1. r <= clock' /\ Second(r) <= Second(clock) /\ Second(r) \in Nat /\ Second(clock) \in Nat
    BY <1>1, <1>4, SecondMonotone, SecondType
  <2>2. Second(clock) <= Second(clock') /\ Second(clock') \in Nat
    BY <1>1, SecondMonotone, SecondType
  <2>3. CASE stretches' = stretches
    BY <1>4, <2>1, <2>3 DEF Inside
  <2>4. CASE UserStop
    <3>1. stretches' = stretches \cup {[from |-> Second(clock'), to |-> 0]}
      BY <2>4 DEF UserStop
    <3> QED
      BY <1>4, <2>1, <2>2, <3>1 DEF Inside
  <2>5. CASE UserStart
    <3> DEFINE ended(s) == [s EXCEPT !.to = IF s.to = 0 THEN Second(clock') ELSE s.to]
    <3>1. stretches' = {ended(s) : s \in stretches}
      BY <2>5 DEF UserStart
    <3>2. \A s \in stretches : /\ ended(s).from = s.from
                               /\ ended(s).to = IF s.to = 0 THEN Second(clock') ELSE s.to
      BY DEF StretchInv, TypeInv, TypeOK
    <3> HIDE DEF ended
    <3>3. \A s \in stretches : (ended(s).from < Second(r) /\ (ended(s).to = 0 \/ Second(r) < ended(s).to))
                                  => (s.from < Second(r) /\ (s.to = 0 \/ Second(r) < s.to))
      BY <2>1, <2>2, <3>2
    <3> QED
      BY <1>4, <2>1, <3>1, <3>3 DEF Inside
  <2> QED
    BY <1>3, <2>3, <2>4, <2>5
<1>5. ASSUME NEW c \in Convs, NEW r \in Rows, recorded[c][r] + pending[c][r] > 0
      PROVE  r <= clock' /\ ~Inside(r)'
  BY <1>4, <1>5 DEF StretchInv, OnlyTracked
<1>6. CASE recorded' = recorded /\ pending' = pending
  BY <1>5, <1>6 DEF OnlyTracked
<1>7. CASE WriteRecord
  <2>1. \A c \in Convs, r \in Rows : recorded'[c][r] = recorded[c][r] + pending[c][r] /\ pending' = pending
    BY <1>7 DEF WriteRecord
  <2>2. \A c \in Convs, r \in Rows :
          recorded'[c][r] + pending'[c][r] > 0 => recorded[c][r] + pending[c][r] > 0
    BY <1>1, <2>1
  <2> QED
    BY <1>5, <2>2 DEF OnlyTracked
<1>8. CASE ClearTrace
  <2>1. \A c \in Convs, r \in Rows : recorded' = recorded /\ pending'[c][r] = 0
    BY <1>8 DEF ClearTrace, Nothing
  <2>2. \A c \in Convs, r \in Rows :
          recorded'[c][r] + pending'[c][r] > 0 => recorded[c][r] + pending[c][r] > 0
    BY <1>1, <2>1
  <2> QED
    BY <1>5, <2>2 DEF OnlyTracked
<1>9. CASE CountTurns
  <2> DEFINE c == job.conv
             turns == TrackedTurns(job.turns)
             Of(r) == {i \in DOMAIN turns : turns[i].user = r}
             added == [r \in Rows |->
                        IF Of(r) = {} THEN pending[c][r]
                        ELSE pending[c][r] + Owed(c, turns[CHOOSE i \in Of(r) : TRUE])]
  <2>1. step # "idle"
    BY <1>9 DEF CountTurns
  <2>2. c \in Convs /\ job.turns \in Seq(Turn) /\ TurnsBy(job.turns, clock)
    BY <2>1, JobType DEF StretchInv, TypeInv, TurnsInOrder
  <2>3. \A i \in 1..Len(turns) : turns[i].user <= clock /\ ~Inside(turns[i].user)
    BY <2>2, TrackedOutside DEF StretchInv, TypeInv
  <2>4. DOMAIN turns = 1..Len(turns)
    BY <2>2, SplitIsSegments, LenProperties
  <2>5. \A r \in Rows : Of(r) # {} => r <= clock /\ ~Inside(r)
    BY <2>3, <2>4
  <2>6. recorded' = recorded /\ (pending' = pending \/ pending' = [pending EXCEPT ![c] = added])
    BY <1>9 DEF CountTurns
  <2>7. \A r \in Rows : Of(r) = {} => added[r] = pending[c][r]
    OBVIOUS
  <2> HIDE DEF added, Of
  <2>8. ASSUME NEW k \in Convs, NEW r \in Rows, recorded'[k][r] + pending'[k][r] > 0
        PROVE  r <= clock' /\ ~Inside(r)'
    <3>1. pending \in [Convs -> [Rows -> Nat]]
      BY DEF StretchInv, TypeInv, TypeOK
    <3>2. CASE pending'[k][r] = pending[k][r]
      BY <1>5, <2>6, <2>8, <3>2
    <3>3. CASE k = c /\ Of(r) # {}
      BY <1>4, <2>5, <3>3
    <3> QED
      BY <2>6, <2>7, <3>1, <3>2, <3>3
  <2> QED
    BY <2>8 DEF OnlyTracked
<1> QED
  BY <1>2, <1>6, <1>7, <1>8, <1>9

\* The invariant of the stop record.
LEMMA StretchInvInit == Init => StretchInv
<1> SUFFICES ASSUME Init PROVE StretchInv
  OBVIOUS
<1>1. TypeInv
  BY TypeInvInit
<1>2. StretchesPast /\ FloorCovers
  BY BoundsAssumption DEF Init, StretchesPast, FloorCovers
<1>3. TurnsInOrder
  BY EmptySeq DEF Init, TurnsInOrder, TurnsBy
<1>4. OnlyTracked
  BY DEF Init, Nothing, OnlyTracked
<1> QED
  BY <1>1, <1>2, <1>3, <1>4 DEF StretchInv

LEMMA StretchInvStep == StretchInv /\ [Next]_vars => StretchInv'
<1> SUFFICES ASSUME StretchInv, [Next]_vars PROVE StretchInv'
  OBVIOUS
<1>1. TypeInv'
  BY TypeInvStep DEF StretchInv
<1>2. clock <= clock' /\ clock' \in Nat /\ StretchesPast' /\ FloorCovers'
  BY StretchStep DEF StretchInv
<1>3. TurnsInOrder'
  BY <1>1, <1>2, OrderStep DEF StretchInv
<1>4. OnlyTracked'
  BY <1>2, TrackedStep
<1> QED
  BY <1>1, <1>2, <1>3, <1>4 DEF StretchInv

\* Nothing prompted while tracking was stopped reaches a commit: a turn is placed by the
\* second of its prompt, under the stop record at the moment it is counted, however long before
\* its conversation was read.
THEOREM StoppedStretchesStayOut == Spec => []StoppedStretchUnrecorded
<1>1. StretchInv => StoppedStretchUnrecorded
  <2> SUFFICES ASSUME StretchInv, NEW c \in Convs, NEW t \in TurnsOf(c), NEW s \in stretches,
                      s.from < Began(t), s.to = 0 \/ Began(t) < s.to
               PROVE  recorded[c][t.user] = 0
    BY DEF StoppedStretchUnrecorded
  <2>1. t \in Turn
    BY LenProperties, ElementOfSeq DEF TurnsOf, StretchInv, TypeInv, TypeOK
  <2>2. t.user \in Rows
    BY <2>1 DEF Turn
  <2>3. Inside(t.user)
    BY DEF Inside, Began
  <2>4. recorded[c][t.user] \in Nat /\ pending[c][t.user] \in Nat
    BY <2>2 DEF StretchInv, TypeInv, TypeOK
  <2> QED
    BY <2>2, <2>3, <2>4 DEF StretchInv, OnlyTracked
<1> QED
  BY <1>1, StretchInvInit, StretchInvStep, PTL DEF Spec

-----------------------------------------------------------------------------
(* The watermark only advances.                                            *)

\* What is exported past a watermark was prompted at its row or later: if no turn has it any
\* more, what is exported began in a later second.
LEMMA ExportPastMark ==
  ASSUME NEW turns, NEW now \in Nat, TurnsBy(turns, now),
         NEW mark \in Nat, NEW at \in Nat, Second(mark) <= at
  PROVE  \E m \in Nat \ {0} : /\ TurnsAfter(turns, mark, at) = SubSeq(turns, m, Len(turns))
                              /\ \A k \in m..Len(turns) : mark <= turns[k].user
<1> DEFINE n == Len(turns)
           marked == {i \in DOMAIN turns : mark \in {turns[i].user, turns[i].said}}
           i == CHOOSE k \in marked : TRUE
           older == {k \in DOMAIN turns : Began(turns[k]) <= at}
           Goal == \E m \in Nat \ {0} : /\ TurnsAfter(turns, mark, at) = SubSeq(turns, m, n)
                                        /\ \A k \in m..n : mark <= turns[k].user
<1>1. turns \in Seq(Turn) /\ n \in Nat /\ DOMAIN turns = 1..n /\ \A k \in 1..n : turns[k] \in Turn
  BY LenProperties, ElementOfSeq DEF TurnsBy
<1>2. \A k \in 1..n : turns[k].user \in Nat /\ turns[k].said \in Nat /\ turns[k].last \in Nat
  BY <1>1, Users
<1>3. marked # {} => i \in 1..n /\ mark \in {turns[i].user, turns[i].said}
  BY <1>1
<1>4. CASE mark = 0
  <2>1. TurnsAfter(turns, mark, at) = SubSeq(turns, 1, n)
    BY <1>1, <1>4, SubSeqFull DEF TurnsAfter
  <2>2. 1 \in Nat \ {0} /\ \A k \in 1..n : mark <= turns[k].user
    BY <1>2, <1>4
  <2> QED
    BY <2>1, <2>2
<1>5. CASE mark # 0 /\ marked = {}
  <2>1. TurnsAfter(turns, mark, at) = SubSeq(turns, Cardinality(older) + 1, n)
    BY <1>5 DEF TurnsAfter
  <2>2. older \in SUBSET (1..n) /\ Cardinality(older) \in 0..n
    <3>1. older \in SUBSET (1..n)
      BY <1>1
    <3> QED
      BY <1>1, <3>1, CountBound
  <2>3. ASSUME NEW k \in (Cardinality(older) + 1)..n PROVE mark <= turns[k].user
    <3>1. k \in 1..n /\ ~(k <= Cardinality(older))
      BY <1>1, <2>2
    <3>2. PICK j \in 1..k : j \notin older
      BY <1>1, <2>2, <3>1, PrefixCount
    <3>3. j \in 1..n /\ ~(Began(turns[j]) <= at)
      BY <1>1, <3>1, <3>2
    <3>4. turns[j].user <= turns[k].user
      <4>1. j < k => turns[j].user < turns[k].user
        BY <3>1, <3>3, UsersInOrder
      <4> QED
        BY <1>2, <3>1, <3>2, <3>3, <4>1
    <3>5. ~(turns[j].user <= mark)
      <4> HIDE DEF i, marked
      <4>1. Second(mark) \in Nat /\ Began(turns[j]) \in Nat /\ turns[j].user \in Nat
        BY <1>1, <1>2, <3>3, SecondType, TurnTimes
      <4>2. turns[j].user <= mark => Second(turns[j].user) <= Second(mark)
        BY <4>1, SecondMonotone
      <4>3. Began(turns[j]) = Second(turns[j].user)
        BY DEF Began
      <4> QED
        BY <3>3, <4>1, <4>2, <4>3
    <3> QED
      BY <1>2, <3>1, <3>3, <3>4, <3>5
  <2>4. Cardinality(older) + 1 \in Nat \ {0}
    BY <1>1, <2>2
  <2> QED
    BY <2>1, <2>3, <2>4
<1>6. CASE mark # 0 /\ marked # {}
  <2>1. i \in 1..n /\ mark \in {turns[i].user, turns[i].said} /\ RowsOf(turns[i])
    BY <1>3, <1>6 DEF TurnsBy
  <2>2. mark <= turns[i].last
    BY <1>2, <2>1 DEF RowsOf
  <2>3. ASSUME NEW k \in (i + 1)..n PROVE mark <= turns[k].user
    <3>1. k \in 1..n /\ i < k
      BY <1>1, <2>1
    <3>2. turns[i].last < turns[k].user
      BY <2>1, <3>1 DEF TurnsBy
    <3> QED
      BY <1>2, <2>1, <2>2, <3>1, <3>2
  <2>4. CASE mark = turns[i].user /\ Replied(turns[i]) /\ turns[i].final
    <3>1. TurnsAfter(turns, mark, at) = SubSeq(turns, i, n)
      BY <1>6, <2>4 DEF TurnsAfter
    <3>2. \A k \in (i + 1)..n : mark <= turns[k].user
      BY <2>3
    <3> HIDE DEF i, marked
    <3>3. i \in Nat \ {0} /\ mark <= turns[i].user
      BY <1>1, <2>1, <2>4
    <3>4. ASSUME NEW k \in i..n PROVE mark <= turns[k].user
      <4>1. k = i \/ k \in (i + 1)..n
        BY <1>1, <2>1
      <4> QED
        BY <3>3, <3>2, <4>1
    <3> QED
      BY <3>1, <3>3, <3>4
  <2>5. CASE ~(mark = turns[i].user /\ Replied(turns[i]) /\ turns[i].final)
    <3>1. TurnsAfter(turns, mark, at) = SubSeq(turns, i + 1, n)
      BY <1>6, <2>5 DEF TurnsAfter
    <3>2. i + 1 \in Nat \ {0}
      BY <1>1, <2>1
    <3> QED
      BY <2>3, <3>1, <3>2
  <2> QED
    BY <2>4, <2>5
<1> QED
  BY <1>4, <1>5, <1>6

\* Every watermark is of the second it says it is of; a parse that waits to be finished has
\* the watermark it was read with; and what is to be recorded begins at the watermark or later.
MarksTimed == \A c \in Convs : Second(marks[c].id) <= marks[c].at

JobPastMark ==
    /\ step = "parsed" => job.mark = marks[job.conv].id
    /\ step \in {"chosen", "counted", "recorded", "cleared"} =>
          \A i \in 1..Len(job.turns) : marks[job.conv].id <= job.turns[i].user

MarkInv == StretchInv /\ MarksTimed /\ JobPastMark

\* The watermark past the untracked turns lies before all that is left.
LEMMA ChosenPastMark ==
  ASSUME MarkInv, ChooseTurns
  PROVE  /\ \A c \in Convs : marks[c].id <= marks'[c].id
         /\ MarksTimed' /\ JobPastMark'
<1> DEFINE c == job.conv
           mark == marks[c].id
           fresh == TurnsAfter(job.turns, job.mark, marks[c].at)
           untracked == UntrackedTurns(fresh)
           tracked == TrackedTurns(fresh)
           count == UntrackedCount(fresh)
           batch == IF job.mode = "flush" THEN tracked ELSE Trimmed(tracked)
<1>1. /\ TypeOK /\ clock \in Nat /\ c \in Convs /\ job.turns \in Seq(Turn)
      /\ TurnsBy(job.turns, clock) /\ job.mark = mark
  BY ClockType, JobType DEF MarkInv, StretchInv, TypeInv, TurnsInOrder, JobPastMark, ChooseTurns
<1>2. mark \in Nat /\ marks[c].at \in Nat /\ Second(mark) <= marks[c].at
      /\ \A k \in Convs : marks[k].id \in Nat /\ marks[k].at \in Nat
  BY <1>1, BoundsAssumption DEF MarkInv, MarksTimed, TypeOK
<1>3. PICK m \in Nat \ {0} : /\ fresh = SubSeq(job.turns, m, Len(job.turns))
                             /\ \A k \in m..Len(job.turns) : mark <= job.turns[k].user
  BY <1>1, <1>2, ExportPastMark
<1>4. Len(job.turns) \in Nat /\ \A k \in m..Len(job.turns) : job.turns[k] \in Turn
  BY <1>1, <1>3, LenProperties, ElementOfSeq
<1>5. fresh \in Seq(Turn) /\ TurnsBy(fresh, clock)
  BY <1>1, <1>3, <1>4, Segment
<1>6. \A k \in 1..Len(fresh) : mark <= fresh[k].user /\ fresh[k] \in Turn
  <2>1. /\ Len(fresh) = IF m <= Len(job.turns) THEN Len(job.turns) - m + 1 ELSE 0
        /\ \A k \in 1..(Len(job.turns) - m + 1) : fresh[k] = job.turns[m + k - 1]
    BY <1>3, <1>4, SubSeqProperties
  <2>2. \A k \in 1..Len(fresh) : fresh[k] = job.turns[m + k - 1] /\ m + k - 1 \in m..Len(job.turns)
    BY <1>3, <1>4, <2>1
  <2> QED
    BY <1>3, <1>4, <2>2
<1> HIDE DEF fresh
<1>7. Len(fresh) \in Nat /\ count \in 0..Len(fresh)
  BY <1>5, LenProperties, SplitIsSegments
<1>8. /\ Len(tracked) = Len(fresh) - count
      /\ \A i \in 1..Len(tracked) : tracked[i] = fresh[count + i]
      /\ untracked # <<>> => count > 0 /\ Last(untracked) = fresh[count]
  BY <1>5, SplitPositions
<1>9. marks' = IF untracked = <<>> THEN marks ELSE [marks EXCEPT ![c] = MarkPast(Last(untracked))]
  BY DEF ChooseTurns, fresh
<1>10. ASSUME untracked # <<>>
       PROVE  LET t == fresh[count]
              IN  /\ t \in Turn /\ RowsOf(t) /\ mark <= t.user
                  /\ marks'[c].id \in Nat /\ mark <= marks'[c].id /\ marks'[c].id <= t.last
                  /\ marks'[c].at = Ended(t)
  <2>1. count \in 1..Len(fresh) /\ Last(untracked) = fresh[count]
    BY <1>7, <1>8, <1>10
  <2>2. RowsOf(fresh[count]) /\ fresh[count] \in Turn /\ mark <= fresh[count].user
    BY <1>5, <1>6, <2>1 DEF TurnsBy
  <2>3. marks'[c] = MarkPast(fresh[count])
    BY <1>1, <1>9, <1>10, <2>1 DEF TypeOK
  <2> QED
    BY <1>2, <2>2, <2>3, TurnRows DEF MarkPast, RowsOf, Replied
<1>11. \A k \in Convs : k # c => marks'[k] = marks[k]
  BY <1>1, <1>9 DEF TypeOK
<1>12. \A k \in Convs : marks[k].id <= marks'[k].id
  BY <1>1, <1>2, <1>9, <1>10, <1>11
<1>13. MarksTimed'
  <2>1. untracked # <<>> => Second(marks'[c].id) <= marks'[c].at
    BY <1>10, TurnRows, SecondMonotone DEF Ended
  <2> QED
    BY <1>9, <1>11, <2>1 DEF MarkInv, MarksTimed
<1>14. \A i \in 1..Len(tracked) : marks'[c].id <= tracked[i].user
  <2> SUFFICES ASSUME NEW i \in 1..Len(tracked) PROVE marks'[c].id <= tracked[i].user
    OBVIOUS
  <2>1. count + i \in 1..Len(fresh) /\ count < count + i /\ tracked[i] = fresh[count + i]
    BY <1>7, <1>8
  <2>2. CASE untracked = <<>>
    BY <1>6, <1>9, <2>1, <2>2
  <2>3. CASE untracked # <<>>
    <3>1. count \in 1..Len(fresh)
      BY <1>7, <1>8, <2>3
    <3>2. fresh[count].last < fresh[count + i].user
      BY <1>5, <2>1, <3>1 DEF TurnsBy
    <3>3. fresh[count].last \in Nat /\ fresh[count + i].user \in Nat
      BY <1>6, <2>1, <3>1, TurnRows
    <3> QED
      BY <1>10, <2>1, <2>3, <3>2, <3>3
  <2> QED
    BY <2>2, <2>3
<1>15. \A i \in 1..Len(batch) : marks'[c].id <= batch[i].user
  <2>1. tracked \in Seq(Turn) /\ Len(tracked) \in Nat
    BY <1>5, SplitIsSegments, LenProperties
  <2>2. PICK n \in 0..Len(tracked) : Trimmed(tracked) = SubSeq(tracked, 1, n)
    BY <2>1, TrimIsSegment
  <2>3. n \in Int /\ 1 \in Int /\ \A k \in 1..n : tracked[k] \in Turn
    BY <2>1, <2>2, ElementOfSeq
  <2>4. /\ Len(Trimmed(tracked)) = IF 1 <= n THEN n - 1 + 1 ELSE 0
        /\ \A k \in 1..(n - 1 + 1) : Trimmed(tracked)[k] = tracked[1 + k - 1]
    BY <2>2, <2>3, SubSeqProperties
  <2>5. \A k \in 1..Len(Trimmed(tracked)) : k \in 1..Len(tracked) /\ Trimmed(tracked)[k] = tracked[k]
    BY <2>1, <2>2, <2>4
  <2> QED
    BY <1>14, <2>5
<1> HIDE DEF batch
<1>16. Done \/ (step' = "chosen" /\ job' = [job EXCEPT !.turns = batch])
  BY DEF ChooseTurns, batch, fresh
<1>17. \A u : [job EXCEPT !.turns = u].turns = u /\ [job EXCEPT !.turns = u].conv = c
  BY <1>1, JobType DEF ChooseTurns
<1>18. JobPastMark'
  BY <1>15, <1>16, <1>17 DEF JobPastMark, Done
<1> QED
  BY <1>12, <1>13, <1>18

\* So does the watermark on the last of the turns recorded.
LEMMA MovedPastMark ==
  ASSUME MarkInv, MoveMark
  PROVE  (\A c \in Convs : marks[c].id <= marks'[c].id) /\ MarksTimed'
<1> DEFINE c == job.conv
           t == Last(job.turns)
           n == Len(job.turns)
<1>1. TypeOK /\ step = "cleared" /\ c \in Convs /\ job.turns \in Seq(Turn) /\ job.turns # <<>>
      /\ TurnsBy(job.turns, clock)
  BY JobType DEF MarkInv, StretchInv, TypeInv, CaptureHasTurns, TurnsInOrder, MoveMark
<1>2. t \in Turn /\ n \in 1..n /\ t = job.turns[n]
  BY <1>1, LastTurn DEF Last
<1>3. RowsOf(t) /\ marks[c].id <= t.user
  BY <1>1, <1>2 DEF TurnsBy, MarkInv, JobPastMark
<1>4. marks' = [marks EXCEPT ![c] = [id |-> IF AnchorOnUser(t) THEN t.user ELSE t.said, at |-> Ended(t)]]
  BY DEF MoveMark
<1>5. /\ marks'[c].id = (IF AnchorOnUser(t) THEN t.user ELSE t.said) /\ marks'[c].at = Ended(t)
      /\ \A k \in Convs : k # c => marks'[k] = marks[k]
  BY <1>1, <1>4 DEF TypeOK
<1>6. \A k \in Convs : marks[k].id \in Nat
  BY <1>1, BoundsAssumption DEF TypeOK
<1>7. /\ t.user \in Nat /\ t.said \in Nat /\ t.last \in Nat
      /\ marks[c].id <= marks'[c].id /\ marks'[c].id <= t.last /\ marks'[c].id \in Nat
  BY <1>1, <1>2, <1>3, <1>5, <1>6, TurnRows DEF RowsOf, AnchorOnUser
<1>8. Second(marks'[c].id) <= Ended(t)
  BY <1>7, SecondMonotone DEF Ended
<1>9. \A k \in Convs : Second(marks'[k].id) <= marks'[k].at
  BY <1>5, <1>8 DEF MarkInv, MarksTimed
<1> QED
  BY <1>5, <1>6, <1>7, <1>9 DEF MarksTimed

LEMMA MarkStep ==
  ASSUME MarkInv, [Next]_vars
  PROVE  (\A c \in Convs : marks[c].id <= marks'[c].id) /\ MarksTimed' /\ JobPastMark'
<1>1. \A c \in Convs : marks[c].id \in Nat
  BY BoundsAssumption DEF MarkInv, StretchInv, TypeInv, TypeOK
<1>2. ASSUME marks' = marks, step' = step, job' = job
      PROVE  (\A c \in Convs : marks[c].id <= marks'[c].id) /\ MarksTimed' /\ JobPastMark'
  BY <1>1, <1>2 DEF MarkInv, MarksTimed, JobPastMark
<1>3. ASSUME NEW c \in Convs, Agent(c) PROVE marks' = marks /\ step' = step /\ job' = job
  BY <1>3 DEF Agent, Prompt, Reply, Interrupt, Delegate, HelperReports, Compact, savedVars,
              trackerVars
<1>4. ASSUME NEW c \in Convs, NEW mode \in {"poll", "flush", "final"}, StartParse(c, mode)
      PROVE  marks' = marks /\ step' = "parsed" /\ job'.conv = c /\ job'.mark = marks[c].id
  BY <1>4 DEF StartParse, savedVars
<1>5. CASE CountTurns \/ WriteRecord \/ ClearTrace \/ RememberCapture \/ WriteFails
  <2>1. /\ marks' = marks
        /\ step' = "idle" \/ (job' = job /\ step' \in {"counted", "recorded", "cleared"})
        /\ step \in {"chosen", "counted", "recorded", "marked"}
        /\ step = "marked" => step' = "idle"
    <3>1. CASE CountTurns
      BY <3>1 DEF CountTurns, Done
    <3>2. CASE WriteRecord \/ ClearTrace \/ RememberCapture \/ WriteFails
      BY <3>2 DEF WriteRecord, ClearTrace, RememberCapture, WriteFails, Done, savedVars
    <3> QED
      BY <1>5, <3>1, <3>2
  <2> QED
    BY <1>1, <2>1 DEF MarkInv, MarksTimed, JobPastMark
<1>6. CASE MoveMark
  <2>1. step' \in {"idle", "marked"}
    BY <1>6 DEF MoveMark, Done
  <2> QED
    BY <1>6, <2>1, MovedPastMark DEF JobPastMark
<1>7. CASE Lifecycle
  <2>1. marks' = marks /\ (step' = "idle" \/ (step' = step /\ job' = job))
    BY <1>7 DEF Lifecycle, UserStop, UserStart, Start, Terminate, Exit, Crash, Done, savedVars,
                trackerVars
  <2> QED
    BY <1>1, <2>1 DEF MarkInv, MarksTimed, JobPastMark
<1>8. CASE UNCHANGED vars
  BY <1>2, <1>8 DEF vars, savedVars, trackerVars
<1>9. ASSUME NEW c \in Convs, NEW mode \in {"poll", "flush", "final"}, StartParse(c, mode)
      PROVE  (\A k \in Convs : marks[k].id <= marks'[k].id) /\ MarksTimed' /\ JobPastMark'
  BY <1>1, <1>4, <1>9 DEF MarkInv, MarksTimed, JobPastMark
<1> QED
  BY <1>2, <1>3, <1>5, <1>6, <1>7, <1>8, <1>9, ChosenPastMark DEF Next, Capture

LEMMA FirstMark == Init => MarksTimed /\ JobPastMark
<1>1. Second(0) = 0
  BY BoundsAssumption DEF Second
<1> QED
  BY <1>1 DEF Init, NoMark, MarksTimed, JobPastMark

\* The watermark of a conversation never goes back: however long ago it was read, whatever the
\* stop record skips, and also when a compaction has removed the turn it named.
THEOREM WatermarkNeverGoesBack == Spec => WatermarkAdvances
<1>1. Init => MarkInv
  BY StretchInvInit, FirstMark DEF MarkInv
<1>2. MarkInv /\ [Next]_vars => MarkInv'
  BY StretchInvStep, MarkStep DEF MarkInv
<1>3. MarkInv /\ [Next]_vars => [\A c \in Convs : marks'[c].id >= marks[c].id]_vars
  <2> SUFFICES ASSUME MarkInv, MarkInv', [Next]_vars PROVE \A c \in Convs : marks'[c].id >= marks[c].id
    BY <1>2
  <2>1. \A c \in Convs : marks[c].id \in Nat /\ marks'[c].id \in Nat
    BY BoundsAssumption DEF MarkInv, StretchInv, TypeInv, TypeOK
  <2> QED
    BY <2>1, MarkStep
<1> QED
  BY <1>1, <1>2, <1>3, PTL DEF Spec, WatermarkAdvances

-----------------------------------------------------------------------------
(* Totals over sets of rows.                                               *)

Some(S) == CHOOSE x \in S : TRUE
\* g adds f up over every subset of S; the total of f over S.
Adds(g, f, S) == g = [s \in SUBSET S |-> IF s = {} THEN 0 ELSE f[Some(s)] + g[s \ {Some(s)}]]
Total(f, S) == (CHOOSE g : Adds(g, f, S))[S]

\* What a turn was counted for is such a sum.
LEMMA CountedIsTotal ==
  ASSUME NEW c, NEW t
  PROVE  CountedFor(c, t) = Total(recorded[c], t.user .. t.last)
BY DEF CountedFor, Total, Adds, Some, MapThenSumSet, MapThenFoldSet

\* Of some sets of rows, one has no other that lacks just one of its rows: induction over rows.
LEMMA Smallest ==
  ASSUME NEW Bad \in SUBSET SUBSET Rows, Bad # {}
  PROVE  \E S \in Bad : \A x \in S : S \ {x} \notin Bad
<1>1. IsFiniteSet(Rows)
  BY BoundsAssumption, FS_Interval DEF Rows
<1>2. FiniteSubsetsOf(Rows) = SUBSET Rows
  BY <1>1, FS_FiniteSubsetsOfFinite
<1>3. IsWellFoundedOn(StrictSubsetOrdering(Rows), SUBSET Rows)
  BY <1>2, FS_StrictSubsetOrderingWellFounded
<1>4. PICK S \in Bad : \A y \in Bad : ~(<<y, S>> \in StrictSubsetOrdering(Rows))
  BY <1>3, WFMin
<1>5. \A x \in S : S \ {x} \in Bad => <<S \ {x}, S>> \in StrictSubsetOrdering(Rows)
  BY <1>4 DEF StrictSubsetOrdering
<1> QED
  BY <1>4, <1>5

\* There is at most one way to add up, on the subsets two of them share.
LEMMA AddsAgree ==
  ASSUME NEW S \in SUBSET Rows, NEW T \in SUBSET Rows, NEW f, NEW g, NEW h,
         Adds(g, f, S), Adds(h, f, T)
  PROVE  \A s \in SUBSET (S \cap T) : g[s] = h[s]
<1> DEFINE Bad == {s \in SUBSET (S \cap T) : g[s] # h[s]}
<1> SUFFICES ASSUME Bad # {} PROVE FALSE
  OBVIOUS
<1>1. PICK s \in Bad : \A x \in s : s \ {x} \notin Bad
  BY Smallest
<1>2. s \in SUBSET S /\ s \in SUBSET T /\ g[s] # h[s]
  BY <1>1
<1>3. s # {}
  BY <1>2 DEF Adds
<1>4. Some(s) \in s
  BY <1>3 DEF Some
<1>5. g[s \ {Some(s)}] = h[s \ {Some(s)}]
  BY <1>1, <1>4
<1>6. g[s] = f[Some(s)] + g[s \ {Some(s)}] /\ h[s] = f[Some(s)] + h[s \ {Some(s)}]
  BY <1>2, <1>3 DEF Adds
<1> QED
  BY <1>2, <1>5, <1>6

\* There is one.
LEMMA AddsExists ==
  ASSUME NEW f, NEW S \in SUBSET Rows
  PROVE  \E g : Adds(g, f, S)
<1> DEFINE Bad == {T \in SUBSET Rows : ~ \E g : Adds(g, f, T)}
<1> SUFFICES ASSUME Bad # {} PROVE FALSE
  OBVIOUS
<1>1. PICK T \in Bad : \A x \in T : T \ {x} \notin Bad
  BY Smallest
<1> DEFINE h(x) == CHOOSE g : Adds(g, f, T \ {x})
           g == [s \in SUBSET T |-> IF s = {} THEN 0
                                    ELSE f[Some(s)] + h(Some(s))[s \ {Some(s)}]]
<1>2. \A x \in T : T \ {x} \in SUBSET Rows /\ Adds(h(x), f, T \ {x})
  BY <1>1
<1> HIDE DEF h
<1>3. ASSUME NEW s \in SUBSET T, s # {}
      PROVE  h(Some(s))[s \ {Some(s)}] = g[s \ {Some(s)}]
  <2> DEFINE y == Some(s)
             r == s \ {y}
             z == Some(r)
  <2>1. y \in s /\ (r # {} => z \in r)
    BY <1>3 DEF Some
  <2>2. r \in SUBSET (T \ {y}) /\ r \in SUBSET T /\ Adds(h(y), f, T \ {y})
    BY <1>2, <2>1
  <2>3. CASE r = {}
    BY <2>2, <2>3 DEF Adds
  <2>4. CASE r # {}
    <3>1. g[r] = f[z] + h(z)[r \ {z}]
      BY <2>2, <2>4
    <3>2. h(y)[r] = f[z] + h(y)[r \ {z}]
      BY <2>2, <2>4 DEF Adds
    <3>3. z \in T /\ r \ {z} \in SUBSET ((T \ {y}) \cap (T \ {z}))
      BY <2>1, <2>2, <2>4
    <3>4. h(y)[r \ {z}] = h(z)[r \ {z}]
      <4>1. y \in T
        BY <2>1
      <4>2. /\ Adds(h(y), f, T \ {y}) /\ Adds(h(z), f, T \ {z})
            /\ T \ {y} \in SUBSET Rows /\ T \ {z} \in SUBSET Rows
        BY <1>2, <3>3, <4>1
      <4> HIDE DEF y, r, z
      <4> QED
        BY <3>3, <4>2, AddsAgree
    <3> QED
      BY <3>1, <3>2, <3>4
  <2> QED
    BY <2>3, <2>4
<1>4. Adds(g, f, T)
  BY <1>3 DEF Adds
<1> QED
  BY <1>1, <1>4

\* A total is that of the rest and the row chosen.
LEMMA TotalStep ==
  ASSUME NEW f, NEW S \in SUBSET Rows
  PROVE  IF S = {} THEN Total(f, S) = 0
         ELSE Total(f, S) = f[Some(S)] + Total(f, S \ {Some(S)})
<1> DEFINE sum(T) == CHOOSE g : Adds(g, f, T)
<1>1. Adds(sum(S), f, S)
  BY AddsExists
<1>2. CASE S = {}
  BY <1>1, <1>2 DEF Adds, Total
<1>3. CASE S # {}
  <2> DEFINE T == S \ {Some(S)}
  <2>1. T \in SUBSET Rows /\ T \in SUBSET (S \cap T)
    OBVIOUS
  <2>2. Adds(sum(T), f, T)
    BY <2>1, AddsExists
  <2>3. sum(S)[T] = sum(T)[T]
    BY <1>1, <2>1, <2>2, AddsAgree
  <2>4. sum(S)[S] = f[Some(S)] + sum(S)[T]
    BY <1>1, <1>3 DEF Adds
  <2> QED
    BY <1>3, <2>3, <2>4 DEF Total
<1> QED
  BY <1>2, <1>3

LEMMA TotalEmpty ==
  ASSUME NEW f PROVE Total(f, {}) = 0
BY TotalStep

\* Totals of numbers are numbers.
LEMMA TotalType ==
  ASSUME NEW f \in [Rows -> Nat], NEW S \in SUBSET Rows
  PROVE  Total(f, S) \in Nat
<1> DEFINE Bad == {T \in SUBSET Rows : Total(f, T) \notin Nat}
<1> SUFFICES ASSUME Bad # {} PROVE FALSE
  OBVIOUS
<1>1. PICK T \in Bad : \A x \in T : T \ {x} \notin Bad
  BY Smallest
<1>2. T # {}
  BY <1>1, TotalEmpty
<1>3. Some(T) \in T /\ Total(f, T) = f[Some(T)] + Total(f, T \ {Some(T)})
  BY <1>1, <1>2, TotalStep DEF Some
<1>4. Total(f, T \ {Some(T)}) \in Nat /\ f[Some(T)] \in Nat
  BY <1>1, <1>3
<1> QED
  BY <1>1, <1>3, <1>4

\* Any row may be taken out.
LEMMA TotalWithout ==
  ASSUME NEW f \in [Rows -> Nat], NEW S \in SUBSET Rows, NEW x \in S
  PROVE  Total(f, S) = f[x] + Total(f, S \ {x})
<1> DEFINE Bad == {T \in SUBSET Rows : \E y \in T : Total(f, T) # f[y] + Total(f, T \ {y})}
<1> SUFFICES ASSUME Bad # {} PROVE FALSE
  OBVIOUS
<1>1. PICK T \in Bad : \A y \in T : T \ {y} \notin Bad
  BY Smallest
<1>2. PICK y \in T : Total(f, T) # f[y] + Total(f, T \ {y})
  BY <1>1
<1> DEFINE z == Some(T)
<1>3. z \in T /\ Total(f, T) = f[z] + Total(f, T \ {z})
  BY <1>1, <1>2, TotalStep DEF Some
<1>4. y # z
  BY <1>2, <1>3
<1> HIDE DEF z
<1>5. Total(f, T \ {z}) = f[y] + Total(f, (T \ {z}) \ {y})
  BY <1>1, <1>3, <1>4
<1>6. Total(f, T \ {y}) = f[z] + Total(f, (T \ {y}) \ {z})
  BY <1>1, <1>3, <1>4
<1>7. (T \ {z}) \ {y} = (T \ {y}) \ {z} /\ (T \ {y}) \ {z} \in SUBSET Rows
  BY <1>1
<1>8. f[y] \in Nat /\ f[z] \in Nat /\ Total(f, (T \ {y}) \ {z}) \in Nat
  BY <1>1, <1>3, <1>7, TotalType
<1> QED
  BY <1>2, <1>3, <1>5, <1>6, <1>7, <1>8

\* Less in every row is less in total.
LEMMA TotalAtMost ==
  ASSUME NEW f \in [Rows -> Nat], NEW g \in [Rows -> Nat], NEW S \in SUBSET Rows,
         \A r \in S : f[r] <= g[r]
  PROVE  Total(f, S) <= Total(g, S)
<1> DEFINE Bad == {T \in SUBSET S : ~(Total(f, T) <= Total(g, T))}
<1> SUFFICES ASSUME Bad # {} PROVE FALSE
  OBVIOUS
<1>1. PICK T \in Bad : \A x \in T : T \ {x} \notin Bad
  BY Smallest
<1>2. T # {}
  BY <1>1, TotalEmpty
<1>3. PICK x \in T : TRUE
  BY <1>2
<1>4. /\ Total(f, T) = f[x] + Total(f, T \ {x})
      /\ Total(g, T) = g[x] + Total(g, T \ {x})
  BY <1>1, <1>3, TotalWithout
<1>5. Total(f, T \ {x}) <= Total(g, T \ {x})
  BY <1>1, <1>3
<1>6. /\ f[x] \in Nat /\ g[x] \in Nat
      /\ Total(f, T \ {x}) \in Nat /\ Total(g, T \ {x}) \in Nat
  BY <1>1, <1>3, TotalType
<1> QED
  BY <1>1, <1>3, <1>4, <1>5, <1>6

\* Nothing in every row is nothing in total.
LEMMA TotalZero ==
  ASSUME NEW f \in [Rows -> Nat], NEW S \in SUBSET Rows, \A r \in S : f[r] = 0
  PROVE  Total(f, S) = 0
<1> DEFINE Bad == {T \in SUBSET S : Total(f, T) # 0}
<1> SUFFICES ASSUME Bad # {} PROVE FALSE
  OBVIOUS
<1>1. PICK T \in Bad : \A x \in T : T \ {x} \notin Bad
  BY Smallest
<1>2. T # {}
  BY <1>1, TotalEmpty
<1>3. PICK x \in T : TRUE
  BY <1>2
<1>4. Total(f, T) = f[x] + Total(f, T \ {x}) /\ Total(f, T \ {x}) = 0 /\ f[x] = 0
  BY <1>1, <1>3, TotalWithout
<1> QED
  BY <1>1, <1>4

\* Only one of the rows counts.
LEMMA TotalOne ==
  ASSUME NEW f \in [Rows -> Nat], NEW S \in SUBSET Rows, NEW x \in S,
         \A r \in S : r # x => f[r] = 0
  PROVE  Total(f, S) = f[x]
<1>1. Total(f, S \ {x}) = 0
  BY TotalZero
<1> QED
  BY <1>1, TotalWithout

\* Rows that are not shared add up.
LEMMA TotalUnion ==
  ASSUME NEW f \in [Rows -> Nat], NEW A \in SUBSET Rows, NEW B \in SUBSET Rows, A \cap B = {}
  PROVE  Total(f, A \cup B) = Total(f, A) + Total(f, B)
<1> DEFINE Bad == {T \in SUBSET B : Total(f, A \cup T) # Total(f, A) + Total(f, T)}
<1> SUFFICES ASSUME Bad # {} PROVE FALSE
  OBVIOUS
<1>1. PICK T \in Bad : \A x \in T : T \ {x} \notin Bad
  BY Smallest
<1>2. T # {}
  <2>1. Total(f, A) \in Nat /\ Total(f, {}) = 0 /\ A \cup {} = A
    BY TotalType, TotalStep
  <2> QED
    BY <1>1, <2>1
<1>3. PICK x \in T : TRUE
  BY <1>2
<1>4. x \in A \cup T /\ (A \cup T) \ {x} = A \cup (T \ {x}) /\ A \cup T \in SUBSET Rows
  BY <1>1, <1>3
<1>5. Total(f, A \cup T) = f[x] + Total(f, A \cup (T \ {x}))
  BY <1>4, TotalWithout
<1>6. Total(f, T) = f[x] + Total(f, T \ {x})
  BY <1>1, <1>3, TotalWithout
<1>7. Total(f, A \cup (T \ {x})) = Total(f, A) + Total(f, T \ {x})
  BY <1>1, <1>3
<1>8. f[x] \in Nat /\ Total(f, A) \in Nat /\ Total(f, T \ {x}) \in Nat
  BY <1>1, <1>3, TotalType
<1> QED
  BY <1>1, <1>5, <1>6, <1>7, <1>8

-----------------------------------------------------------------------------
(* No turn is counted twice, as long as no capture is cut off after it has *)
(* counted and no two conversations are captured mid-flight at a time.     *)

Span(t) == t.user .. t.last
With(turns, r) == {i \in DOMAIN turns : turns[i].user = r}

\* What is in the commits of a conversation and what is about to be: the turns due put their
\* tokens in the place of what was counted for their prompts before.
Expected(due, held) ==
    [r \in Rows |-> IF With(due, r) = {} THEN held[r]
                    ELSE due[CHOOSE i \in With(due, r) : TRUE].spent]

\* No turn due has more than its tokens already; everything that counts lies in a turn; and no
\* turn of the conversation will have more than its tokens.
Sound(turns, due, held) ==
    /\ \A i \in 1..Len(due) : held[due[i].user] <= due[i].spent
    /\ \A r \in Rows : held[r] > 0 \/ With(due, r) # {} =>
          \E k \in 1..Len(turns) : r \in Span(turns[k])
    /\ \A k \in 1..Len(turns) : Total(Expected(due, held), Span(turns[k])) <= turns[k].spent

InOrder(due) ==
    /\ due \in Seq(Turn)
    /\ \A i, j \in 1..Len(due) : i < j => due[i].user < due[j].user

\* The rows of a turn are rows.
LEMMA SpanRows ==
  ASSUME NEW t \in Turn
  PROVE  Span(t) \in SUBSET Rows /\ t.user \in Rows /\ t.last \in Rows /\ t.spent \in Nat
<1>1. t.user \in 1..MaxClock /\ t.last \in 1..MaxClock /\ MaxClock \in Nat /\ t.spent \in Nat
  BY BoundsAssumption DEF Turn, Rows
<1> QED
  BY <1>1 DEF Span, Rows

\* No other turn due was prompted in the same row.
LEMMA WithOne ==
  ASSUME NEW due, InOrder(due)
  PROVE  /\ \A r : With(due, r) # {} => \E i \in 1..Len(due) : due[i].user = r
         /\ \A i \in 1..Len(due) : due[i] \in Turn /\ With(due, due[i].user) = {i}
<1>1. DOMAIN due = 1..Len(due) /\ Len(due) \in Nat /\ \A i \in 1..Len(due) : due[i] \in Turn
  BY LenProperties, ElementOfSeq DEF InOrder
<1>2. \A i \in 1..Len(due) : due[i].user \in Nat
  BY <1>1, TurnRows
<1>3. ASSUME NEW i \in 1..Len(due), NEW j \in 1..Len(due), due[i].user = due[j].user PROVE i = j
  <2>1. i < j => due[i].user < due[j].user
    BY DEF InOrder
  <2>2. j < i => due[j].user < due[i].user
    BY DEF InOrder
  <2> QED
    BY <1>1, <1>2, <1>3, <2>1, <2>2
<1> QED
  BY <1>1, <1>3 DEF With

LEMMA ExpectedRows ==
  ASSUME NEW due, InOrder(due), NEW held \in [Rows -> Nat]
  PROVE  /\ Expected(due, held) \in [Rows -> Nat]
         /\ \A r \in Rows : With(due, r) = {} => Expected(due, held)[r] = held[r]
         /\ \A i \in 1..Len(due) : /\ due[i].user \in Rows
                                   /\ Expected(due, held)[due[i].user] = due[i].spent
<1>1. \A i \in 1..Len(due) : due[i] \in Turn /\ With(due, due[i].user) = {i}
  BY WithOne
<1>2. \A i \in 1..Len(due) : due[i].user \in Rows /\ due[i].spent \in Nat
  BY <1>1, SpanRows
<1>3. \A i \in 1..Len(due) : (CHOOSE j \in With(due, due[i].user) : TRUE) = i
  BY <1>1
<1>4. ASSUME NEW r \in Rows
      PROVE  (IF With(due, r) = {} THEN held[r]
              ELSE due[CHOOSE i \in With(due, r) : TRUE].spent) \in Nat
  <2>1. CASE With(due, r) = {}
    BY <2>1
  <2>2. CASE With(due, r) # {}
    <3>1. PICK i \in 1..Len(due) : due[i].user = r
      BY <2>2, WithOne
    <3> QED
      BY <1>2, <1>3, <2>2, <3>1
  <2> QED
    BY <2>1, <2>2
<1>5. Expected(due, held) \in [Rows -> Nat]
  BY <1>4 DEF Expected
<1>6. \A i \in 1..Len(due) : Expected(due, held)[due[i].user] = due[i].spent
  BY <1>1, <1>2, <1>3 DEF Expected
<1> QED
  BY <1>2, <1>5, <1>6 DEF Expected

\* A row of none of the turns counts nothing.
LEMMA OutsideZero ==
  ASSUME NEW turns, NEW due, InOrder(due), NEW held \in [Rows -> Nat], Sound(turns, due, held),
         NEW r \in Rows, \A k \in 1..Len(turns) : r \notin Span(turns[k])
  PROVE  Expected(due, held)[r] = 0
<1>1. With(due, r) = {} /\ ~(held[r] > 0) /\ held[r] \in Nat
  BY DEF Sound
<1> QED
  BY <1>1, ExpectedRows

\* The agent's steps keep that.
LEMMA SoundBecomes ==
  ASSUME NEW turns, NEW u \in Seq(Turn), NEW now \in Nat, NEW later \in Nat, now = clock,
         TurnsBy(turns, now), TurnsBy(u, later), Becomes(turns, u, later),
         NEW due, InOrder(due), NEW held \in [Rows -> Nat], Sound(turns, due, held)
  PROVE  Sound(u, due, held)
<1> DEFINE e == Expected(due, held)
           n == Len(turns)
           Fits(t) == Total(e, Span(t)) <= t.spent
<1>1. e \in [Rows -> Nat]
  BY ExpectedRows
<1>2. /\ n \in Nat /\ \A k \in 1..n : turns[k] \in Turn /\ turns[k].last <= now
      /\ \A k \in 1..n : turns[k].user \in Nat /\ turns[k].last \in Nat /\ turns[k].spent \in Nat
                         /\ turns[k].user <= turns[k].last
      /\ \A j, k \in 1..n : j < k => turns[j].last < turns[k].user
  <2>1. n \in Nat /\ \A k \in 1..n : turns[k] \in Turn
    BY LenProperties, ElementOfSeq DEF TurnsBy
  <2>2. \A k \in 1..n : turns[k].user \in Nat /\ turns[k].last \in Nat /\ turns[k].spent \in Nat
    BY <2>1, TurnRows, SpanRows
  <2> QED
    BY <2>1, <2>2 DEF TurnsBy, RowsOf
<1>3. \A k \in 1..n : Fits(turns[k]) /\ Span(turns[k]) \in SUBSET Rows
  BY <1>2, SpanRows DEF Sound
<1>4. ASSUME NEW r \in Rows, \A k \in 1..n : r \notin Span(turns[k]) PROVE e[r] = 0
  BY <1>4, OutsideZero
<1>5. \A r \in Rows : held[r] > 0 \/ With(due, r) # {} => \E k \in 1..n : r \in Span(turns[k])
  BY DEF Sound
<1>6. \A i \in 1..Len(due) : held[due[i].user] <= due[i].spent
  BY DEF Sound
<1> HIDE DEF e
<1>7. CASE Begins(turns, u, later)
  <2>1. PICK t \in Turn :
          /\ Len(u) = n + 1 /\ u[n + 1] = t
          /\ \A k \in 1..n : u[k] = turns[k]
          /\ t.user = later /\ t.last = later /\ later = now + 1
    BY <1>7 DEF Begins
  <2>2. Total(e, Span(t)) = 0
    <3>1. Span(t) \in SUBSET Rows /\ \A r \in Span(t) : r = later
      BY <2>1, SpanRows DEF Span
    <3>2. \A k \in 1..n : later \notin Span(turns[k])
      BY <1>2, <2>1 DEF Span
    <3>3. \A r \in Span(t) : e[r] = 0
      BY <1>4, <3>1, <3>2
    <3> QED
      BY <1>1, <3>1, <3>3, TotalZero
  <2>3. Fits(t)
    BY <2>2, SpanRows
  <2>4. \A k \in 1..Len(u) : k = n + 1 \/ k \in 1..n
    BY <1>2, <2>1
  <2>5. \A k \in 1..Len(u) : Fits(u[k])
    BY <1>3, <2>1, <2>3, <2>4
  <2>6. \A k \in 1..n : k \in 1..Len(u) /\ u[k] = turns[k]
    BY <1>2, <2>1
  <2> QED
    BY <1>5, <1>6, <2>5, <2>6 DEF Sound, e
<1>8. CASE GoesOn(turns, u, later)
  <2>1. PICK i \in 1..n, t \in Turn :
          /\ Len(u) = n /\ \A k \in 1..n : u[k] = IF k = i THEN t ELSE turns[k]
          /\ Continues(turns, i, t, later)
    BY <1>8 DEF GoesOn
  <2>2. /\ t.user = turns[i].user /\ turns[i].spent <= t.spent /\ t.spent \in Nat /\ t.last \in Nat
        /\ t.last = turns[i].last \/ (i = n /\ t.last = later /\ later > now)
    BY <2>1, SpanRows, TurnRows DEF Continues
  <2>3. Span(turns[i]) \subseteq Span(t)
    BY <1>2, <2>2 DEF Span
  <2>4. Total(e, Span(t)) = Total(e, Span(turns[i]))
    <3> DEFINE new == Span(t) \ Span(turns[i])
    <3>1. \A r \in new : \A k \in 1..n : r \notin Span(turns[k])
      BY <1>2, <2>2 DEF Span
    <3>2. Span(t) \in SUBSET Rows /\ new \in SUBSET Rows
      BY SpanRows
    <3>3. \A r \in new : e[r] = 0
      BY <1>4, <3>1, <3>2
    <3>4. Total(e, new) = 0
      BY <1>1, <3>2, <3>3, TotalZero
    <3>5. Span(t) = Span(turns[i]) \cup new /\ Span(turns[i]) \cap new = {}
      BY <2>3
    <3>6. Total(e, Span(t)) = Total(e, Span(turns[i])) + Total(e, new)
      <4> DEFINE old == Span(turns[i])
      <4>1. old \in SUBSET Rows /\ old \cap new = {} /\ Span(t) = old \cup new
        BY <1>3, <3>5
      <4> HIDE DEF new, old
      <4>2. Total(e, old \cup new) = Total(e, old) + Total(e, new)
        BY <1>1, <3>2, <4>1, TotalUnion
      <4> QED
        BY <4>1, <4>2 DEF old
    <3>7. Total(e, Span(turns[i])) \in Nat
      BY <1>1, <1>3, TotalType
    <3> QED
      BY <3>4, <3>6, <3>7
  <2>5. Fits(t)
    <3>1. Total(e, Span(turns[i])) \in Nat /\ Fits(turns[i])
      BY <1>1, <1>3, TotalType
    <3> QED
      BY <1>2, <2>2, <2>4, <3>1
  <2>6. \A k \in 1..Len(u) : Fits(u[k])
    BY <1>3, <2>1, <2>5
  <2>7. \A k \in 1..n : k \in 1..Len(u) /\ Span(turns[k]) \subseteq Span(u[k])
    BY <2>1, <2>3
  <2> QED
    BY <1>5, <1>6, <2>6, <2>7 DEF Sound, e
<1>9. CASE BecomeOne(turns, u)
  <2>1. PICK i \in 1..(n - 1), t \in Turn :
          /\ Len(u) = n - 1
          /\ \A k \in 1..(n - 1) :
                 u[k] = IF k < i THEN turns[k] ELSE IF k = i THEN t ELSE turns[k + 1]
          /\ t.user = turns[i].user /\ t.last = turns[i + 1].last
          /\ t.spent = turns[i].spent + turns[i + 1].spent
    BY <1>9 DEF BecomeOne
  <2> DEFINE a == Span(turns[i])
             b == Span(turns[i + 1])
             gap == Span(t) \ (a \cup b)
  <2>2. /\ i \in 1..n /\ i + 1 \in 1..n /\ i < i + 1
        /\ turns[i].last < turns[i + 1].user
    BY <1>2
  <2>3. a \subseteq Span(t) /\ b \subseteq Span(t) /\ a \cap b = {}
    <3> DEFINE p == turns[i]
               q == turns[i + 1]
    <3>1. /\ p.user \in Nat /\ p.last \in Nat /\ q.user \in Nat /\ q.last \in Nat
          /\ p.user <= p.last /\ q.user <= q.last /\ p.last < q.user
      BY <1>2, <2>2
    <3>2. t.user = p.user /\ t.last = q.last
      BY <2>1
    <3> HIDE DEF p, q
    <3>3. Span(p) \subseteq Span(t)
      BY <3>1, <3>2 DEF Span
    <3>4. Span(q) \subseteq Span(t)
      BY <3>1, <3>2 DEF Span
    <3>5. Span(p) \cap Span(q) = {}
      BY <3>1 DEF Span
    <3> QED
      BY <3>3, <3>4, <3>5 DEF p, q
  <2>4. Total(e, gap) = 0
    <3>1. \A r \in gap : \A k \in 1..n : r \notin Span(turns[k])
      <4> SUFFICES ASSUME NEW r \in gap, NEW k \in 1..n, r \in Span(turns[k]) PROVE FALSE
        OBVIOUS
      <4>1. k < i \/ k = i \/ k = i + 1 \/ i + 1 < k
        BY <1>2
      <4>2. k < i => turns[k].last < turns[i].user
        BY <1>2, <2>2
      <4>3. i + 1 < k => turns[i + 1].last < turns[k].user
        BY <1>2, <2>2
      <4>4. /\ turns[k].user <= r /\ r <= turns[k].last
            /\ turns[i].user <= r /\ r <= turns[i + 1].last
        BY <2>1 DEF Span
      <4>5. r \notin turns[i].user .. turns[i].last /\ r \notin turns[i + 1].user .. turns[i + 1].last
        BY DEF Span
      <4>6. r \in Nat /\ turns[k].last \in Nat /\ turns[k].user \in Nat
        BY <1>2 DEF Span
      <4>7. turns[i].user \in Nat /\ turns[i + 1].last \in Nat
        BY <1>2, <2>2
      <4>8. CASE k < i
        <5> DEFINE x == turns[k].last
                   y == turns[i].user
        <5>1. x < y /\ y <= r /\ r <= x /\ x \in Nat /\ y \in Nat /\ r \in Nat
          BY <4>2, <4>4, <4>6, <4>7, <4>8
        <5> HIDE DEF x, y
        <5> QED
          BY <5>1, SMTT(30)
      <4>9. CASE i + 1 < k
        <5> DEFINE x == turns[i + 1].last
                   y == turns[k].user
        <5>1. x < y /\ y <= r /\ r <= x /\ x \in Nat /\ y \in Nat /\ r \in Nat
          BY <4>3, <4>4, <4>6, <4>7, <4>9
        <5> HIDE DEF x, y
        <5> QED
          BY <5>1, SMTT(30)
      <4>10. CASE k = i \/ k = i + 1
        BY <4>4, <4>5, <4>6, <4>10
      <4> QED
        BY <4>1, <4>8, <4>9, <4>10
    <3>2. gap \in SUBSET Rows
      BY SpanRows
    <3>3. \A r \in gap : e[r] = 0
      BY <1>4, <3>1, <3>2
    <3> QED
      BY <1>1, <3>2, <3>3, TotalZero
  <2>5. Total(e, Span(t)) = Total(e, a) + Total(e, b)
    <3>1. a \in SUBSET Rows /\ b \in SUBSET Rows /\ gap \in SUBSET Rows /\ a \cup b \in SUBSET Rows
      BY <1>3, <2>2, SpanRows
    <3>2. Span(t) = (a \cup b) \cup gap /\ (a \cup b) \cap gap = {}
      BY <2>3
    <3> HIDE DEF a, b, gap
    <3>3. Total(e, a \cup b) = Total(e, a) + Total(e, b)
      BY <1>1, <2>3, <3>1, TotalUnion
    <3>4. Total(e, (a \cup b) \cup gap) = Total(e, a \cup b) + Total(e, gap)
      BY <1>1, <3>1, <3>2, TotalUnion
    <3>5. Total(e, a) \in Nat /\ Total(e, b) \in Nat
      BY <1>1, <3>1, TotalType
    <3> QED
      BY <2>4, <3>2, <3>3, <3>4, <3>5
  <2>6. Fits(t)
    <3>1. Total(e, a) \in Nat /\ Total(e, b) \in Nat /\ Fits(turns[i]) /\ Fits(turns[i + 1])
      BY <1>1, <1>3, <2>2, TotalType
    <3> QED
      BY <1>2, <2>1, <2>2, <2>5, <3>1
  <2>7. \A k \in 1..Len(u) : Fits(u[k])
    <3>1. \A k \in 1..(n - 1) : k \in 1..n /\ k + 1 \in 1..n
      BY <1>2
    <3> QED
      BY <1>3, <2>1, <2>6, <3>1
  <2>8. ASSUME NEW k \in 1..n PROVE \E j \in 1..Len(u) : Span(turns[k]) \subseteq Span(u[j])
    <3>1. CASE k < i
      <4>1. k \in 1..(n - 1) /\ u[k] = turns[k]
        BY <1>2, <2>1, <3>1
      <4> QED
        BY <2>1, <4>1
    <3>2. CASE k = i \/ k = i + 1
      BY <2>1, <2>3, <3>2
    <3>3. CASE i + 1 < k
      <4>1. k - 1 \in 1..(n - 1) /\ ~(k - 1 < i) /\ k - 1 # i /\ (k - 1) + 1 = k
        BY <1>2, <3>3
      <4>2. u[k - 1] = turns[k]
        BY <2>1, <4>1
      <4> QED
        BY <2>1, <4>1, <4>2
    <3> QED
      BY <1>2, <3>1, <3>2, <3>3
  <2> QED
    BY <1>5, <1>6, <2>7, <2>8 DEF Sound, e
<1> QED
  BY <1>7, <1>8, <1>9 DEF Becomes

\* Fewer turns due, or turns counted for no more than their tokens, keep it as well.
LEMMA SoundLess ==
  ASSUME NEW turns, NEW now \in Nat, TurnsBy(turns, now),
         NEW due, InOrder(due), NEW held \in [Rows -> Nat], Sound(turns, due, held),
         NEW less, InOrder(less), NEW more \in [Rows -> Nat],
         \A i \in 1..Len(less) : \E j \in 1..Len(due) :
             less[i].user = due[j].user /\ less[i].spent = due[j].spent,
         \A r \in Rows : \/ more[r] = held[r]
                         \/ \E j \in 1..Len(due) : due[j].user = r /\ more[r] <= due[j].spent
  PROVE  Sound(turns, less, more)
<1>1. /\ Expected(due, held) \in [Rows -> Nat] /\ Expected(less, more) \in [Rows -> Nat]
      /\ \A k \in 1..Len(turns) : turns[k].spent \in Nat /\ Span(turns[k]) \in SUBSET Rows
  <2>1. \A k \in 1..Len(turns) : turns[k] \in Turn
    BY LenProperties, ElementOfSeq DEF TurnsBy
  <2> QED
    BY <2>1, ExpectedRows, SpanRows
<1>7. /\ \A r : With(less, r) # {} => \E j \in 1..Len(due) : due[j].user = r
      /\ \A r : With(due, r) # {} <=> \E j \in 1..Len(due) : due[j].user = r
  <2>1. \A r : With(less, r) # {} => \E i \in 1..Len(less) : less[i].user = r
    BY WithOne
  <2>2. \A r : With(due, r) # {} => \E j \in 1..Len(due) : due[j].user = r
    BY WithOne
  <2>3. \A j \in 1..Len(due) : With(due, due[j].user) = {j}
    BY WithOne
  <2>4. \A j \in 1..Len(due) : With(due, due[j].user) # {}
    BY <2>3
  <2>5. \A r : (\E j \in 1..Len(due) : due[j].user = r) => With(due, r) # {}
    BY <2>4
  <2>6. ASSUME NEW r, With(less, r) # {} PROVE \E j \in 1..Len(due) : due[j].user = r
    <3>1. PICK i \in 1..Len(less) : less[i].user = r
      BY <2>1, <2>6
    <3> QED
      BY <3>1
  <2>7. \A r : With(due, r) # {} <=> \E j \in 1..Len(due) : due[j].user = r
    BY <2>2, <2>5
  <2> QED
    BY <2>6, <2>7
<1>8. /\ \A r \in Rows : With(less, r) = {} => Expected(less, more)[r] = more[r]
      /\ \A i \in 1..Len(less) : Expected(less, more)[less[i].user] = less[i].spent
      /\ \A r \in Rows : With(due, r) = {} => Expected(due, held)[r] = held[r]
  <2>1. ASSUME NEW r \in Rows, With(less, r) = {} PROVE Expected(less, more)[r] = more[r]
    BY <2>1, Zenon DEF Expected
  <2>2. \A i \in 1..Len(less) : Expected(less, more)[less[i].user] = less[i].spent
    BY ExpectedRows, SMTT(30)
  <2>3. ASSUME NEW r \in Rows, With(due, r) = {} PROVE Expected(due, held)[r] = held[r]
    BY <2>3, Zenon DEF Expected
  <2> QED
    BY <2>1, <2>2, <2>3
<1>2. ASSUME NEW j \in 1..Len(due)
      PROVE  /\ due[j].user \in Rows /\ more[due[j].user] <= due[j].spent
             /\ Expected(due, held)[due[j].user] = due[j].spent
  <2>1. due[j].user \in Rows /\ Expected(due, held)[due[j].user] = due[j].spent
    BY ExpectedRows, SMTT(30)
  <2>2. held[due[j].user] <= due[j].spent
    BY DEF Sound
  <2>3. \A i \in 1..Len(due) : due[i].user = due[j].user => i = j
    <3>1. \A i \in 1..Len(due) : With(due, due[i].user) = {i}
      BY WithOne
    <3> QED
      BY <3>1
  <2> QED
    BY <2>1, <2>2, <2>3
<1>3. \A i \in 1..Len(less) : more[less[i].user] <= less[i].spent
  BY <1>2
<1>4. ASSUME NEW r \in Rows, more[r] > 0 \/ With(less, r) # {}
      PROVE  \E k \in 1..Len(turns) : r \in Span(turns[k])
  <2>1. CASE \E j \in 1..Len(due) : due[j].user = r
    <3>1. With(due, r) # {}
      BY <1>7, <2>1
    <3> QED
      BY <3>1 DEF Sound
  <2>2. CASE ~ \E j \in 1..Len(due) : due[j].user = r
    <3>1. With(less, r) = {} /\ more[r] = held[r]
      BY <1>7, <2>2
    <3> QED
      BY <1>4, <3>1 DEF Sound
  <2> QED
    BY <2>1, <2>2
<1>5. ASSUME NEW r \in Rows PROVE Expected(less, more)[r] <= Expected(due, held)[r]
  <2>1. CASE \E j \in 1..Len(due) : due[j].user = r
    <3>1. PICK j \in 1..Len(due) : due[j].user = r
      BY <2>1
    <3>2. CASE With(less, r) = {}
      <4>1. Expected(less, more)[r] = more[r]
        BY <1>8, <3>2
      <4> QED
        BY <1>2, <3>1, <4>1
    <3>3. CASE With(less, r) # {}
      <4>1. PICK i \in 1..Len(less) : less[i].user = r
        BY <3>3, WithOne
      <4>2. PICK k \in 1..Len(due) : less[i].user = due[k].user /\ less[i].spent = due[k].spent
        OBVIOUS
      <4>3. Expected(less, more)[r] = less[i].spent /\ Expected(due, held)[r] = due[k].spent
        BY <1>2, <1>8, <4>1, <4>2
      <4>4. Expected(due, held)[r] \in Nat
        BY <1>1
      <4> QED
        BY <4>2, <4>3, <4>4
    <3> QED
      BY <3>2, <3>3
  <2>2. CASE ~ \E j \in 1..Len(due) : due[j].user = r
    <3>1. With(less, r) = {} /\ more[r] = held[r] /\ With(due, r) = {} /\ held[r] \in Nat
      BY <1>7, <2>2
    <3> QED
      BY <1>8, <3>1
  <2> QED
    BY <2>1, <2>2
<1>6. ASSUME NEW k \in 1..Len(turns)
      PROVE  Total(Expected(less, more), Span(turns[k])) <= turns[k].spent
  <2> DEFINE S == Span(turns[k])
             e == Expected(due, held)
             f == Expected(less, more)
  <2>1. S \in SUBSET Rows /\ e \in [Rows -> Nat] /\ f \in [Rows -> Nat] /\ turns[k].spent \in Nat
    BY <1>1
  <2>2. Total(e, S) <= turns[k].spent /\ \A r \in S : f[r] <= e[r]
    BY <1>1, <1>5 DEF Sound
  <2> HIDE DEF S, e, f
  <2>3. Total(f, S) <= Total(e, S) /\ Total(f, S) \in Nat /\ Total(e, S) \in Nat
    BY <2>1, <2>2, TotalAtMost, TotalType
  <2>4. Total(f, S) <= turns[k].spent
    BY <2>1, <2>2, <2>3
  <2> QED
    BY <2>4 DEF S, f
<1> QED
  BY <1>3, <1>4, <1>6 DEF Sound

\* Reading a conversation past its watermark keeps it, if nothing was counted past the prompt
\* of a turn that is read, and at its prompt no more than its tokens.
LEMMA SoundExport ==
  ASSUME NEW turns, NEW now \in Nat, TurnsBy(turns, now),
         NEW held \in [Rows -> Nat], Sound(turns, <<>>, held),
         NEW m \in Nat \ {0}, NEW due, due = SubSeq(turns, m, Len(turns)),
         \A k \in m..Len(turns) :
             /\ held[turns[k].user] <= turns[k].spent
             /\ \A r \in Span(turns[k]) : r # turns[k].user => held[r] = 0
  PROVE  InOrder(due) /\ Sound(turns, due, held)
<1> DEFINE n == Len(turns)
           e == Expected(due, held)
<1>1. /\ n \in Nat /\ \A k \in 1..n : turns[k] \in Turn /\ Span(turns[k]) \in SUBSET Rows
      /\ \A k \in 1..n : turns[k].user \in Nat /\ turns[k].last \in Nat /\ turns[k].spent \in Nat
                         /\ turns[k].user <= turns[k].last
      /\ \A j, k \in 1..n : j < k => turns[j].last < turns[k].user
  <2>1. n \in Nat /\ \A k \in 1..n : turns[k] \in Turn
    BY LenProperties, ElementOfSeq DEF TurnsBy
  <2>2. \A k \in 1..n : turns[k].user \in Nat /\ turns[k].last \in Nat /\ turns[k].spent \in Nat
    BY <2>1, TurnRows, SpanRows
  <2> QED
    BY <2>1, <2>2, SpanRows DEF TurnsBy, RowsOf
<1>2. TurnsBy(due, now)
  <2>1. n \in Nat /\ n <= Len(turns) /\ turns \in Seq(Turn)
    BY <1>1 DEF TurnsBy
  <2> QED
    BY <2>1, Segment
<1>3. InOrder(due)
  BY <1>2, UsersInOrder DEF InOrder, TurnsBy
<1>4. /\ Len(due) = IF m <= n THEN n - m + 1 ELSE 0
      /\ \A k \in 1..(n - m + 1) : due[k] = turns[m + k - 1]
  <2>1. m \in Int /\ n \in Int /\ \A k \in m..n : turns[k] \in Turn
    BY <1>1
  <2> QED
    BY <2>1, SubSeqProperties
<1>5. \A i \in 1..Len(due) : m + i - 1 \in m..n /\ m + i - 1 \in 1..n /\ due[i] = turns[m + i - 1]
  BY <1>1, <1>4
<1>6. \A k \in m..n : k - m + 1 \in 1..Len(due) /\ due[k - m + 1] = turns[k]
  BY <1>1, <1>4
<1>7. Expected(<<>>, held) = held
  <2>1. InOrder(<<>>)
    BY EmptySeq DEF InOrder
  <2>2. \A r : With(<<>>, r) = {}
    BY <2>1, WithOne
  <2>3. Expected(<<>>, held) \in [Rows -> Nat] /\ \A r \in Rows : Expected(<<>>, held)[r] = held[r]
    BY <2>1, <2>2, ExpectedRows
  <2> QED
    BY <2>3
<1>11. /\ \A r \in Rows : With(due, r) = {} => e[r] = held[r]
       /\ \A i \in 1..Len(due) : e[due[i].user] = due[i].spent
  <2> HIDE DEF e
  <2>1. \A r \in Rows : With(due, r) = {} => Expected(due, held)[r] = held[r]
    BY <1>3, ExpectedRows
  <2>2. \A i \in 1..Len(due) : Expected(due, held)[due[i].user] = due[i].spent
    BY <1>3, ExpectedRows
  <2> QED
    BY <2>1, <2>2 DEF e
<1> HIDE DEF n
<1>8. \A i \in 1..Len(due) : held[due[i].user] <= due[i].spent
  BY <1>5 DEF n
<1>9. ASSUME NEW r \in Rows, held[r] > 0 \/ With(due, r) # {}
      PROVE  \E k \in 1..n : r \in Span(turns[k])
  <2>1. CASE held[r] > 0
    BY <2>1 DEF Sound, n
  <2>2. CASE With(due, r) # {}
    <3>1. PICK i \in 1..Len(due) : due[i].user = r
      BY <1>3, <2>2, WithOne
    <3>2. m + i - 1 \in 1..n /\ turns[m + i - 1].user = r
      BY <1>5, <3>1
    <3>3. \A k \in 1..n : turns[k].user \in Span(turns[k])
      BY <1>1 DEF Span
    <3> QED
      BY <3>2, <3>3
  <2> QED
    BY <1>9, <2>1, <2>2
<1>10. ASSUME NEW k \in 1..n PROVE Total(e, Span(turns[k])) <= turns[k].spent
  <2>1. e \in [Rows -> Nat]
    BY <1>3, ExpectedRows
  <2>2. ASSUME NEW r \in Span(turns[k]), With(due, r) # {} PROVE k \in m..n /\ r = turns[k].user
    <3>1. PICK i \in 1..Len(due) : due[i].user = r
      BY <1>3, <2>2, WithOne
    <3>2. m + i - 1 \in m..n /\ m + i - 1 \in 1..n /\ turns[m + i - 1].user = r
      BY <1>5, <3>1
    <3>3. m + i - 1 < k => turns[m + i - 1].last < turns[k].user
      BY <1>1, <3>2
    <3>4. k < m + i - 1 => turns[k].last < turns[m + i - 1].user
      BY <1>1, <3>2
    <3>5. m + i - 1 = k
      BY <1>1, <3>2, <3>3, <3>4 DEF Span
    <3> QED
      BY <3>2, <3>5
  <2>3. CASE k \in m..n
    <3>1. e[turns[k].user] = turns[k].spent
      <4> DEFINE i == k - m + 1
      <4>1. i \in 1..Len(due) /\ due[i] = turns[k]
        BY <1>6, <2>3
      <4> HIDE DEF i, e
      <4>2. e[due[i].user] = due[i].spent
        BY <1>11, <4>1
      <4> QED
        BY <4>1, <4>2
    <3>2. ASSUME NEW r \in Span(turns[k]), r # turns[k].user PROVE e[r] = 0
      <4>1. With(due, r) = {} /\ r \in Rows /\ held[r] = 0
        BY <1>1, <2>2, <2>3, <3>2 DEF n
      <4> QED
        BY <1>11, <4>1
    <3>3. turns[k].user \in Span(turns[k]) /\ Span(turns[k]) \in SUBSET Rows
      BY <1>1 DEF Span
    <3>4. Total(e, Span(turns[k])) = e[turns[k].user]
      BY <2>1, <3>2, <3>3, TotalOne
    <3> QED
      BY <1>1, <3>1, <3>4
  <2>4. CASE k \notin m..n
    <3>1. \A r \in Span(turns[k]) : e[r] <= held[r]
      <4> SUFFICES ASSUME NEW r \in Span(turns[k]) PROVE e[r] <= held[r]
        OBVIOUS
      <4>1. With(due, r) = {} /\ r \in Rows
        BY <1>1, <2>2, <2>4
      <4>2. e[r] = held[r] /\ held[r] \in Nat
        BY <1>11, <4>1
      <4> QED
        BY <4>2
    <3>2. Total(held, Span(turns[k])) <= turns[k].spent
      BY <1>7 DEF Sound, n
    <3>3. Span(turns[k]) \in SUBSET Rows
      BY <1>1
    <3> HIDE DEF e
    <3>4. /\ Total(e, Span(turns[k])) <= Total(held, Span(turns[k]))
          /\ Total(e, Span(turns[k])) \in Nat /\ Total(held, Span(turns[k])) \in Nat
      BY <2>1, <3>1, <3>3, TotalAtMost, TotalType
    <3> QED
      BY <1>1, <3>2, <3>4
  <2> QED
    BY <2>3, <2>4
<1> QED
  BY <1>3, <1>8, <1>9, <1>10 DEF Sound, e, n

\* The capture is of conversation c; the steps of it that leave something half done.
Mine(c) == step # "idle" /\ job.conv = c
Counting == {"counted", "recorded", "cleared", "marked"}

\* The turns of a conversation that a capture has read and not yet done with, and what counts
\* of a conversation: what is in the commits, and what the next record adds.
Due(c) ==
    IF ~Mine(c) THEN <<>>
    ELSE IF step = "parsed" THEN TurnsAfter(job.turns, job.mark, marks[c].at) ELSE job.turns
Held(c) ==
    [r \in Rows |-> IF step = "counted" THEN recorded[c][r] + pending[c][r] ELSE recorded[c][r]]

\* Tokens are pending only while a record is being made, and of its conversation.
PendingInCapture ==
    \A c \in Convs, r \in Rows :
        pending[c][r] > 0 => Mine(c) /\ step \in {"counted", "recorded"}

\* What counts was prompted at the watermark or before, or is just being recorded.
HeldBehindMark ==
    \A c \in Convs, r \in Rows :
        Held(c)[r] > 0 =>
            \/ r <= marks[c].id
            \/ /\ Mine(c) /\ step \in {"counted", "recorded", "cleared"}
               /\ \E i \in 1..Len(job.turns) : job.turns[i].user = r

\* What counts at the watermark itself is that of the turn captured mid-flight.
HeldAtMark ==
    /\ \A c \in Convs, r \in Rows :
          r = marks[c].id /\ Held(c)[r] > 0 /\ ~(Mine(c) /\ step \in Counting) =>
              captured.user = r /\ Held(c)[r] <= captured.spent
    /\ step = "marked" => marks[job.conv].id = Last(job.turns).user

\* A turn never has fewer tokens than it was captured with, or read with.
CapturedStands ==
    /\ captured.user <= clock
    /\ \A c \in Convs : \A i \in 1..Len(transcript[c]) :
          transcript[c][i].user = captured.user => captured.spent <= transcript[c][i].spent

ReadStands ==
    \A c \in Convs : Mine(c) =>
        \A i \in 1..Len(job.turns), k \in 1..Len(transcript[c]) :
            transcript[c][k].user = job.turns[i].user => job.turns[i].spent <= transcript[c][k].spent

\* A row is the prompt of one conversation only.
PromptOf(c, r) ==
    \/ Held(c)[r] > 0
    \/ \E i \in 1..Len(transcript[c]) : transcript[c][i].user = r
    \/ Mine(c) /\ \E i \in 1..Len(job.turns) : job.turns[i].user = r

PromptsApart ==
    \A a, b \in Convs, r \in Rows : PromptOf(a, r) /\ PromptOf(b, r) => a = b

AllSound == \A c \in Convs : Sound(transcript[c], Due(c), Held(c))

OnceInv ==
    /\ MarkInv
    /\ PendingInCapture
    /\ HeldBehindMark
    /\ HeldAtMark
    /\ CapturedStands
    /\ ReadStands
    /\ PromptsApart
    /\ AllSound

\* Its types.
LEMMA OnceTypes ==
  ASSUME MarkInv
  PROVE  /\ clock \in Nat /\ \A r \in Rows : r \in Nat
         /\ captured.user \in Nat /\ captured.spent \in Nat
         /\ \A c \in Convs : /\ Held(c) \in [Rows -> Nat]
                             /\ marks[c].id \in Nat /\ marks[c].at \in Nat
                             /\ \A r \in Rows : recorded[c][r] \in Nat /\ pending[c][r] \in Nat
                             /\ TurnsBy(transcript[c], clock) /\ transcript[c] \in Seq(Turn)
                             /\ \A i \in 1..Len(transcript[c]) : transcript[c][i] \in Turn
<1>1. /\ clock \in Nat /\ \A r \in Rows : r \in Nat
      /\ captured.user \in Nat /\ captured.spent \in Nat
      /\ \A c \in Convs : /\ marks[c].id \in Nat /\ marks[c].at \in Nat
                          /\ \A r \in Rows : recorded[c][r] \in Nat /\ pending[c][r] \in Nat
  BY BoundsAssumption DEF MarkInv, StretchInv, TypeInv, TypeOK, Rows
<1>2. \A c \in Convs : Held(c) \in [Rows -> Nat]
  BY <1>1 DEF Held
<1>3. \A c \in Convs : TurnsBy(transcript[c], clock) /\ transcript[c] \in Seq(Turn)
  BY DEF MarkInv, StretchInv, TurnsInOrder, TurnsBy
<1>4. \A c \in Convs : \A i \in 1..Len(transcript[c]) : transcript[c][i] \in Turn
  BY <1>3, ElementOfSeq
<1> QED
  BY <1>1, <1>2, <1>3, <1>4

LEMMA CaptureTurns ==
  ASSUME MarkInv, step # "idle"
  PROVE  /\ job.conv \in Convs /\ TurnsBy(job.turns, clock) /\ InOrder(job.turns)
         /\ \A i \in 1..Len(job.turns) : job.turns[i] \in Turn
<1>1. job.conv \in Convs /\ TurnsBy(job.turns, clock) /\ clock \in Nat
  BY JobType, OnceTypes DEF MarkInv, StretchInv, TypeInv, TurnsInOrder
<1>2. job.turns \in Seq(Turn)
  BY <1>1 DEF TurnsBy
<1>3. InOrder(job.turns)
  BY <1>1, <1>2, UsersInOrder DEF InOrder
<1> QED
  BY <1>1, <1>2, <1>3, ElementOfSeq

\* What is due is a segment of what was read.
LEMMA DueFromRead ==
  ASSUME MarkInv, NEW c \in Convs
  PROVE  /\ InOrder(Due(c))
         /\ \A i \in 1..Len(Due(c)) :
                Mine(c) /\ \E j \in 1..Len(job.turns) : Due(c)[i] = job.turns[j]
<1>1. InOrder(<<>>) /\ Len(<<>>) = 0
  BY EmptySeq DEF InOrder
<1>2. CASE ~Mine(c)
  BY <1>1, <1>2 DEF Due
<1>3. CASE Mine(c) /\ step # "parsed"
  BY <1>3, CaptureTurns DEF Due, Mine
<1>4. CASE Mine(c) /\ step = "parsed"
  <2> DEFINE turns == job.turns
             due == TurnsAfter(turns, job.mark, marks[c].at)
  <2>1. Due(c) = due
    BY <1>4 DEF Due
  <2>2. turns \in Seq(Turn) /\ TurnsBy(turns, clock) /\ clock \in Nat
    BY <1>4, CaptureTurns, OnceTypes DEF Mine, InOrder
  <2>3. PICK m \in Nat \ {0} : due = SubSeq(turns, m, Len(turns))
    BY <2>2, ExportIsSegment
  <2>4. Len(turns) \in Nat /\ \A k \in m..Len(turns) : turns[k] \in Turn
    BY <2>2, <2>3, LenProperties, ElementOfSeq
  <2>5. TurnsBy(due, clock)
    BY <2>2, <2>3, <2>4, Segment
  <2>6. InOrder(due)
    BY <2>2, <2>5, UsersInOrder DEF InOrder, TurnsBy
  <2>7. /\ Len(due) = IF m <= Len(turns) THEN Len(turns) - m + 1 ELSE 0
        /\ \A k \in 1..(Len(turns) - m + 1) : due[k] = turns[m + k - 1]
    BY <2>3, <2>4, SubSeqProperties
  <2>8. \A k \in 1..Len(due) : m + k - 1 \in 1..Len(turns) /\ due[k] = turns[m + k - 1]
    BY <2>4, <2>7
  <2> HIDE DEF due
  <2> QED
    BY <1>4, <2>1, <2>6, <2>8
<1> QED
  BY <1>2, <1>3, <1>4

\* Nothing counts more than once in such a state.
LEMMA SoundCountsOnce ==
  ASSUME OnceInv PROVE CountedOnce
<1> SUFFICES ASSUME NEW c \in Convs, NEW t \in TurnsOf(c) PROVE CountedFor(c, t) <= t.spent
  BY DEF CountedOnce
<1> DEFINE due == Due(c)
           held == Held(c)
           e == Expected(due, held)
           S == Span(t)
<1>1. MarkInv /\ Sound(transcript[c], due, held)
  BY DEF OnceInv, AllSound
<1>2. /\ held \in [Rows -> Nat] /\ InOrder(due) /\ transcript[c] \in Seq(Turn)
      /\ \A r \in Rows : recorded[c][r] \in Nat /\ pending[c][r] \in Nat
  BY <1>1, OnceTypes, DueFromRead
<1>3. PICK k \in 1..Len(transcript[c]) : t = transcript[c][k]
  BY <1>2, LenProperties DEF TurnsOf
<1>4. Total(e, S) <= t.spent
  BY <1>1, <1>3 DEF Sound
<1>5. t \in Turn
  BY <1>2, <1>3, ElementOfSeq
<1>6. S \in SUBSET Rows /\ t.spent \in Nat
  BY <1>5, SpanRows
<1>7. e \in [Rows -> Nat] /\ \A r \in Rows : With(due, r) = {} => e[r] = held[r]
  <2>0. InOrder(due) /\ held \in [Rows -> Nat]
    BY <1>2
  <2> HIDE DEF e, due, held
  <2>1. Expected(due, held) \in [Rows -> Nat]
    BY <2>0, ExpectedRows
  <2>2. \A r \in Rows : With(due, r) = {} => Expected(due, held)[r] = held[r]
    BY <2>0, ExpectedRows
  <2> QED
    BY <2>1, <2>2 DEF e
<1>8. recorded[c] \in [Rows -> Nat]
  BY <1>1 DEF MarkInv, StretchInv, TypeInv, TypeOK
<1>9. ASSUME NEW r \in S PROVE recorded[c][r] <= e[r]
  <2>1. r \in Rows
    BY <1>6
  <2>2. recorded[c][r] <= held[r]
    BY <1>2, <2>1 DEF Held
  <2>3. CASE With(due, r) = {}
    <3>1. e[r] = held[r]
      BY <1>7, <2>1, <2>3
    <3> QED
      BY <2>2, <3>1
  <2>4. CASE With(due, r) # {}
    <3>1. PICK i \in 1..Len(due) : due[i].user = r
      BY <1>2, <2>4, WithOne
    <3>2. e[due[i].user] = due[i].spent
      BY <1>2, ExpectedRows
    <3>3. held[due[i].user] <= due[i].spent
      BY <1>1 DEF Sound
    <3>4. e[r] \in Nat /\ held[r] \in Nat /\ recorded[c][r] \in Nat
      BY <1>2, <1>7, <2>1
    <3> HIDE DEF e, due, held
    <3> QED
      BY <2>2, <3>1, <3>2, <3>3, <3>4
  <2> QED
    BY <2>3, <2>4
<1> HIDE DEF e, S
<1>10. Total(recorded[c], S) <= Total(e, S) /\ Total(recorded[c], S) \in Nat /\ Total(e, S) \in Nat
  BY <1>6, <1>7, <1>8, <1>9, TotalAtMost, TotalType
<1>11. CountedFor(c, t) = Total(recorded[c], S)
  BY CountedIsTotal DEF S, Span
<1> QED
  BY <1>4, <1>6, <1>10, <1>11

\* A step of the agent keeps it.
LEMMA OnceAgent ==
  ASSUME OnceInv, MarkInv', NEW c \in Convs, Agent(c) PROVE OnceInv'
<1>1. MarkInv /\ TypeOK
  BY DEF OnceInv, MarkInv, StretchInv, TypeInv
<1>2. /\ UNCHANGED <<marks, captured, pending, recorded, step, job>>
      /\ \A k \in Convs : Held(k)' = Held(k) /\ Due(k)' = Due(k) /\ (Mine(k)' <=> Mine(k))
  <2>1. UNCHANGED <<marks, captured, pending, recorded, step, job>>
    BY DEF Agent, Prompt, Reply, Interrupt, Delegate, HelperReports, Compact, savedVars,
           trackerVars
  <2> QED
    BY <2>1 DEF Held, Due, Mine
<1>3. clock' \in {clock, clock + 1} /\ clock \in Nat /\ clock <= clock' /\ clock' \in Nat
  BY <1>1, AgentStep, OnceTypes
<1>4. PICK u \in Seq(Turn) :
          /\ transcript' = [transcript EXCEPT ![c] = u]
          /\ Becomes(transcript[c], u, clock')
          /\ TurnsBy(transcript[c], clock) => TurnsBy(u, clock')
  BY <1>1, AgentStep
<1>5. /\ transcript'[c] = u /\ \A k \in Convs : k # c => transcript'[k] = transcript[k]
      /\ TurnsBy(transcript[c], clock) /\ TurnsBy(u, clock')
  BY <1>1, <1>4, OnceTypes DEF TypeOK
<1>6. /\ \A k \in 1..Len(u) :
             \/ u[k].user = clock + 1
             \/ \E j \in 1..Len(transcript[c]) :
                    u[k].user = transcript[c][j].user /\ transcript[c][j].spent <= u[k].spent
  <2> DEFINE turns == transcript[c]
             n == Len(turns)
  <2>1. n \in Nat /\ \A j \in 1..n : turns[j] \in Turn /\ turns[j].spent \in Nat
    BY <1>1, OnceTypes, LenProperties, SpanRows
  <2> HIDE DEF turns, n
  <2> SUFFICES ASSUME NEW k \in 1..Len(u)
               PROVE  \/ u[k].user = clock + 1
                      \/ \E j \in 1..n : u[k].user = turns[j].user /\ turns[j].spent <= u[k].spent
    BY DEF turns, n
  <2>2. CASE Begins(turns, u, clock')
    <3>1. k \in 1..n \/ k = n + 1
      BY <2>1, <2>2 DEF Begins, n
    <3> QED
      BY <2>1, <2>2, <3>1 DEF Begins, n
  <2>3. CASE GoesOn(turns, u, clock')
    <3>1. PICK i \in 1..n, t \in Turn :
            /\ Len(u) = n
            /\ \A j \in 1..n : u[j] = IF j = i THEN t ELSE turns[j]
            /\ t.user = turns[i].user /\ turns[i].spent <= t.spent
      BY <2>3 DEF GoesOn, Continues, n
    <3>2. k \in 1..n
      BY <3>1
    <3>3. CASE k = i
      BY <3>1, <3>3
    <3>4. CASE k # i
      BY <2>1, <3>1, <3>2, <3>4
    <3> QED
      BY <3>3, <3>4
  <2>4. CASE BecomeOne(turns, u)
    <3>1. PICK i \in 1..(n - 1), t \in Turn :
            /\ Len(u) = n - 1
            /\ \A j \in 1..(n - 1) :
                   u[j] = IF j < i THEN turns[j] ELSE IF j = i THEN t ELSE turns[j + 1]
            /\ t.user = turns[i].user /\ t.spent = turns[i].spent + turns[i + 1].spent
      BY <2>4 DEF BecomeOne, n
    <3>2. k \in 1..(n - 1) /\ k \in 1..n /\ k + 1 \in 1..n /\ i \in 1..n /\ i + 1 \in 1..n
      BY <2>1, <3>1
    <3>3. turns[i].spent <= t.spent
      BY <2>1, <3>1, <3>2
    <3>4. CASE k < i
      BY <2>1, <3>1, <3>2, <3>4
    <3>5. CASE k = i
      BY <3>1, <3>2, <3>3, <3>5
    <3>6. CASE ~(k < i) /\ k # i
      <4>1. u[k] = turns[k + 1] /\ turns[k + 1].spent \in Nat
        BY <2>1, <3>1, <3>2, <3>6
      <4>2. turns[k + 1].spent <= u[k].spent
        BY <4>1
      <4> QED
        BY <3>2, <4>1, <4>2
    <3> QED
      BY <3>4, <3>5, <3>6
  <2> QED
    BY <1>4, <2>2, <2>3, <2>4 DEF Becomes, turns
<1>7. PendingInCapture' /\ HeldBehindMark' /\ HeldAtMark'
  <2>1. PendingInCapture'
    BY <1>2 DEF OnceInv, PendingInCapture
  <2>2. HeldBehindMark'
    BY <1>2 DEF OnceInv, HeldBehindMark
  <2>3. HeldAtMark'
    BY <1>2 DEF OnceInv, HeldAtMark
  <2> QED
    BY <2>1, <2>2, <2>3
<1>8. captured.user \in Nat /\ captured.spent \in Nat /\ captured.user <= clock
  BY <1>1, OnceTypes DEF OnceInv, CapturedStands
<1>9. /\ \A k \in Convs : \A i \in 1..Len(transcript[k]) :
             transcript[k][i].user \in Nat /\ transcript[k][i].user <= clock
                /\ transcript[k][i].spent \in Nat
      /\ step # "idle" => \A i \in 1..Len(job.turns) :
             job.turns[i].user \in Nat /\ job.turns[i].user <= clock /\ job.turns[i].spent \in Nat
      /\ \A k \in 1..Len(u) : u[k].spent \in Nat
  <2>1. \A t \in Turn : t.user \in Nat /\ t.spent \in Nat
    BY TurnRows, SpanRows
  <2>2. \A k \in 1..Len(u) : u[k] \in Turn
    BY ElementOfSeq
  <2>3. \A k \in Convs : TurnsBy(transcript[k], clock) /\ \A i \in 1..Len(transcript[k]) : transcript[k][i] \in Turn
    BY <1>1, OnceTypes
  <2>4. \A k \in Convs : \A i \in 1..Len(transcript[k]) : transcript[k][i].user <= clock
    BY <1>3, <2>3, UsersInOrder
  <2>5. step # "idle" => \A i \in 1..Len(job.turns) : job.turns[i] \in Turn /\ job.turns[i].user <= clock
    BY <1>1, <1>3, CaptureTurns, UsersInOrder
  <2> QED
    BY <2>1, <2>2, <2>3, <2>4, <2>5
<1>10. CapturedStands'
  <2> SUFFICES ASSUME NEW k \in Convs, NEW i \in 1..Len(transcript'[k]),
                      transcript'[k][i].user = captured.user
               PROVE  captured.spent <= transcript'[k][i].spent
    BY <1>2, <1>3, <1>8 DEF CapturedStands
  <2>1. CASE k # c
    BY <1>5, <2>1 DEF OnceInv, CapturedStands
  <2>2. CASE k = c
    <3>1. i \in 1..Len(u) /\ u[i].user = captured.user /\ captured.user # clock + 1
      BY <1>3, <1>5, <1>8, <2>2
    <3>2. PICK j \in 1..Len(transcript[c]) :
            u[i].user = transcript[c][j].user /\ transcript[c][j].spent <= u[i].spent
      BY <1>6, <3>1
    <3>3. captured.spent <= transcript[c][j].spent
      BY <3>1, <3>2 DEF OnceInv, CapturedStands
    <3> QED
      BY <1>5, <1>8, <1>9, <2>2, <3>1, <3>2, <3>3
  <2> QED
    BY <2>1, <2>2
<1>11. ReadStands'
  <2> SUFFICES ASSUME NEW k \in Convs, Mine(k), NEW i \in 1..Len(job.turns),
                      NEW j \in 1..Len(transcript'[k]),
                      transcript'[k][j].user = job.turns[i].user
               PROVE  job.turns[i].spent <= transcript'[k][j].spent
    BY <1>2 DEF ReadStands
  <2>0. step # "idle"
    BY DEF Mine
  <2>1. CASE k # c
    BY <1>5, <2>1 DEF OnceInv, ReadStands
  <2>2. CASE k = c
    <3>1. j \in 1..Len(u) /\ u[j].user = job.turns[i].user /\ job.turns[i].user # clock + 1
      BY <1>3, <1>5, <1>9, <2>0, <2>2
    <3>2. PICK l \in 1..Len(transcript[c]) :
            u[j].user = transcript[c][l].user /\ transcript[c][l].spent <= u[j].spent
      BY <1>6, <3>1
    <3>3. job.turns[i].spent <= transcript[c][l].spent
      BY <2>2, <3>1, <3>2 DEF OnceInv, ReadStands
    <3> QED
      BY <1>5, <1>9, <2>0, <2>2, <3>1, <3>2, <3>3
  <2> QED
    BY <2>1, <2>2
<1>12. ASSUME NEW k \in Convs, NEW r \in Rows, PromptOf(k, r) PROVE r <= clock
  <2>1. CASE Held(k)[r] > 0
    <3>1. recorded[k][r] \in Nat /\ pending[k][r] \in Nat
      BY <1>1, OnceTypes
    <3>2. recorded[k][r] + pending[k][r] > 0
      BY <2>1, <3>1 DEF Held
    <3> QED
      BY <1>1, <3>2 DEF MarkInv, StretchInv, OnlyTracked
  <2> QED
    BY <1>9, <1>12, <2>1 DEF PromptOf, Mine
<1>13. ASSUME NEW k \in Convs, NEW r \in Rows, PromptOf(k, r)'
       PROVE  PromptOf(k, r) \/ (k = c /\ r = clock + 1)
  <2>1. \/ Held(k)[r] > 0
        \/ \E i \in 1..Len(transcript'[k]) : transcript'[k][i].user = r
        \/ Mine(k) /\ \E i \in 1..Len(job.turns) : job.turns[i].user = r
    BY <1>2, <1>13 DEF PromptOf
  <2>2. ASSUME NEW i \in 1..Len(transcript'[k]), transcript'[k][i].user = r
        PROVE  PromptOf(k, r) \/ (k = c /\ r = clock + 1)
    <3>1. CASE k # c
      BY <1>5, <2>2, <3>1 DEF PromptOf
    <3>2. CASE k = c
      BY <1>5, <1>6, <2>2, <3>2 DEF PromptOf
    <3> QED
      BY <3>1, <3>2
  <2> QED
    BY <2>1, <2>2 DEF PromptOf
<1>14. PromptsApart'
  <2> SUFFICES ASSUME NEW a \in Convs, NEW b \in Convs, NEW r \in Rows,
                      PromptOf(a, r)', PromptOf(b, r)'
               PROVE  a = b
    BY DEF PromptsApart
  <2>1. /\ PromptOf(a, r) \/ (a = c /\ r = clock + 1)
        /\ PromptOf(b, r) \/ (b = c /\ r = clock + 1)
    BY <1>13
  <2>2. r = clock + 1 => ~PromptOf(a, r) /\ ~PromptOf(b, r)
    BY <1>3, <1>12
  <2> QED
    BY <2>1, <2>2 DEF OnceInv, PromptsApart
<1>15. AllSound'
  <2> SUFFICES ASSUME NEW k \in Convs PROVE Sound(transcript'[k], Due(k), Held(k))
    BY <1>2 DEF AllSound
  <2>1. Sound(transcript[k], Due(k), Held(k))
    BY DEF OnceInv, AllSound
  <2>2. CASE k # c
    BY <1>5, <2>1, <2>2
  <2>3. CASE k = c
    <3>1. InOrder(Due(c)) /\ Held(c) \in [Rows -> Nat]
      BY <1>1, DueFromRead, OnceTypes
    <3>2. Sound(u, Due(c), Held(c))
      BY <1>3, <1>4, <1>5, <2>1, <2>3, <3>1, SoundBecomes
    <3> QED
      BY <1>5, <2>3, <3>2
  <2> QED
    BY <2>2, <2>3
<1> QED
  BY <1>7, <1>10, <1>11, <1>14, <1>15 DEF OnceInv

\* After a step as well as before it.
LEMMA DueOrdered == MarkInv => \A c \in Convs : InOrder(Due(c))
BY DueFromRead

LEMMA DueOrderedNext == MarkInv' => (\A c \in Convs : InOrder(Due(c)))'
BY DueOrdered, PTL

\* So does a step that reads nothing and counts nothing, of the parts that relate transcripts,
\* turns due and totals.
LEMMA OnceLess ==
  ASSUME OnceInv, MarkInv', transcript' = transcript,
         \A k \in Convs : Held(k)' = Held(k),
         \A k \in Convs : Mine(k)' =>
             /\ Mine(k)
             /\ \A i \in 1..Len(job'.turns) : \E j \in 1..Len(job.turns) :
                    job'.turns[i] = job.turns[j],
         \A k \in Convs : \A i \in 1..Len(Due(k)') : \E j \in 1..Len(Due(k)) :
             Due(k)'[i] = Due(k)[j]
  PROVE  ReadStands' /\ PromptsApart' /\ AllSound'
<1>1. ReadStands'
  <2> SUFFICES ASSUME NEW k \in Convs, Mine(k)', NEW i \in 1..Len(job'.turns),
                      NEW l \in 1..Len(transcript[k]),
                      transcript[k][l].user = job'.turns[i].user
               PROVE  job'.turns[i].spent <= transcript[k][l].spent
    BY DEF ReadStands
  <2>1. PICK j \in 1..Len(job.turns) : job'.turns[i] = job.turns[j]
    OBVIOUS
  <2>2. Mine(k)
    OBVIOUS
  <2>3. job.turns[j].spent <= transcript[k][l].spent
    BY <2>1, <2>2 DEF OnceInv, ReadStands
  <2> QED
    BY <2>1, <2>3
<1>2. ASSUME NEW k \in Convs, NEW r \in Rows, PromptOf(k, r)' PROVE PromptOf(k, r)
  <2>1. CASE Held(k)'[r] > 0
    <3>1. Held(k)[r] > 0
      BY <2>1
    <3> QED
      BY <3>1, Zenon DEF PromptOf
  <2>2. CASE \E i \in 1..Len(transcript'[k]) : transcript'[k][i].user = r
    <3>1. \E i \in 1..Len(transcript[k]) : transcript[k][i].user = r
      BY <2>2
    <3> QED
      BY <3>1, Zenon DEF PromptOf
  <2>3. CASE Mine(k)' /\ \E i \in 1..Len(job'.turns) : job'.turns[i].user = r
    <3>1. PICK i \in 1..Len(job'.turns) : job'.turns[i].user = r
      BY <2>3
    <3>2. Mine(k) /\ \E j \in 1..Len(job.turns) : job'.turns[i] = job.turns[j]
      BY <2>3, Zenon
    <3>3. \E j \in 1..Len(job.turns) : job.turns[j].user = r
      BY <3>1, <3>2
    <3> QED
      BY <3>2, <3>3, Zenon DEF PromptOf
  <2> QED
    BY <1>2, <2>1, <2>2, <2>3, Zenon DEF PromptOf
<1>3. PromptsApart'
  BY <1>2 DEF OnceInv, PromptsApart
<1>4. ASSUME NEW k \in Convs PROVE Sound(transcript[k], Due(k)', Held(k))
  <2>1. /\ InOrder(Due(k)) /\ Held(k) \in [Rows -> Nat]
        /\ TurnsBy(transcript[k], clock) /\ clock \in Nat
    BY DueFromRead, OnceTypes DEF OnceInv
  <2>2. InOrder(Due(k)')
    <3>1. (\A c \in Convs : InOrder(Due(c)))'
      BY DueOrderedNext
    <3> QED
      BY <3>1
  <2>3. Sound(transcript[k], Due(k), Held(k))
    BY DEF OnceInv, AllSound
  <2> DEFINE turns == transcript[k]
             due == Due(k)
             less == Due(k)'
             held == Held(k)
  <2>4. \A i \in 1..Len(less) : \E j \in 1..Len(due) :
          less[i].user = due[j].user /\ less[i].spent = due[j].spent
    <3> SUFFICES ASSUME NEW i \in 1..Len(less)
                 PROVE  \E j \in 1..Len(due) :
                            less[i].user = due[j].user /\ less[i].spent = due[j].spent
      OBVIOUS
    <3>1. PICK j \in 1..Len(due) : less[i] = due[j]
      OBVIOUS
    <3> QED
      BY <3>1
  <2> HIDE DEF turns, due, less, held
  <2>5. Sound(turns, less, held)
    BY <2>1, <2>2, <2>3, <2>4, SoundLess DEF turns, due, less, held
  <2> QED
    BY <2>5 DEF turns, less, held
<1>5. AllSound'
  BY <1>4 DEF AllSound
<1> QED
  BY <1>1, <1>3, <1>5

\* A step that touches neither the capture nor what is saved.
LEMMA OnceQuiet ==
  ASSUME OnceInv, MarkInv', UNCHANGED <<transcript, marks, captured, pending, recorded, step, job>>,
         clock <= clock', clock' \in Nat
  PROVE  OnceInv'
<1>1. \A k \in Convs : Held(k)' = Held(k) /\ Due(k)' = Due(k) /\ (Mine(k)' <=> Mine(k))
  BY DEF Held, Due, Mine
<1>2. ReadStands' /\ PromptsApart' /\ AllSound'
  BY <1>1, OnceLess
<1>3. PendingInCapture' /\ HeldBehindMark' /\ HeldAtMark'
  BY <1>1 DEF OnceInv, PendingInCapture, HeldBehindMark, HeldAtMark
<1>4. clock \in Nat /\ captured.user \in Nat
  BY OnceTypes DEF OnceInv
<1>5. CapturedStands'
  BY <1>4 DEF OnceInv, CapturedStands
<1> QED
  BY <1>2, <1>3, <1>5 DEF OnceInv

\* A step before the capture has counted, of the parts that relate totals and watermarks.
LEMMA OnceUncounted ==
  ASSUME OnceInv, MarkInv', transcript' = transcript, clock' = clock,
         captured' = captured, recorded' = recorded, pending' = pending,
         step \notin Counting, step' \notin Counting,
         \A c \in Convs : marks[c].id <= marks'[c].id
  PROVE  /\ \A k \in Convs : Held(k)' = Held(k)
         /\ PendingInCapture' /\ HeldBehindMark' /\ HeldAtMark' /\ CapturedStands'
<1>0. /\ MarkInv
      /\ \A c \in Convs : marks[c].id \in Nat /\ marks'[c].id \in Nat
  <2>1. MarkInv
    BY DEF OnceInv
  <2>2. \A c \in Convs : marks[c].id \in Nat
    BY <2>1, OnceTypes
  <2>3. \A c \in Convs : marks'[c].id \in Nat
    BY BoundsAssumption DEF MarkInv, StretchInv, TypeInv, TypeOK
  <2> QED
    BY <2>1, <2>2, <2>3
<1>1. \A k \in Convs : Held(k)' = Held(k) /\ Held(k) \in [Rows -> Nat]
  BY <1>0, OnceTypes DEF Held, Counting
<1>3. PendingInCapture'
  BY DEF OnceInv, PendingInCapture, Counting
<1>4. ASSUME NEW k \in Convs, NEW r \in Rows, Held(k)[r] > 0 PROVE r <= marks[k].id
  BY <1>4 DEF OnceInv, HeldBehindMark, Counting
<1>5. HeldBehindMark'
  BY <1>0, <1>1, <1>4, OnceTypes DEF HeldBehindMark
<1>6. HeldAtMark'
  <2> SUFFICES ASSUME NEW k \in Convs, NEW r \in Rows, r = marks'[k].id, Held(k)[r] > 0
               PROVE  captured.user = r /\ Held(k)[r] <= captured.spent
    BY <1>1 DEF HeldAtMark, Counting
  <2>1. r = marks[k].id
    BY <1>0, <1>4
  <2> QED
    BY <2>1 DEF OnceInv, HeldAtMark
<1>7. CapturedStands'
  BY DEF OnceInv, CapturedStands
<1> QED
  BY <1>1, <1>3, <1>5, <1>6, <1>7

\* A capture that ends before it has counted.
LEMMA OnceDone ==
  ASSUME OnceInv, MarkInv', transcript' = transcript, clock' = clock,
         captured' = captured, recorded' = recorded, pending' = pending,
         step \notin Counting, Done,
         \A c \in Convs : marks[c].id <= marks'[c].id
  PROVE  OnceInv'
<1>1. step' \notin Counting
  BY DEF Done, Counting
<1>2. \A k \in Convs : ~Mine(k)' /\ Due(k)' = <<>> /\ Len(<<>>) = 0
  BY EmptySeq DEF Mine, Due, Done
<1>3. /\ \A k \in Convs : Held(k)' = Held(k)
      /\ PendingInCapture' /\ HeldBehindMark' /\ HeldAtMark' /\ CapturedStands'
  BY <1>1, OnceUncounted
<1>4. ReadStands' /\ PromptsApart' /\ AllSound'
  <2>1. \A k \in Convs : \A i \in 1..Len(Due(k)') : FALSE
    BY <1>2
  <2> QED
    BY <1>2, <1>3, <2>1, OnceLess
<1> QED
  BY <1>3, <1>4 DEF OnceInv

\* What is left to be recorded is part of what is due.
LEMMA BatchFromDue ==
  ASSUME NEW fresh \in Seq(Turn),
         NEW batch \in {TrackedTurns(fresh), Trimmed(TrackedTurns(fresh))}
  PROVE  \A i \in 1..Len(batch) : \E j \in 1..Len(fresh) : batch[i] = fresh[j]
<1> DEFINE tracked == TrackedTurns(fresh)
           count == UntrackedCount(fresh)
<1>1. /\ tracked \in Seq(Turn) /\ Len(tracked) \in Nat /\ Len(fresh) \in Nat
      /\ count \in 0..Len(fresh) /\ Len(tracked) = Len(fresh) - count
      /\ \A i \in 1..Len(tracked) : tracked[i] = fresh[count + i]
  BY SplitIsSegments, SplitPositions, LenProperties
<1>2. \A i \in 1..Len(tracked) : count + i \in 1..Len(fresh) /\ tracked[i] = fresh[count + i]
  BY <1>1
<1>3. PICK n \in 0..Len(tracked) : Trimmed(tracked) = SubSeq(tracked, 1, n)
  BY <1>1, TrimIsSegment
<1>4. n \in Int /\ 1 \in Int /\ \A k \in 1..n : tracked[k] \in Turn
  BY <1>1, <1>3, ElementOfSeq
<1>5. /\ Len(Trimmed(tracked)) = IF 1 <= n THEN n - 1 + 1 ELSE 0
      /\ \A k \in 1..(n - 1 + 1) : Trimmed(tracked)[k] = tracked[1 + k - 1]
  BY <1>3, <1>4, SubSeqProperties
<1>6. \A k \in 1..Len(Trimmed(tracked)) : k \in 1..Len(tracked) /\ Trimmed(tracked)[k] = tracked[k]
  BY <1>1, <1>3, <1>5
<1> QED
  BY <1>2, <1>6

\* Choosing what to record keeps it.
LEMMA OnceChoose ==
  ASSUME OnceInv, MarkInv', ChooseTurns PROVE OnceInv'
<1> DEFINE c == job.conv
           fresh == TurnsAfter(job.turns, job.mark, marks[c].at)
           tracked == TrackedTurns(fresh)
           batch == IF job.mode = "flush" THEN tracked ELSE Trimmed(tracked)
<1>1. /\ MarkInv /\ step = "parsed" /\ Mine(c)
      /\ UNCHANGED <<clock, transcript, captured, pending, recorded>>
  BY DEF OnceInv, Mine, ChooseTurns, agentVars
<1>2. \A k \in Convs : marks[k].id <= marks'[k].id
  BY <1>1, ChosenPastMark
<1>3. fresh \in Seq(Turn) /\ fresh = Due(c) /\ c \in Convs
  BY <1>1, JobType, ChosenTypes DEF MarkInv, StretchInv, TypeInv, Due
<1>4. \A i \in 1..Len(batch) : \E j \in 1..Len(Due(c)) : batch[i] = Due(c)[j]
  <2> DEFINE due == Due(c)
             all == TrackedTurns(due)
             some == Trimmed(all)
  <2>1. due \in Seq(Turn) /\ due = fresh
    BY <1>3
  <2>2. batch \in {all, some}
    BY <2>1
  <2> HIDE DEF due, fresh, batch
  <2>3. \A i \in 1..Len(batch) : \E j \in 1..Len(due) : batch[i] = due[j]
    BY <2>1, <2>2, BatchFromDue
  <2> QED
    BY <2>3 DEF due
<1>5. Done \/ (step' = "chosen" /\ job' = [job EXCEPT !.turns = batch])
  BY DEF ChooseTurns
<1> HIDE DEF batch
<1>6. CASE Done
  BY <1>1, <1>2, <1>6, OnceDone DEF Counting
<1>7. CASE step' = "chosen" /\ job' = [job EXCEPT !.turns = batch]
  <2>1. job'.turns = batch /\ job'.conv = c
    BY <1>1, <1>7, JobType DEF MarkInv, StretchInv, TypeInv
  <2>2. \A k \in Convs : /\ Mine(k)' <=> k = c
                         /\ Mine(k) <=> k = c
                         /\ Due(k)' = IF k = c THEN batch ELSE <<>>
    BY <1>1, <1>7, <2>1 DEF Mine, Due
  <2>3. /\ \A k \in Convs : Held(k)' = Held(k)
        /\ PendingInCapture' /\ HeldBehindMark' /\ HeldAtMark' /\ CapturedStands'
    BY <1>1, <1>2, <1>7, OnceUncounted DEF Counting
  <2>4. \A i \in 1..Len(batch) : \E j \in 1..Len(job.turns) : batch[i] = job.turns[j]
    <3>1. \A i \in 1..Len(Due(c)) : \E j \in 1..Len(job.turns) : Due(c)[i] = job.turns[j]
      BY <1>1, <1>3, DueFromRead
    <3> QED
      BY <1>4, <3>1
  <2>5. Len(<<>>) = 0
    BY EmptySeq
  <2>6. \A k \in Convs : \A i \in 1..Len(Due(k)') : \E j \in 1..Len(Due(k)) :
          Due(k)'[i] = Due(k)[j]
    BY <1>4, <2>2, <2>5
  <2>7. ReadStands' /\ PromptsApart' /\ AllSound'
    BY <1>1, <2>1, <2>2, <2>3, <2>4, <2>6, OnceLess
  <2> QED
    BY <2>3, <2>7 DEF OnceInv
<1> QED
  BY <1>5, <1>6, <1>7

\* Reading a conversation keeps it: what is read again counts no more than its tokens.
LEMMA OnceStartParse ==
  ASSUME OnceInv, MarkInv', NEW c \in Convs, NEW mode, StartParse(c, mode) PROVE OnceInv'
<1>1. /\ step = "idle" /\ step' = "parsed"
      /\ job' = [conv |-> c, mode |-> mode, turns |-> transcript[c], mark |-> marks[c].id]
      /\ UNCHANGED <<clock, transcript, marks, captured, pending, recorded>>
  BY DEF StartParse, agentVars, savedVars
<1>2. /\ \A k \in Convs : Held(k)' = Held(k) /\ ~Mine(k) /\ Due(k) = <<>> /\ (Mine(k)' <=> k = c)
      /\ \A k \in Convs : k # c => Due(k)' = <<>>
      /\ Due(c)' = TurnsAfter(transcript[c], marks[c].id, marks[c].at)
  BY <1>1 DEF Held, Due, Mine
<1>3. MarkInv
  BY DEF OnceInv
<1>4. PendingInCapture'
  BY <1>1, <1>2 DEF OnceInv, PendingInCapture
<1>5. ASSUME NEW k \in Convs, NEW r \in Rows, Held(k)[r] > 0 PROVE r <= marks[k].id
  BY <1>1, <1>5 DEF OnceInv, HeldBehindMark
<1>6. HeldBehindMark'
  BY <1>1, <1>2, <1>5 DEF HeldBehindMark
<1>7. HeldAtMark'
  BY <1>1, <1>2 DEF OnceInv, HeldAtMark
<1>8. CapturedStands'
  BY <1>1 DEF OnceInv, CapturedStands
<1>9. TurnsBy(transcript[c], clock) /\ clock \in Nat
      /\ \A i \in 1..Len(transcript[c]) : transcript[c][i] \in Turn
  BY <1>3, OnceTypes
<1>10. ReadStands'
  <2>1. \A i, k \in 1..Len(transcript[c]) :
          transcript[c][k].user = transcript[c][i].user => k = i
    <3>1. \A i \in 1..Len(transcript[c]) : transcript[c][i].user \in Nat
      BY <1>9, TurnRows
    <3>2. \A i, k \in 1..Len(transcript[c]) : i < k => transcript[c][i].user < transcript[c][k].user
      BY <1>9, UsersInOrder
    <3>3. Len(transcript[c]) \in Nat
      BY <1>3, OnceTypes, LenProperties
    <3> QED
      BY <3>1, <3>2, <3>3
  <2>2. \A i \in 1..Len(transcript[c]) : transcript[c][i].spent \in Nat
    BY <1>9, SpanRows
  <2>3. job'.turns = transcript[c]
    BY <1>1
  <2>4. \A i, k \in 1..Len(transcript[c]) :
          transcript[c][k].user = transcript[c][i].user => transcript[c][i].spent <= transcript[c][k].spent
    <3> SUFFICES ASSUME NEW i \in 1..Len(transcript[c]), NEW k \in 1..Len(transcript[c]),
                        transcript[c][k].user = transcript[c][i].user
                 PROVE  transcript[c][i].spent <= transcript[c][k].spent
      OBVIOUS
    <3>1. k = i
      BY <2>1
    <3> QED
      BY <2>2, <3>1
  <2> QED
    BY <1>1, <1>2, <2>3, <2>4 DEF ReadStands
<1>11. \A k \in Convs, r \in Rows : PromptOf(k, r)' => PromptOf(k, r)
  BY <1>1, <1>2 DEF PromptOf
<1>12. PromptsApart'
  BY <1>11 DEF OnceInv, PromptsApart
<1>13. Sound(transcript[c], TurnsAfter(transcript[c], marks[c].id, marks[c].at), Held(c))
  <2> DEFINE turns == transcript[c]
             mark == marks[c].id
             held == Held(c)
             due == TurnsAfter(turns, mark, marks[c].at)
  <2>1. mark \in Nat /\ marks[c].at \in Nat /\ Second(mark) <= marks[c].at /\ held \in [Rows -> Nat]
    BY <1>3, OnceTypes DEF MarkInv, MarksTimed
  <2>2. PICK m \in Nat \ {0} : /\ due = SubSeq(turns, m, Len(turns))
                               /\ \A k \in m..Len(turns) : mark <= turns[k].user
    BY <1>9, <2>1, ExportPastMark
  <2>3. Sound(turns, <<>>, held)
    BY <1>2 DEF OnceInv, AllSound
  <2>4. Len(turns) \in Nat
    BY <1>3, OnceTypes, LenProperties
  <2>5. ASSUME NEW k \in m..Len(turns)
        PROVE  /\ held[turns[k].user] <= turns[k].spent
               /\ \A r \in Span(turns[k]) : r # turns[k].user => held[r] = 0
    <3>1. k \in 1..Len(turns) /\ mark <= turns[k].user
      BY <2>2, <2>4
    <3>2. /\ turns[k] \in Turn /\ turns[k].user \in Rows /\ turns[k].spent \in Nat
          /\ Span(turns[k]) \in SUBSET Rows /\ turns[k].user \in Nat
      BY <1>9, <3>1, SpanRows, TurnRows
    <3>3. held[turns[k].user] \in Nat
      BY <2>1, <3>2
    <3>4. ASSUME held[turns[k].user] > 0 PROVE held[turns[k].user] <= turns[k].spent
      <4>1. turns[k].user = mark
        BY <1>5, <2>1, <3>1, <3>2, <3>4
      <4>2. captured.user = turns[k].user /\ held[turns[k].user] <= captured.spent
        BY <1>2, <3>2, <3>4, <4>1 DEF OnceInv, HeldAtMark
      <4>3. captured.spent <= turns[k].spent
        BY <3>1, <4>2 DEF OnceInv, CapturedStands
      <4>4. captured.spent \in Nat
        BY <1>3, OnceTypes
      <4> QED
        BY <3>2, <3>3, <4>2, <4>3, <4>4
    <3>5. ASSUME NEW r \in Span(turns[k]), r # turns[k].user PROVE held[r] = 0
      <4>1. r \in Rows /\ r \in Nat /\ turns[k].user < r /\ held[r] \in Nat
        BY <1>3, <2>1, <3>2, <3>5, OnceTypes DEF Span
      <4>2. ~(r <= mark)
        BY <2>1, <3>1, <3>2, <4>1
      <4>3. ~(held[r] > 0)
        BY <1>5, <4>1, <4>2
      <4> QED
        BY <4>1, <4>3
    <3>6. held[turns[k].user] <= turns[k].spent
      BY <3>2, <3>3, <3>4
    <3> QED
      BY <3>5, <3>6
  <2> HIDE DEF due, held, turns
  <2>6. Sound(turns, due, held)
    BY <1>9, <2>1, <2>2, <2>3, <2>5, SoundExport DEF turns
  <2> QED
    BY <2>6 DEF due, held, turns
<1>14. AllSound'
  <2> SUFFICES ASSUME NEW k \in Convs PROVE Sound(transcript[k], Due(k)', Held(k))
    BY <1>1, <1>2 DEF AllSound
  <2>1. Sound(transcript[k], <<>>, Held(k))
    BY <1>2 DEF OnceInv, AllSound
  <2> QED
    BY <1>2, <1>13, <2>1
<1> QED
  BY <1>4, <1>6, <1>7, <1>8, <1>10, <1>12, <1>14 DEF OnceInv

\* What is owed of a turn that is due makes up for what counted of it before, and no more.
LEMMA OwedFills ==
  ASSUME OnceInv, step = "chosen", NEW j \in 1..Len(job.turns)
  PROVE  LET c == job.conv
             t == job.turns[j]
         IN  /\ t \in Turn /\ t.user \in Rows /\ Owed(c, t) \in Nat
             /\ Held(c)[t.user] \in Nat
             /\ Held(c)[t.user] + Owed(c, t) <= t.spent
<1> DEFINE c == job.conv
           t == job.turns[j]
           h == Held(c)[t.user]
<1>1. /\ MarkInv /\ TypeOK /\ Mine(c) /\ c \in Convs /\ t \in Turn
      /\ Due(c) = job.turns
  BY CaptureTurns DEF OnceInv, MarkInv, StretchInv, TypeInv, Mine, Due
<1>2. t.user \in Rows /\ t.spent \in Nat /\ t.user \in Nat /\ Owed(c, t) \in Nat
  BY <1>1, SpanRows, TurnRows, OwedType
<1>3. /\ h \in Nat /\ marks[c].id \in Nat /\ captured.spent \in Nat
      /\ marks[c].id <= t.user
  BY <1>1, <1>2, OnceTypes DEF MarkInv, JobPastMark
<1>4. h <= t.spent
  BY <1>1 DEF OnceInv, AllSound, Sound
<1>5. h > 0 => captured.user = t.user /\ h <= captured.spent
  <2> SUFFICES ASSUME h > 0 PROVE captured.user = t.user /\ h <= captured.spent
    OBVIOUS
  <2>1. t.user <= marks[c].id
    BY <1>1, <1>2 DEF OnceInv, HeldBehindMark
  <2>2. t.user = marks[c].id
    BY <1>2, <1>3, <2>1
  <2> QED
    BY <1>1, <1>2, <2>2 DEF OnceInv, HeldAtMark, Counting
<1>6. Owed(c, t) = IF t.user = captured.user
                   THEN IF t.spent > captured.spent THEN t.spent - captured.spent ELSE 0
                   ELSE IF marks[c].at > 0 /\ Ended(t) <= marks[c].at THEN 0 ELSE t.spent
  BY DEF Owed
<1> HIDE DEF h, t, c
<1>7. h + Owed(c, t) <= t.spent
  <2>1. CASE t.user = captured.user
    <3>1. h <= captured.spent
      BY <1>3, <1>5
    <3> QED
      BY <1>2, <1>3, <1>4, <1>6, <2>1, <3>1
  <2>2. CASE t.user # captured.user
    <3>1. h = 0
      BY <1>3, <1>5, <2>2
    <3> QED
      BY <1>2, <1>6, <2>2, <3>1
  <2> QED
    BY <2>1, <2>2
<1> QED
  BY <1>1, <1>2, <1>3, <1>7 DEF h, t, c

\* Counting keeps it.
LEMMA OnceCount ==
  ASSUME OnceInv, MarkInv', CountTurns PROVE OnceInv'
<1> DEFINE c == job.conv
           turns == TrackedTurns(job.turns)
           Of(r) == {i \in DOMAIN turns : turns[i].user = r}
           added == [r \in Rows |->
                      IF Of(r) = {} THEN pending[c][r]
                      ELSE pending[c][r] + Owed(c, turns[CHOOSE i \in Of(r) : TRUE])]
           after == [k \in Convs |-> [r \in Rows |-> recorded[k][r] + pending'[k][r]]]
<1>1. /\ MarkInv /\ TypeOK /\ step = "chosen" /\ Mine(c)
      /\ UNCHANGED <<clock, transcript, marks, recorded>>
  BY DEF OnceInv, MarkInv, StretchInv, TypeInv, Mine, CountTurns, agentVars
<1>2. \/ Done /\ UNCHANGED <<captured, pending>>
      \/ /\ pending' = [pending EXCEPT ![c] = added]
         /\ captured' = IF Of(captured.user) = {} THEN captured ELSE NoCapture
         /\ step' = "counted"
         /\ UNCHANGED job
  BY DEF CountTurns
<1>3. CASE Done /\ UNCHANGED <<captured, pending>>
  <2>1. \A k \in Convs : marks[k].id \in Nat
    BY <1>1, OnceTypes
  <2>2. \A k \in Convs : marks[k].id <= marks'[k].id
    BY <1>1, <2>1
  <2> QED
    BY <1>1, <1>3, <2>2, OnceDone DEF Counting
<1>4. CASE /\ pending' = [pending EXCEPT ![c] = added]
           /\ captured' = IF Of(captured.user) = {} THEN captured ELSE NoCapture
           /\ step' = "counted"
           /\ UNCHANGED job
  <2>1. /\ c \in Convs /\ job.turns \in Seq(Turn) /\ InOrder(job.turns)
        /\ \A i \in 1..Len(job.turns) : job.turns[i] \in Turn
        /\ TurnsBy(transcript[c], clock) /\ clock \in Nat
    BY <1>1, CaptureTurns, OnceTypes DEF InOrder
  <2>2. \A i \in DOMAIN turns : \E j \in 1..Len(job.turns) : turns[i] = job.turns[j]
    <3>1. turns \in Seq(Turn)
      BY <2>1, SplitIsSegments
    <3>2. DOMAIN turns = 1..Len(turns)
      BY <3>1, LenProperties
    <3> QED
      BY <2>1, <3>2, BatchFromDue
  <2>3. /\ \A k \in Convs, r \in Rows : pending[k][r] = 0
        /\ \A k \in Convs, r \in Rows : recorded[k][r] \in Nat
    <3>1. \A k \in Convs, r \in Rows : pending[k][r] \in Nat /\ recorded[k][r] \in Nat
      BY <1>1, OnceTypes
    <3>2. \A k \in Convs, r \in Rows : ~(pending[k][r] > 0)
      BY <1>1 DEF OnceInv, PendingInCapture
    <3> QED
      BY <3>1, <3>2
  <2>4. \A k \in Convs : \A r \in Rows : Held(k)[r] = recorded[k][r]
    BY <1>1 DEF Held
  <2>5. \A k \in Convs : Held(k)' = after[k]
    BY <1>1, <1>4 DEF Held
  <2>20. \A k \in Convs : \A r \in Rows : after[k][r] = recorded[k][r] + pending'[k][r]
    OBVIOUS
  <2>6. /\ \A r \in Rows : pending'[c][r] = added[r]
        /\ \A k \in Convs : k # c => pending'[k] = pending[k]
    <3> HIDE DEF added
    <3>1. pending \in [Convs -> [Rows -> Nat]]
      BY <1>1 DEF TypeOK
    <3> QED
      BY <1>4, <2>1, <3>1
  <2>7. ASSUME NEW r \in Rows
        PROVE  \/ Of(r) = {} /\ after[c][r] = Held(c)[r]
               \/ /\ Of(r) # {}
                  /\ \E j \in 1..Len(job.turns) :
                         job.turns[j].user = r /\ after[c][r] <= job.turns[j].spent
    <3>1. after[c][r] = Held(c)[r] + added[r] /\ pending[c][r] = 0 /\ Held(c)[r] \in Nat
      <4> HIDE DEF added, after, c
      <4>1. pending[c][r] = 0 /\ Held(c)[r] = recorded[c][r] /\ recorded[c][r] \in Nat
        BY <2>1, <2>3, <2>4
      <4>2. after[c][r] = recorded[c][r] + pending'[c][r] /\ pending'[c][r] = added[r]
        BY <2>1, <2>6, <2>20
      <4> QED
        BY <4>1, <4>2
    <3>2. CASE Of(r) = {}
      <4>1. added[r] = 0
        BY <3>1, <3>2
      <4> HIDE DEF added
      <4> QED
        BY <3>1, <3>2, <4>1
    <3>3. CASE Of(r) # {}
      <4> DEFINE i == CHOOSE x \in Of(r) : TRUE
      <4>1. i \in Of(r)
        BY <3>3
      <4>2. i \in DOMAIN turns /\ turns[i].user = r
        BY <4>1
      <4>3. added[r] = pending[c][r] + Owed(c, turns[i])
        BY <3>3
      <4> HIDE DEF i, added
      <4>4. PICK j \in 1..Len(job.turns) : turns[i] = job.turns[j]
        BY <2>2, <4>2
      <4>5. /\ Held(c)[r] + Owed(c, job.turns[j]) <= job.turns[j].spent
            /\ Owed(c, job.turns[j]) \in Nat
        BY <1>1, <4>2, <4>4, OwedFills
      <4>6. after[c][r] <= job.turns[j].spent
        BY <3>1, <4>3, <4>4, <4>5
      <4> QED
        BY <3>3, <4>2, <4>4, <4>6
    <3> QED
      BY <3>2, <3>3
  <2>8. \A k \in Convs : k # c => after[k] = Held(k)
    <3> SUFFICES ASSUME NEW k \in Convs, k # c PROVE after[k] = Held(k)
      OBVIOUS
    <3>1. \A r \in Rows : after[k][r] = Held(k)[r]
      BY <2>3, <2>4, <2>6, <2>20
    <3>2. DOMAIN after[k] = Rows /\ after[k] = [r \in Rows |-> after[k][r]]
      OBVIOUS
    <3>3. Held(k) = [r \in Rows |-> Held(k)[r]]
      BY DEF Held
    <3> HIDE DEF after
    <3> QED
      BY <3>1, <3>2, <3>3
  <2>9. \A k \in Convs : /\ Mine(k)' <=> k = c
                         /\ Mine(k) <=> k = c
                         /\ Due(k)' = Due(k)
                         /\ k = c => Due(k) = job.turns
    BY <1>1, <1>4 DEF Mine, Due
  <2> HIDE DEF added, after
  <2>10. PendingInCapture'
    BY <1>4, <2>3, <2>6, <2>9 DEF PendingInCapture
  <2>11. HeldBehindMark'
    <3> SUFFICES ASSUME NEW k \in Convs, NEW r \in Rows, after[k][r] > 0
                 PROVE  \/ r <= marks[k].id
                        \/ k = c /\ \E i \in 1..Len(job.turns) : job.turns[i].user = r
      BY <1>1, <1>4, <2>5, <2>9 DEF HeldBehindMark
    <3>1. Held(k)[r] > 0 => r <= marks[k].id
      BY <1>1 DEF OnceInv, HeldBehindMark
    <3> QED
      BY <2>7, <2>8, <3>1
  <2>12. ASSUME NEW k \in Convs, NEW r \in Rows, Held(k)[r] > 0, k # c PROVE Of(r) = {}
    <3> SUFFICES ASSUME NEW i \in Of(r) PROVE FALSE
      OBVIOUS
    <3>1. PICK j \in 1..Len(job.turns) : job.turns[j].user = r
      BY <2>2
    <3>2. PromptOf(k, r) /\ PromptOf(c, r)
      BY <1>1, <2>12, <3>1 DEF PromptOf
    <3> QED
      BY <2>1, <2>12, <3>2 DEF OnceInv, PromptsApart
  <2> HIDE DEF Of
  <2>13. HeldAtMark'
    <3> SUFFICES ASSUME NEW k \in Convs, NEW r \in Rows, r = marks[k].id, after[k][r] > 0, k # c
                 PROVE  captured'.user = r /\ after[k][r] <= captured'.spent
      BY <1>1, <1>4, <2>5, <2>9 DEF HeldAtMark, Counting
    <3>1. Held(k)[r] > 0 /\ after[k] = Held(k)
      BY <2>8
    <3>2. captured.user = r /\ Held(k)[r] <= captured.spent
      BY <2>9, <3>1 DEF OnceInv, HeldAtMark
    <3>3. captured' = captured
      BY <1>4, <2>12, <3>1, <3>2
    <3> QED
      BY <3>1, <3>2, <3>3
  <2>14. CapturedStands'
    <3>1. CASE captured' = captured
      BY <1>1, <3>1 DEF OnceInv, CapturedStands
    <3>2. CASE captured' = NoCapture
      <4>1. \A k \in Convs : \A i \in 1..Len(transcript[k]) : transcript[k][i].spent \in Nat
        BY <1>1, OnceTypes, SpanRows
      <4> QED
        BY <1>1, <2>1, <3>2, <4>1 DEF CapturedStands, NoCapture
    <3> QED
      BY <1>4, <3>1, <3>2
  <2>15. ReadStands'
    BY <1>1, <1>4, <2>9 DEF OnceInv, ReadStands
  <2>16. \A k \in Convs, r \in Rows : PromptOf(k, r)' => PromptOf(k, r)
    <3> SUFFICES ASSUME NEW k \in Convs, NEW r \in Rows, PromptOf(k, r)' PROVE PromptOf(k, r)
      OBVIOUS
    <3>1. \/ after[k][r] > 0
          \/ \E i \in 1..Len(transcript[k]) : transcript[k][i].user = r
          \/ Mine(k) /\ \E i \in 1..Len(job.turns) : job.turns[i].user = r
      BY <1>1, <1>4, <2>5, <2>9 DEF PromptOf
    <3>2. after[k][r] > 0 => \/ Held(k)[r] > 0
                             \/ Mine(k) /\ \E i \in 1..Len(job.turns) : job.turns[i].user = r
      BY <2>7, <2>8, <2>9
    <3> QED
      BY <3>1, <3>2 DEF PromptOf
  <2>17. PromptsApart'
    BY <2>16 DEF OnceInv, PromptsApart
  <2>18. Sound(transcript[c], job.turns, after[c])
    <3> DEFINE more == after[c]
               held == Held(c)
               due == job.turns
               read == transcript[c]
    <3>1. more \in [Rows -> Nat]
      <4>1. pending' \in [Convs -> [Rows -> Nat]]
        BY DEF MarkInv, StretchInv, TypeInv, TypeOK
      <4> QED
        BY <2>1, <2>3, <4>1 DEF after
    <3>2. held \in [Rows -> Nat]
      BY <1>1, <2>1, OnceTypes
    <3>3. Sound(read, due, held)
      BY <2>1, <2>9 DEF OnceInv, AllSound
    <3>4. /\ \A r \in Rows : \/ more[r] = held[r]
                             \/ \E j \in 1..Len(due) : due[j].user = r /\ more[r] <= due[j].spent
          /\ \A i \in 1..Len(due) : \E j \in 1..Len(due) :
                 due[i].user = due[j].user /\ due[i].spent = due[j].spent
      BY <2>7
    <3>5. TurnsBy(read, clock) /\ clock \in Nat /\ InOrder(due)
      BY <2>1
    <3> HIDE DEF more, held, due, read
    <3>6. Sound(read, due, more)
      BY <3>1, <3>2, <3>3, <3>4, <3>5, SoundLess
    <3> QED
      BY <3>6 DEF read, due, more
  <2>19. AllSound'
    <3> SUFFICES ASSUME NEW k \in Convs PROVE Sound(transcript[k], Due(k), after[k])
      BY <1>1, <2>5, <2>9 DEF AllSound
    <3>1. Sound(transcript[k], Due(k), Held(k))
      BY DEF OnceInv, AllSound
    <3> QED
      BY <2>8, <2>9, <2>18, <3>1
  <2> QED
    BY <2>10, <2>11, <2>13, <2>14, <2>15, <2>17, <2>19 DEF OnceInv
<1> QED
  BY <1>2, <1>3, <1>4

\* Writing the record and clearing the pending usage move tokens and change no sum.
LEMMA OnceWritten ==
  ASSUME OnceInv, MarkInv', WriteRecord \/ ClearTrace PROVE OnceInv'
<1>1. /\ MarkInv /\ TypeOK
      /\ UNCHANGED <<clock, transcript, marks, captured, job>>
      /\ \/ step = "counted" /\ step' = "recorded"
         \/ step = "recorded" /\ step' = "cleared"
  BY DEF OnceInv, MarkInv, StretchInv, TypeInv, WriteRecord, ClearTrace, agentVars
<1>2. \A k \in Convs : Held(k)' = Held(k)
  BY DEF Held, WriteRecord, ClearTrace
<1>3. \A k \in Convs : (Mine(k)' <=> Mine(k)) /\ Due(k)' = Due(k)
  BY <1>1 DEF Mine, Due
<1>4. ReadStands' /\ PromptsApart' /\ AllSound'
  BY <1>1, <1>2, <1>3, OnceLess
<1>5. PendingInCapture'
  <2>1. CASE WriteRecord
    BY <1>1, <1>3, <2>1 DEF OnceInv, PendingInCapture, WriteRecord
  <2>2. CASE ClearTrace
    BY <2>2 DEF PendingInCapture, ClearTrace, Nothing
  <2> QED
    BY <2>1, <2>2
<1>6. HeldBehindMark'
  BY <1>1, <1>2, <1>3 DEF OnceInv, HeldBehindMark
<1>7. HeldAtMark'
  BY <1>1, <1>2, <1>3 DEF OnceInv, HeldAtMark, Counting
<1>8. CapturedStands'
  BY <1>1 DEF OnceInv, CapturedStands
<1> QED
  BY <1>4, <1>5, <1>6, <1>7, <1>8 DEF OnceInv

\* The watermark goes past all that was counted, to the prompt of a turn that can still grow.
LEMMA OnceMove ==
  ASSUME OnceInv, MarkInv', MoveMark PROVE OnceInv'
<1> DEFINE c == job.conv
           n == Len(job.turns)
           t == Last(job.turns)
<1>1. /\ MarkInv /\ TypeOK /\ step = "cleared" /\ c \in Convs
      /\ UNCHANGED <<clock, transcript, captured, recorded, pending>>
      /\ marks' = [marks EXCEPT ![c] =
              [id |-> IF AnchorOnUser(t) THEN t.user ELSE t.said, at |-> Ended(t)]]
      /\ \/ AnchorOnUser(t) /\ step' = "marked" /\ job' = job
         \/ ~AnchorOnUser(t) /\ step' = "idle"
  BY JobType DEF OnceInv, MarkInv, StretchInv, TypeInv, MoveMark, Done, agentVars
<1>2. /\ job.turns \in Seq(Turn) /\ job.turns # <<>> /\ n \in 1..n /\ n \in Nat /\ t = job.turns[n]
      /\ t \in Turn /\ RowsOf(t) /\ t.user \in Nat /\ t.said \in Nat
      /\ marks[c].id <= t.user /\ marks[c].id \in Nat
  <2>1. job.turns \in Seq(Turn) /\ job.turns # <<>> /\ TurnsBy(job.turns, clock)
    BY <1>1, CaptureTurns DEF InOrder, MarkInv, StretchInv, TypeInv, CaptureHasTurns
  <2>2. t \in Turn /\ n \in 1..n /\ n \in Nat /\ t = job.turns[n]
    BY <2>1, LastTurn, LenProperties DEF Last
  <2>3. RowsOf(t) /\ marks[c].id <= t.user
    BY <1>1, <2>1, <2>2 DEF TurnsBy, MarkInv, JobPastMark
  <2> QED
    BY <1>1, <2>1, <2>2, <2>3, TurnRows, OnceTypes
<1>3. \A i \in 1..n : job.turns[i].user \in Nat /\ job.turns[i].user <= t.user
  <2>1. \A i \in 1..n : job.turns[i].user \in Nat
    BY <1>1, CaptureTurns, TurnRows
  <2>2. \A i, j \in 1..n : i < j => job.turns[i].user < job.turns[j].user
    BY <1>1, CaptureTurns DEF InOrder
  <2> QED
    BY <1>2, <2>1, <2>2
<1>4. /\ marks'[c].id = IF AnchorOnUser(t) THEN t.user ELSE t.said
      /\ \A k \in Convs : k # c => marks'[k] = marks[k]
  BY <1>1 DEF TypeOK
<1>5. \A k \in Convs : marks[k].id <= marks'[k].id /\ marks[k].id \in Nat /\ marks'[k].id \in Nat
  <2>1. \A k \in Convs : marks[k].id <= marks'[k].id
    BY <1>1, MovedPastMark
  <2>2. \A k \in Convs : marks[k].id \in Nat
    BY <1>1, OnceTypes
  <2>3. \A k \in Convs : marks'[k].id \in Nat
    BY BoundsAssumption DEF MarkInv, StretchInv, TypeInv, TypeOK
  <2> QED
    BY <2>1, <2>2, <2>3
<1>6. t.user <= marks'[c].id /\ (~AnchorOnUser(t) => t.user < marks'[c].id)
  BY <1>2, <1>4 DEF AnchorOnUser, RowsOf
<1>7. \A k \in Convs : Held(k)' = Held(k)
  BY <1>1 DEF Held
<1>8. \A k \in Convs : /\ Mine(k) <=> k = c
                       /\ Mine(k)' => k = c /\ step' = "marked" /\ job' = job
                       /\ step' = "idle" => ~Mine(k)'
  BY <1>1 DEF Mine
<1>9. \A k \in Convs : Due(k)' = Due(k) \/ Due(k)' = <<>>
  BY <1>1, <1>8 DEF Due, Mine
<1>10. ReadStands' /\ PromptsApart' /\ AllSound'
  <2>1. Len(<<>>) = 0
    BY EmptySeq
  <2>2. \A k \in Convs : \A i \in 1..Len(Due(k)') : \E j \in 1..Len(Due(k)) :
          Due(k)'[i] = Due(k)[j]
    <3> SUFFICES ASSUME NEW k \in Convs, NEW i \in 1..Len(Due(k)')
                 PROVE  \E j \in 1..Len(Due(k)) : Due(k)'[i] = Due(k)[j]
      OBVIOUS
    <3>1. Due(k)' # <<>>
      BY <2>1
    <3>2. Due(k)' = Due(k)
      BY <1>9, <3>1
    <3> QED
      BY <3>2
  <2>3. \A k \in Convs : Mine(k)' =>
            /\ Mine(k)
            /\ \A i \in 1..Len(job'.turns) : \E j \in 1..Len(job.turns) :
                   job'.turns[i] = job.turns[j]
    BY <1>8
  <2> QED
    BY <1>1, <1>7, <2>2, <2>3, OnceLess
<1>11. PendingInCapture'
  BY <1>1 DEF OnceInv, PendingInCapture
<1>12. ASSUME NEW k \in Convs, NEW r \in Rows, Held(k)[r] > 0
       PROVE  /\ r <= marks'[k].id
              /\ k = c => r <= t.user
  <2>1. /\ r \in Nat
        /\ \/ r <= marks[k].id
           \/ Mine(k) /\ \E i \in 1..n : job.turns[i].user = r
    BY <1>1, <1>12, OnceTypes DEF OnceInv, HeldBehindMark
  <2> HIDE DEF c, t, n
  <2>2. CASE r <= marks[k].id
    BY <1>2, <1>5, <2>1, <2>2
  <2>3. CASE Mine(k) /\ \E i \in 1..n : job.turns[i].user = r
    BY <1>2, <1>3, <1>5, <1>6, <1>8, <2>1, <2>3
  <2> QED
    BY <2>1, <2>2, <2>3
<1>13. HeldBehindMark'
  BY <1>7, <1>12 DEF HeldBehindMark
<1>14. HeldAtMark'
  <2>1. step' = "marked" => marks'[job'.conv].id = Last(job'.turns).user
    BY <1>1, <1>4
  <2>2. ASSUME NEW k \in Convs, NEW r \in Rows, r = marks'[k].id, Held(k)[r] > 0,
               ~(Mine(k)' /\ step' \in Counting)
        PROVE  captured.user = r /\ Held(k)[r] <= captured.spent
    <3>1. CASE k = c
      <4>1. ~AnchorOnUser(t)
        BY <1>1, <2>2, <3>1 DEF Mine, Counting
      <4>2. t.user < marks'[c].id /\ r <= t.user /\ r = marks'[c].id
        BY <1>6, <1>12, <2>2, <3>1, <4>1
      <4>3. marks'[c].id \in Nat /\ t.user \in Nat
        BY <1>1, <1>2, <1>5
      <4> QED
        BY <4>2, <4>3
    <3>2. CASE k # c
      BY <1>4, <1>8, <2>2, <3>2 DEF OnceInv, HeldAtMark
    <3> QED
      BY <3>1, <3>2
  <2> QED
    BY <1>1, <1>7, <2>1, <2>2 DEF HeldAtMark
<1>15. CapturedStands'
  BY <1>1 DEF OnceInv, CapturedStands
<1> QED
  BY <1>10, <1>11, <1>13, <1>14, <1>15 DEF OnceInv

\* A capture is cut off after it has counted; and one forgets what another conversation, still
\* marked at that turn, was captured with, as there is one partial_turn_tokens for them all.
CutOff == step \in Counting /\ (Crash \/ WriteFails)
Displaces ==
    /\ RememberCapture
    /\ \E c \in Convs \ {job.conv} : captured.user # 0 /\ marks[c].id = captured.user

\* Otherwise remembering the turn captured mid-flight keeps it.

LEMMA OnceRemember ==
  ASSUME OnceInv, MarkInv', RememberCapture, ~Displaces PROVE OnceInv'
<1> DEFINE c == job.conv
           n == Len(job.turns)
           t == Last(job.turns)
<1>1. /\ MarkInv /\ TypeOK /\ step = "marked" /\ step' = "idle" /\ c \in Convs /\ Mine(c)
      /\ UNCHANGED <<clock, transcript, marks, recorded, pending>>
      /\ captured' = [user |-> t.user, spent |-> t.spent]
  BY JobType DEF OnceInv, MarkInv, StretchInv, TypeInv, RememberCapture, Done, agentVars, Mine
<1>2. n \in 1..n /\ t = job.turns[n] /\ t \in Turn /\ t.user <= clock
      /\ t.user \in Rows /\ t.spent \in Nat
  <2>1. /\ job.turns \in Seq(Turn) /\ job.turns # <<>> /\ TurnsBy(job.turns, clock)
        /\ clock \in Nat
    BY <1>1, CaptureTurns, OnceTypes DEF InOrder, MarkInv, StretchInv, TypeInv, CaptureHasTurns
  <2>2. t \in Turn /\ n \in 1..n /\ t = job.turns[n]
    BY <2>1, LastTurn DEF Last
  <2>3. t.user <= clock
    BY <2>1, <2>2, UsersInOrder
  <2> QED
    BY <2>2, <2>3, SpanRows
<1>3. \A k \in Convs : /\ Held(k)' = Held(k) /\ ~Mine(k)' /\ Due(k)' = <<>> /\ Len(<<>>) = 0
  BY <1>1, EmptySeq DEF Held, Mine, Due
<1>4. ReadStands' /\ PromptsApart' /\ AllSound'
  <2>1. \A k \in Convs : \A i \in 1..Len(Due(k)') : FALSE
    BY <1>3
  <2> QED
    BY <1>1, <1>3, <2>1, OnceLess
<1>5. PendingInCapture'
  BY <1>1 DEF OnceInv, PendingInCapture
<1>6. HeldBehindMark'
  BY <1>1, <1>3 DEF OnceInv, HeldBehindMark
<1>7. HeldAtMark'
  <2> SUFFICES ASSUME NEW k \in Convs, NEW r \in Rows, r = marks[k].id, Held(k)[r] > 0
               PROVE  t.user = r /\ Held(k)[r] <= t.spent
    BY <1>1, <1>3 DEF HeldAtMark
  <2>1. CASE k = c
    <3>1. r = t.user
      BY <1>1, <2>1 DEF OnceInv, HeldAtMark
    <3>2. Sound(transcript[c], job.turns, Held(c))
      BY <1>1 DEF OnceInv, AllSound, Due
    <3>3. Held(c)[t.user] <= t.spent
      BY <1>2, <3>2 DEF Sound
    <3> QED
      BY <2>1, <3>1, <3>3
  <2>2. CASE k # c
    <3>1. captured.user = r
      BY <1>1, <2>2 DEF OnceInv, HeldAtMark, Mine
    <3>2. r # 0
      BY DEF Rows
    <3> QED
      BY <2>2, <3>1, <3>2 DEF Displaces
  <2> QED
    BY <2>1, <2>2
<1>8. CapturedStands'
  <2>1. ASSUME NEW k \in Convs, NEW i \in 1..Len(transcript[k]), transcript[k][i].user = t.user
        PROVE  t.spent <= transcript[k][i].spent
    <3>1. PromptOf(k, t.user) /\ PromptOf(c, t.user)
      BY <1>1, <1>2, <2>1 DEF PromptOf
    <3>2. k = c
      BY <1>1, <1>2, <3>1 DEF OnceInv, PromptsApart
    <3> QED
      BY <1>1, <1>2, <2>1, <3>2 DEF OnceInv, ReadStands
  <2> QED
    BY <1>1, <1>2, <2>1 DEF CapturedStands
<1> QED
  BY <1>4, <1>5, <1>6, <1>7, <1>8 DEF OnceInv

\* Nothing counts at first, and no other step counts.
LEMMA OnceFirst == Init => OnceInv
<1> SUFFICES ASSUME Init PROVE OnceInv
  OBVIOUS
<1>1. MarkInv
  BY StretchInvInit, FirstMark DEF MarkInv
<1>2. /\ step = "idle" /\ captured = NoCapture /\ clock \in Nat
      /\ \A k \in Convs, r \in Rows : recorded[k][r] = 0 /\ pending[k][r] = 0
      /\ \A k \in Convs : transcript[k] = <<>> /\ Len(transcript[k]) = 0
  BY BoundsAssumption, EmptySeq DEF Init, Nothing
<1>3. \A k \in Convs : /\ ~Mine(k) /\ Due(k) = <<>> /\ Held(k) \in [Rows -> Nat]
                       /\ \A r \in Rows : Held(k)[r] = 0
  BY <1>1, <1>2, OnceTypes DEF Mine, Due, Held
<1>4. PendingInCapture /\ HeldBehindMark /\ HeldAtMark /\ CapturedStands /\ ReadStands
  <2>1. PendingInCapture
    BY <1>2 DEF PendingInCapture
  <2>2. HeldBehindMark
    BY <1>3 DEF HeldBehindMark
  <2>3. HeldAtMark
    BY <1>2, <1>3 DEF HeldAtMark
  <2>4. CapturedStands
    BY <1>2 DEF CapturedStands, NoCapture
  <2>5. ReadStands
    BY <1>3 DEF ReadStands
  <2> QED
    BY <2>1, <2>2, <2>3, <2>4, <2>5
<1>5. \A k \in Convs, r \in Rows : ~PromptOf(k, r)
  BY <1>2, <1>3 DEF PromptOf
<1>6. PromptsApart
  BY <1>5 DEF PromptsApart
<1>7. ASSUME NEW k \in Convs PROVE Sound(<<>>, <<>>, Held(k))
  <2>1. InOrder(<<>>) /\ Len(<<>>) = 0
    BY EmptySeq DEF InOrder
  <2>2. \A r : With(<<>>, r) = {}
    BY <2>1, WithOne
  <2> QED
    BY <1>3, <2>1, <2>2 DEF Sound
<1>8. AllSound
  BY <1>2, <1>3, <1>7 DEF AllSound
<1> QED
  BY <1>1, <1>4, <1>6, <1>8 DEF OnceInv

LEMMA OnceStep == OnceInv /\ MarkInv' /\ [Next]_vars /\ ~CutOff /\ ~Displaces => OnceInv'
<1> SUFFICES ASSUME OnceInv, MarkInv', [Next]_vars, ~CutOff, ~Displaces PROVE OnceInv'
  OBVIOUS
<1>1. MarkInv /\ TypeOK /\ clock \in Nat /\ clock' \in Nat
      /\ \A k \in Convs : marks[k].id \in Nat
  <2>1. MarkInv /\ TypeOK /\ clock' \in Nat
    BY BoundsAssumption DEF OnceInv, MarkInv, StretchInv, TypeInv, TypeOK
  <2> QED
    BY <2>1, OnceTypes
<1>2. ASSUME NEW c \in Convs, Agent(c) PROVE OnceInv'
  BY <1>2, OnceAgent
<1>3. ASSUME NEW c \in Convs, NEW mode \in {"poll", "flush", "final"}, StartParse(c, mode)
      PROVE  OnceInv'
  BY <1>3, OnceStartParse
<1>4. CASE Capture
  BY <1>4, OnceChoose, OnceCount, OnceWritten, OnceMove, OnceRemember DEF Capture
<1>5. CASE WriteFails
  BY <1>5 DEF WriteFails, CutOff, Counting
<1>6. CASE Crash
  <2>1. step \notin Counting
    BY <1>6 DEF CutOff
  <2>2. Done /\ UNCHANGED <<clock, transcript, marks, captured, pending, recorded>>
    BY <1>6 DEF Crash, agentVars, savedVars
  <2>3. \A k \in Convs : marks[k].id <= marks'[k].id
    BY <1>1, <2>2
  <2> QED
    BY <2>1, <2>2, <2>3, OnceDone
<1>7. CASE Lifecycle /\ ~Crash
  <2>1. /\ UNCHANGED <<transcript, marks, captured, pending, recorded, step, job>>
        /\ clock' = clock \/ clock' = clock + 1
    BY <1>7 DEF Lifecycle, UserStop, UserStart, Start, Terminate, Exit, Tick, agentVars,
                savedVars, trackerVars
  <2>2. clock <= clock'
    BY <1>1, <2>1
  <2> QED
    BY <1>1, <2>1, <2>2, OnceQuiet
<1>8. CASE UNCHANGED vars
  BY <1>1, <1>8, OnceQuiet DEF vars, savedVars, trackerVars
<1> QED
  BY <1>2, <1>3, <1>4, <1>5, <1>6, <1>7, <1>8 DEF Next

\* No turn's tokens are in the commits twice, unless a crash or a refused commit cuts a capture
\* off between counting its turns and remembering that it has, or a second conversation is
\* captured mid-flight before the first one is captured again: however often a turn is captured
\* while it runs, whichever turns a compaction makes one, and whatever the tracker's stops,
\* restarts and stop record leave to be read again.
THEOREM NoTurnCountedTwice ==
  Spec /\ [][~CutOff]_vars /\ [][~Displaces]_vars => []CountedOnce
<1>1. Init => OnceInv
  BY OnceFirst
<1>2. Init => MarkInv
  BY StretchInvInit, FirstMark DEF MarkInv
<1>3. MarkInv /\ [Next]_vars => MarkInv'
  BY StretchInvStep, MarkStep DEF MarkInv
<1>4. OnceInv /\ [Next]_vars /\ [~CutOff]_vars /\ [~Displaces]_vars => OnceInv'
  <2> SUFFICES ASSUME OnceInv, [Next]_vars, [~CutOff]_vars, [~Displaces]_vars PROVE OnceInv'
    OBVIOUS
  <2>1. MarkInv'
    BY <1>3 DEF OnceInv
  <2>2. CASE UNCHANGED vars
    <3>1. clock \in Nat /\ clock <= clock' /\ clock' \in Nat
      BY <2>2, OnceTypes DEF OnceInv, vars
    <3> QED
      BY <2>1, <2>2, <3>1, OnceQuiet DEF vars, savedVars, trackerVars
  <2>3. CASE ~UNCHANGED vars
    <3>1. ~CutOff /\ ~Displaces
      BY <2>3
    <3> QED
      BY <2>1, <3>1, OnceStep
  <2> QED
    BY <2>2, <2>3
<1>5. OnceInv => CountedOnce
  BY SoundCountsOnce
<1> QED
  BY <1>1, <1>4, <1>5, PTL DEF Spec

\* With one conversation, no crash and no refused commit, never.
COROLLARY NoTurnCountedTwiceAlone ==
  ASSUME \A a, b \in Convs : a = b, Budget["crashes"] = 0, Budget["failures"] = 0
  PROVE  Spec => []CountedOnce
<1> DEFINE Spared == TypeInv /\ budget["crashes"] = 0 /\ budget["failures"] = 0
<1>1. Init => Spared
  BY TypeInvInit DEF Init
<1>2. Spared /\ [Next]_vars => Spared'
  <2> SUFFICES ASSUME Spared, [Next]_vars PROVE Spared'
    OBVIOUS
  <2>1. TypeInv'
    BY TypeInvStep
  <2>2. budget' = budget \/ \E event \in Events : Spend(event)
    BY DEF Next, Agent, Prompt, Reply, Interrupt, Delegate, HelperReports, Compact, StartParse,
           Capture, ChooseTurns, CountTurns, WriteRecord, ClearTrace, MoveMark, RememberCapture,
           WriteFails, Lifecycle, UserStop, UserStart, Start, Terminate, Exit, Crash, vars, Events
  <2>3. \A event \in Events : Spend(event) =>
          budget'["crashes"] = budget["crashes"] /\ budget'["failures"] = budget["failures"]
    BY DEF Spend, TypeInv, TypeOK, Events
  <2> QED
    BY <2>1, <2>2, <2>3
<1>3. Spared => ~CutOff
  BY DEF CutOff, Crash, WriteFails, Spend
<1>4. Spared => ~Displaces
  <2> SUFFICES ASSUME Spared, Displaces PROVE FALSE
    OBVIOUS
  <2>1. job.conv \in Convs
    BY JobType DEF Displaces, RememberCapture, TypeInv
  <2> QED
    BY <2>1 DEF Displaces
<1>5. Spec => [][~CutOff]_vars /\ [][~Displaces]_vars
  BY <1>1, <1>2, <1>3, <1>4, PTL DEF Spec
<1> QED
  BY <1>5, NoTurnCountedTwice, PTL

=============================================================================
