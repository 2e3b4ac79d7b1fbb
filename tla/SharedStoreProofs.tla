-------------------------- MODULE SharedStoreProofs --------------------------
(***************************************************************************)
(* Proofs about SharedStore, for any clones, threads, contributors and     *)
(* entries, with operations of a clone side by side and filtered fetches:  *)
(* every write of the shared ref is one SharedShelf allows, what was       *)
(* reported as pushed stays, a clone lists nothing that never was on the   *)
(* remote, and an auto-share remembers only what is there.                 *)
(***************************************************************************)
EXTENDS SharedStore, FiniteSetTheorems, TLAPS

-----------------------------------------------------------------------------
(* The types.                                                              *)

Refs == [sha : Shas, tree : Trees, hollow : SUBSET Entries]
Points == {"idle", "merging", "writing", "pushing", "syncing", "removing", "failed"}
Answers == {"none", "pushed", "behind", "failed", "removed", "died"}
Budgets == [turns : 0..MaxTurns, ops : [Clones -> Nat], events : 0..MaxEvents]

\* TypeOK, with its sets named.
LEMMA Typed ==
    TypeOK <=>
        /\ remote \in [born : BOOLEAN, tree : Trees]
        /\ local \in [Clones -> Refs] /\ mirror \in [Clones -> SUBSET Entries]
        /\ conv \in [Clones -> Trees] /\ digest \in [Clones -> Trees]
        /\ pc \in [Threads -> Points] /\ op \in [Threads -> Ops] /\ work \in [Threads -> Works]
        /\ answer \in [Threads -> Answers] /\ budget \in Budgets
        /\ gone \in Trees /\ crossed \subseteq Threads /\ marred \subseteq Clones
  BY DEF TypeOK, Refs, Points, Answers, Budgets

\* The same of the next state.
LEMMA TypedNext ==
    TypeOK' <=>
        /\ remote' \in [born : BOOLEAN, tree : Trees]
        /\ local' \in [Clones -> Refs] /\ mirror' \in [Clones -> SUBSET Entries]
        /\ conv' \in [Clones -> Trees] /\ digest' \in [Clones -> Trees]
        /\ pc' \in [Threads -> Points] /\ op' \in [Threads -> Ops] /\ work' \in [Threads -> Works]
        /\ answer' \in [Threads -> Answers] /\ budget' \in Budgets
        /\ gone' \in Trees /\ crossed' \subseteq Threads /\ marred' \subseteq Clones
  BY DEF TypeOK, Refs, Points, Answers, Budgets

\* An operation of no kind is an operation, and no work is work.
LEMMA NoOpType == NoOp \in Ops /\ NoWork \in Works /\ Nothing \in Trees
<1>1. Nothing \in Trees
  BY DEF Nothing, Trees
<1>2. NoOp \in Ops
  BY StoreAssumption DEF NoOp, Ops
<1>3. NoWork \in Works
  BY <1>1 DEF NoWork, Works, Shas
<1> QED BY <1>1, <1>2, <1>3

\* Changing fields of what is in hand, one at a time.
LEMMA WorkFields ==
    ASSUME NEW w \in Works, NEW l \in Shas, NEW S \in SUBSET Entries, NEW T \in Trees,
           NEW n \in 0..2
    PROVE  /\ [w EXCEPT !.try = n] \in Works
           /\ [w EXCEPT !.dropped = S] \in Works
           /\ [w EXCEPT !.hollow = S] \in Works
           /\ [w EXCEPT !.lease = l] \in Works
           /\ [w EXCEPT !.tree = T] \in Works
<1>1. [w EXCEPT !.try = n] \in Works
  BY DEF Works
<1>2. [w EXCEPT !.dropped = S] \in Works
  BY DEF Works
<1>3. [w EXCEPT !.hollow = S] \in Works
  BY DEF Works
<1>4. [w EXCEPT !.lease = l] \in Works
  BY DEF Works
<1>5. [w EXCEPT !.tree = T] \in Works
  BY DEF Works
<1> QED BY <1>1, <1>2, <1>3, <1>4, <1>5

\* What a removal and a merge note.
LEMMA WorkNoted ==
    ASSUME NEW w \in Works, NEW l \in Shas, NEW S \in SUBSET Entries, NEW T \in Trees
    PROVE  /\ [w EXCEPT !.lease = l, !.tree = T] \in Works
           /\ [w EXCEPT !.lease = l, !.tree = T, !.hollow = S] \in Works
  BY DEF Works

\* Renaming the snapshot of a ref leaves a ref.
LEMMA RefField ==
    ASSUME NEW r \in Refs, NEW l \in Shas PROVE [r EXCEPT !.sha = l] \in Refs
  BY DEF Refs

\* What is spent of the bounds leaves bounds.
LEMMA SpendType ==
    ASSUME TypeOK, NEW what \in {"turns", "events"}, Spend(what) PROVE budget' \in Budgets
<1>1. MaxTurns \in Nat /\ MaxEvents \in Nat
  BY StoreAssumption
<1>2. CASE what = "turns"
  BY <1>1, <1>2 DEF Spend, TypeOK, Budgets
<1>3. CASE what = "events"
  BY <1>1, <1>3 DEF Spend, TypeOK, Budgets
<1> QED BY <1>2, <1>3

\* What a fetch leaves is a ref.
LEMMA FetchedType ==
    ASSUME TypeOK, NEW c \in Clones, NEW omitted \in SUBSET Entries
    PROVE  /\ Fetched(c, omitted) \in Refs
           /\ Fetched(c, omitted).sha = "tip" /\ Fetched(c, omitted).tree = remote.tree
  BY DEF Fetched, TypeOK, Shas, Refs, In

\* What a crossing notes are threads and clones.
LEMMA CrossType ==
    ASSUME TypeOK, NEW c \in Clones, NEW others \in SUBSET Threads, Crosses(c, others)
    PROVE  crossed' \subseteq Threads /\ marred' \subseteq Clones
  BY DEF Crosses, TypeOK

\* A beginning keeps the types.
LEMMA BeginType ==
    ASSUME TypeOK, NEW t \in Threads, NEW e \in Entries,
           NEW kind \in {"share", "auto", "overwrite", "unshare"},
           NEW sent \in SUBSET Turns, NEW state \in {"merging", "syncing"},
           Begin(t, kind, e, sent, state)
    PROVE  TypeOK'
<1>1. [kind |-> kind, entry |-> e, sent |-> sent] \in Ops
  BY DEF Ops
<1>2. op' \in [Threads -> Ops]
  BY <1>1 DEF Begin, TypeOK
<1>3. pc' \in [Threads -> Points]
  BY DEF Begin, TypeOK, Goto, Points
<1>4. budget' \in Budgets
  <2>1. Here(t) \in Clones /\ budget \in Budgets
    BY StoreAssumption, Typed DEF Here
  <2>2. budget.ops[Here(t)] - 1 \in Nat
    BY <2>1 DEF Begin, Budgets
  <2>3. [budget.ops EXCEPT ![Here(t)] = @ - 1] \in [Clones -> Nat]
    BY <2>1, <2>2 DEF Budgets
  <2>4. budget' = [budget EXCEPT !.ops = [budget.ops EXCEPT ![Here(t)] = @ - 1]]
    BY DEF Begin
  <2> QED BY <2>1, <2>3, <2>4 DEF Budgets
<1>5. work' \in [Threads -> Works]
  <2>1. [NoWork EXCEPT !.try = 1] \in Works
    BY NoOpType DEF Works
  <2> QED BY <2>1 DEF Begin, TypeOK
<1>6. crossed' \subseteq Threads
  BY DEF Begin, TypeOK
<1> QED BY <1>2, <1>3, <1>4, <1>5, <1>6, TypedNext, Typed DEF Begin

\* What the remote's update of the ref changes.
LEMMA LandEffect ==
    ASSUME NEW t \in Threads, Land(t), ~UpToDate(t)
    PROVE  /\ remote' = [born |-> TRUE, tree |-> local[Here(t)].tree]
           /\ local' = [c \in Clones |->
                           [local[c] EXCEPT !.sha = IF c = Here(t) THEN "tip" ELSE Outdate(@)]]
           /\ gone' = [e \in Entries |->
                          IF e \in Loose(t)
                          THEN gone[e] \cup (remote.tree[e] \ local[Here(t)].tree[e]) ELSE gone[e]]
  BY Zenon DEF Land

\* The leases the remote's update leaves.
LEMMA OutdatedWork ==
    ASSUME TypeOK, NEW t \in Threads
    PROVE  /\ Outdated(t) \in [Threads -> Works]
           /\ \A u \in Threads :
                 /\ Outdated(t)[u].tree = work[u].tree /\ Outdated(t)[u].dropped = work[u].dropped
                 /\ Outdated(t)[u].try = work[u].try /\ Outdated(t)[u].hollow = work[u].hollow
                 /\ ~UpToDate(t) => Outdated(t)[u].lease = Outdate(work[u].lease)
<1>1. work \in [Threads -> Works]
  BY Typed
<1>2. CASE UpToDate(t)
  BY <1>1, <1>2 DEF Outdated
<1>3. CASE ~UpToDate(t)
  <2>1. ASSUME NEW u \in Threads
        PROVE  LET name == Outdate(work[u].lease)
                   w == [work[u] EXCEPT !.lease = name]
               IN  /\ w \in Works /\ w.tree = work[u].tree /\ w.dropped = work[u].dropped
                   /\ w.try = work[u].try /\ w.hollow = work[u].hollow /\ w.lease = name
    <3> DEFINE name == Outdate(work[u].lease)
    <3>1. work[u] \in Works
      BY <1>1
    <3>2. name \in Shas
      BY <3>1 DEF Works, Outdate, Shas
    <3> HIDE DEF name
    <3>3. LET w == [work[u] EXCEPT !.lease = name]
          IN  /\ w \in Works /\ w.tree = work[u].tree /\ w.dropped = work[u].dropped
              /\ w.try = work[u].try /\ w.hollow = work[u].hollow /\ w.lease = name
      BY <3>1, <3>2 DEF Works
    <3> QED BY <3>3 DEF name
  <2>2. Outdated(t) = [u \in Threads |-> [work[u] EXCEPT !.lease = Outdate(@)]]
    BY <1>3, Zenon DEF Outdated
  <2> QED BY <2>1, <2>2
<1> QED BY <1>2, <1>3

\* The remote's update of the ref keeps the types of what it changes.
LEMMA LandType ==
    ASSUME TypeOK, NEW t \in Threads, Land(t)
    PROVE  /\ remote' \in [born : BOOLEAN, tree : Trees]
           /\ local' \in [Clones -> Refs]
           /\ gone' \in Trees
<1> USE Typed
<1>1. CASE UpToDate(t)
  <2>1. UNCHANGED <<remote, local, gone>>
    BY <1>1, Zenon DEF Land
  <2> QED BY <2>1
<1>2. CASE ~UpToDate(t)
  <2>1. Here(t) \in Clones
    BY StoreAssumption DEF Here
  <2>2. remote' \in [born : BOOLEAN, tree : Trees]
    <3>1. local[Here(t)].tree \in Trees
      BY <2>1 DEF Refs
    <3>2. remote' = [born |-> TRUE, tree |-> local[Here(t)].tree]
      BY <1>2, LandEffect, Zenon
    <3> QED BY <3>1, <3>2
  <2>3. ASSUME NEW c \in Clones
        PROVE  [local[c] EXCEPT !.sha = IF c = Here(t) THEN "tip" ELSE Outdate(@)] \in Refs
    <3>1. local[c] \in Refs
      OBVIOUS
    <3>2. (IF c = Here(t) THEN "tip" ELSE Outdate(local[c].sha)) \in Shas
      BY <3>1 DEF Refs, Outdate, Shas
    <3> QED BY <3>1, <3>2, RefField, Zenon
  <2>4. local' \in [Clones -> Refs]
    <3>1. local' = [c \in Clones |->
                      [local[c] EXCEPT !.sha = IF c = Here(t) THEN "tip" ELSE Outdate(@)]]
      BY <1>2, LandEffect, Zenon
    <3> QED BY <2>3, <3>1, Zenon
  <2>5. ASSUME NEW e \in Entries PROVE gone[e] \cup (remote.tree[e] \ local[Here(t)].tree[e]) \subseteq Turns
    BY <2>1 DEF Trees
  <2>6. \A e \in Entries : gone[e] \in SUBSET Turns
    BY DEF Trees
  <2>7. gone' \in Trees
    <3> DEFINE taken(e) == gone[e] \cup (remote.tree[e] \ local[Here(t)].tree[e])
    <3>1. gone' = [e \in Entries |-> IF e \in Loose(t) THEN taken(e) ELSE gone[e]]
      BY <1>2, LandEffect, Zenon
    <3>2. \A e \in Entries : taken(e) \in SUBSET Turns
      BY <2>5
    <3> HIDE DEF taken
    <3>3. \A e \in Entries : (IF e \in Loose(t) THEN taken(e) ELSE gone[e]) \in SUBSET Turns
      BY <2>6, <3>2
    <3> QED BY <3>1, <3>3 DEF Trees
  <2> QED BY <2>2, <2>4, <2>7
<1> QED BY <1>1, <1>2

\* What a finished operation remembers is a tree of turns.
LEMMA RecordType ==
    ASSUME TypeOK, NEW t \in Threads, NEW ok \in BOOLEAN, Record(t, ok)
    PROVE  digest' \in [Clones -> Trees]
<1>1. op[t].entry \in Entries /\ op[t].sent \in SUBSET Turns
  BY DEF TypeOK, Ops
<1>2. Here(t) \in Clones
  BY StoreAssumption DEF Here
<1> QED BY <1>1, <1>2 DEF Record, TypeOK, Trees

\* Leaving an entry out leaves refs.
LEMMA WithoutType ==
    ASSUME TypeOK, NEW c \in Clones, NEW e \in Entries PROVE Without(c, e) \in [Clones -> Refs]
  BY DEF Without, TypeOK, Shas, Trees, Refs

\* One step keeps the types.
LEMMA TypeStep == ASSUME TypeOK, [Next]_vars PROVE TypeOK'
<1> USE Typed
<1>a. \A t \in Threads : /\ Here(t) \in Clones /\ op[t].entry \in Entries
                         /\ op[t].sent \in SUBSET Turns /\ work[t] \in Works
                         /\ [work EXCEPT ![t] = NoWork] \in [Threads -> Works]
                         /\ Threads \ {t} \in SUBSET Threads
  BY StoreAssumption, NoOpType DEF Here, Ops
<1>1. ASSUME NEW c \in Clones, NEW e \in Entries, Say(c, e) PROVE TypeOK'
  <2>1. budget.turns \in Turns
    BY StoreAssumption DEF Turns, Budgets
  <2>2. conv' \in [Clones -> Trees]
    BY <1>1, <2>1 DEF Say, Trees
  <2>3. budget' \in Budgets
    BY <1>1, SpendType DEF Say
  <2> QED BY <1>1, <2>2, <2>3, TypedNext DEF Say
<1>2. ASSUME NEW c \in Clones, NEW e \in Entries, ResumeShared(c, e) PROVE TypeOK'
  <2>1. conv' \in [Clones -> Trees]
    BY <1>2 DEF ResumeShared, Trees
  <2>2. CASE UNCHANGED <<local, crossed, marred>>
    BY <1>2, <2>1, <2>2, TypedNext DEF ResumeShared
  <2>3. CASE /\ local' = [local EXCEPT ![c] = [Fetched(c, {}) EXCEPT !.hollow = @ \ {e}]]
             /\ Crosses(c, Threads)
    <3>1. [Fetched(c, {}) EXCEPT !.hollow = @ \ {e}] \in Refs
      BY FetchedType DEF Refs
    <3>2. local' \in [Clones -> Refs]
      BY <2>3, <3>1
    <3>3. crossed' \subseteq Threads /\ marred' \subseteq Clones
      BY <2>3, CrossType
    <3> QED BY <1>2, <2>1, <3>2, <3>3, TypedNext DEF ResumeShared
  <2> QED BY <1>2, <2>2, <2>3 DEF ResumeShared
<1>3. ASSUME NEW c \in Clones, ListShared(c) PROVE TypeOK'
  <2>1. budget' \in Budgets
    BY <1>3, SpendType DEF ListShared
  <2> QED BY <1>3, <2>1, TypedNext DEF ListShared, In
<1>4. ASSUME NEW t \in Threads, NEW e \in Entries, Share(t, e) \/ AutoShare(t, e) \/ Unshare(t, e)
      PROVE  TypeOK'
  <2>1. conv[Here(t)][e] \in SUBSET Turns
    BY <1>a DEF Trees
  <2>2. CASE Share(t, e)
    BY <2>1, <2>2, BeginType DEF Share
  <2>3. CASE AutoShare(t, e)
    BY <2>1, <2>3, BeginType DEF AutoShare
  <2>4. CASE Unshare(t, e)
    BY <2>4, BeginType DEF Unshare
  <2> QED BY <1>4, <2>2, <2>3, <2>4
<1>5. ASSUME NEW t \in Threads, Overwrite(t) PROVE TypeOK'
  BY <1>5, <1>a, BeginType DEF Overwrite
<1>6. ASSUME NEW t \in Threads, Merge(t) PROVE TypeOK'
  <2>1. Combined(t) \in SUBSET Turns
    BY <1>a DEF Combined, Stored, Trees, Refs
  <2>2. CASE Behind(t)
    <3>1. pc' \in [Threads -> Points] /\ answer' \in [Threads -> Answers]
      BY <1>6, <2>2 DEF Merge, Finish, Goto, Points, Answers
    <3> QED BY <1>6, <1>a, <2>2, <3>1, TypedNext DEF Merge, Ended
  <2>3. CASE ~Behind(t)
    <3> DEFINE new == [local[Here(t)].tree EXCEPT ![op[t].entry] = Combined(t)]
    <3>1. new \in Trees /\ local[Here(t)].sha \in Shas /\ local[Here(t)].hollow \in SUBSET Entries
      BY <1>a, <2>1 DEF Trees, Refs
    <3>2. work' = [work EXCEPT ![t] = [work[t] EXCEPT !.lease = local[Here(t)].sha, !.tree = new,
                                                      !.hollow = local[Here(t)].hollow]]
      BY <1>6, <2>3, <1>a DEF Merge
    <3> HIDE DEF new
    <3>3. work' \in [Threads -> Works]
      BY <1>a, <3>1, <3>2, WorkNoted
    <3>4. pc' \in [Threads -> Points]
      BY <1>6, <2>3 DEF Merge, Goto, Points
    <3> QED BY <1>6, <2>3, <3>3, <3>4, TypedNext DEF Merge
  <2> QED BY <2>2, <2>3
<1>7. ASSUME NEW t \in Threads, Write(t) PROVE TypeOK'
  <2>1. PICK dropped \in SUBSET Entries :
             /\ local' = [local EXCEPT ![Here(t)] =
                   [sha |-> "other",
                    tree |-> [x \in Entries |-> IF x \in dropped THEN {} ELSE work[t].tree[x]],
                    hollow |-> {x \in work[t].hollow \ (dropped \cup {op[t].entry}) :
                                    @.tree[x] = work[t].tree[x] => x \in @.hollow}]]
             /\ work' = [work EXCEPT ![t].dropped = dropped]
    BY <1>7 DEF Write
  <2>2. [x \in Entries |-> IF x \in dropped THEN {} ELSE work[t].tree[x]] \in Trees
    BY <1>a DEF Works, Trees
  <2>3. work[t].hollow \subseteq Entries
    BY <1>a DEF Works
  <2>4. local' \in [Clones -> Refs]
    BY <1>a, <2>1, <2>2, <2>3 DEF Shas, Refs
  <2>5. work' \in [Threads -> Works]
    <3>1. [work[t] EXCEPT !.dropped = dropped] \in Works
      <4>1. "tip" \in Shas /\ 2 \in 0..2
        BY DEF Shas
      <4> QED BY <1>a, <4>1, WorkFields, NoOpType
    <3> QED BY <2>1, <3>1
  <2>6. pc' \in [Threads -> Points]
    BY <1>7 DEF Write, Goto, Points
  <2>7. crossed' \subseteq Threads /\ marred' \subseteq Clones
    BY <1>7, <1>a, CrossType DEF Write
  <2> QED BY <1>7, <2>4, <2>5, <2>6, <2>7, TypedNext DEF Write
<1>8. ASSUME NEW t \in Threads, PushLands(t) PROVE TypeOK'
  <2>1. digest' \in [Clones -> Trees]
    BY <1>8, RecordType DEF PushLands
  <2>2. mirror' \in [Clones -> SUBSET Entries]
    BY <1>8 DEF PushLands
  <2>3. work' \in [Threads -> Works]
    BY <1>8, OutdatedWork, NoOpType DEF PushLands, Ended
  <2>4. pc' \in [Threads -> Points] /\ answer' \in [Threads -> Answers]
    BY <1>8 DEF PushLands, Finish, Goto, Points, Answers
  <2>5. crossed' \subseteq Threads /\ marred' \subseteq Clones
    BY <1>8, <1>a, CrossType DEF PushLands
  <2> QED BY <1>8, <2>1, <2>2, <2>3, <2>4, <2>5, LandType, TypedNext DEF PushLands
<1>9. ASSUME NEW t \in Threads, PushRejected(t) PROVE TypeOK'
  <2>1. [work[t] EXCEPT !.try = 2] \in Works
    <3>1. "tip" \in Shas /\ 2 \in 0..2 /\ {} \in SUBSET Entries
      BY DEF Shas
    <3> QED BY <1>a, <3>1, WorkFields, NoOpType
  <2>2. work' \in [Threads -> Works]
    BY <1>9, <2>1 DEF PushRejected
  <2>3. pc' \in [Threads -> Points]
    BY <1>9 DEF PushRejected, Goto, Points
  <2> QED BY <1>9, <2>2, <2>3, TypedNext DEF PushRejected
<1>10. ASSUME NEW t \in Threads, PushFails(t) PROVE TypeOK'
  <2>1. budget' \in Budgets
    BY <1>10, SpendType DEF PushFails
  <2>2. pc' \in [Threads -> Points]
    BY <1>10 DEF PushFails, Goto, Points
  <2>3. /\ remote' \in [born : BOOLEAN, tree : Trees] /\ local' \in [Clones -> Refs]
        /\ gone' \in Trees /\ work' \in [Threads -> Works]
    BY <1>10, LandType, OutdatedWork DEF PushFails
  <2> QED BY <1>10, <2>1, <2>2, <2>3, TypedNext DEF PushFails
<1>11. ASSUME NEW t \in Threads, Sync(t) PROVE TypeOK'
  <2>1. pc' \in [Threads -> Points]
    BY <1>11 DEF Sync, Goto, Points
  <2>2. budget' \in Budgets
    BY <1>11, SpendType DEF Sync
  <2>3. CASE UNCHANGED <<local, crossed, marred>>
    BY <1>11, <2>1, <2>2, <2>3, TypedNext DEF Sync
  <2>4. CASE /\ \E omitted \in SUBSET News(Here(t)) :
                   local' = [local EXCEPT ![Here(t)] = Fetched(Here(t), omitted)]
             /\ Crosses(Here(t), Threads \ {t})
    <3>1. PICK omitted \in SUBSET News(Here(t)) :
                   local' = [local EXCEPT ![Here(t)] = Fetched(Here(t), omitted)]
      BY <2>4
    <3>2. omitted \in SUBSET Entries
      BY DEF News, In
    <3>3. local' \in [Clones -> Refs]
      BY <1>a, <3>1, <3>2, FetchedType
    <3>4. crossed' \subseteq Threads /\ marred' \subseteq Clones
      BY <2>4, <1>a, CrossType
    <3> QED BY <1>11, <2>1, <2>2, <3>3, <3>4, TypedNext DEF Sync
  <2> QED BY <1>11, <2>3, <2>4 DEF Sync
<1>12. ASSUME NEW t \in Threads, GiveUp(t) PROVE TypeOK'
  <2>1. local' \in [Clones -> Refs]
    BY <1>12, <1>a, WithoutType DEF GiveUp
  <2>2. digest' \in [Clones -> Trees]
    BY <1>12, RecordType DEF GiveUp
  <2>3. pc' \in [Threads -> Points] /\ answer' \in [Threads -> Answers]
    BY <1>12 DEF GiveUp, Finish, Goto, Points, Answers
  <2>4. crossed' \subseteq Threads /\ marred' \subseteq Clones
    BY <1>12, <1>a, CrossType DEF GiveUp
  <2> QED BY <1>12, <1>a, <2>1, <2>2, <2>3, <2>4, TypedNext DEF GiveUp, Ended
<1>13. ASSUME NEW t \in Threads, Remove(t) PROVE TypeOK'
  <2>1. CASE local[Here(t)].tree[op[t].entry] = {}
    <3>1. /\ mirror' = [mirror EXCEPT ![Here(t)] = @ \ {op[t].entry}]
          /\ pc' = [pc EXCEPT ![t] = "idle"] /\ answer' = [answer EXCEPT ![t] = "removed"]
          /\ work' = [work EXCEPT ![t] = NoWork]
          /\ UNCHANGED <<remote, local, conv, digest, op, budget, gone, crossed, marred>>
      BY <1>13, <2>1, Zenon DEF Remove, Finish, Goto, Ended
    <3>2. mirror' \in [Clones -> SUBSET Entries]
      BY <1>a, <3>1
    <3>3. pc' \in [Threads -> Points] /\ answer' \in [Threads -> Answers]
      BY <3>1 DEF Points, Answers
    <3> QED BY <1>a, <3>1, <3>2, <3>3, TypedNext
  <2>2. CASE local[Here(t)].tree[op[t].entry] # {}
    <3> DEFINE new == [local[Here(t)].tree EXCEPT ![op[t].entry] = {}]
    <3>1. /\ local' = Without(Here(t), op[t].entry) /\ pc' = [pc EXCEPT ![t] = "pushing"]
          /\ Crosses(Here(t), Threads \ {t})
          /\ UNCHANGED <<remote, mirror, answer, conv, digest, op, budget, gone>>
      BY <1>13, <2>2, Zenon DEF Remove, Goto
    <3>2. work' = [work EXCEPT ![t] = [work[t] EXCEPT !.lease = local[Here(t)].sha, !.tree = new]]
      BY <1>13, <2>2, <1>a DEF Remove
    <3>3. new \in Trees /\ local[Here(t)].sha \in Shas
      BY <1>a DEF Trees, Refs
    <3> HIDE DEF new
    <3>4. [work[t] EXCEPT !.lease = local[Here(t)].sha, !.tree = new] \in Works
      <4>1. {} \in SUBSET Entries
        OBVIOUS
      <4> QED BY <1>a, <3>3, <4>1, WorkNoted
    <3>5. work' \in [Threads -> Works] /\ pc' \in [Threads -> Points]
      BY <3>1, <3>2, <3>4 DEF Points
    <3>6. local' \in [Clones -> Refs]
      BY <1>a, <3>1, WithoutType
    <3>7. crossed' \subseteq Threads /\ marred' \subseteq Clones
      BY <1>a, <3>1, CrossType
    <3> QED BY <3>1, <3>5, <3>6, <3>7, TypedNext
  <2> QED BY <2>1, <2>2
<1>14. ASSUME NEW c \in Clones, Die(c) PROVE TypeOK'
  <2>1. budget' \in Budgets
    BY <1>14, SpendType DEF Die
  <2>2. pc' \in [Threads -> Points] /\ answer' \in [Threads -> Answers] /\ work' \in [Threads -> Works]
    BY <1>14, NoOpType DEF Die, Points, Answers
  <2>3. digest' \in [Clones -> Trees] /\ marred' \subseteq Clones
    BY <1>14, NoOpType DEF Die
  <2> QED BY <1>14, <2>1, <2>2, <2>3, TypedNext DEF Die
<1>15. CASE UNCHANGED vars
  BY <1>15, TypedNext DEF vars
<1> QED
  BY <1>1, <1>2, <1>3, <1>4, <1>5, <1>6, <1>7, <1>8, <1>9, <1>10, <1>11, <1>12, <1>13, <1>14,
     <1>15 DEF Next

\* The first state has the types.
LEMMA TypeInit == Init => TypeOK
<1> SUFFICES ASSUME Init PROVE TypeOK
  OBVIOUS
<1>1. PICK shared \in SUBSET Entries, ahead \in Clones :
        LET start == [e \in Entries |-> IF e \in shared THEN {0} ELSE {}]
            sha == IF shared = {} THEN "none" ELSE "tip"
        IN  /\ remote = [born |-> shared # {}, tree |-> start]
            /\ local = [c \in Clones |-> [sha |-> sha, tree |-> start, hollow |-> {}]]
            /\ mirror = [c \in Clones |-> shared]
            /\ conv = [c \in Clones |-> [e \in Entries |-> start[e] \cup
                         IF c = ahead /\ e \in shared THEN {MaxTurns + 1} ELSE {}]]
            /\ digest = [c \in Clones |-> start]
  BY DEF Init
<1> DEFINE start == [e \in Entries |-> IF e \in shared THEN {0} ELSE {}]
<1>2. 0 \in Turns /\ MaxTurns + 1 \in Turns
  BY StoreAssumption DEF Turns
<1>3. start \in Trees
  BY <1>2 DEF Trees
<1>4. conv \in [Clones -> Trees]
  <2>1. ASSUME NEW c \in Clones
        PROVE  [e \in Entries |-> start[e] \cup
                  IF c = ahead /\ e \in shared THEN {MaxTurns + 1} ELSE {}] \in Trees
    BY <1>2, <1>3 DEF Trees
  <2> QED BY <1>1, <2>1
<1>5. /\ remote \in [born : BOOLEAN, tree : Trees] /\ local \in [Clones -> Refs]
      /\ mirror \in [Clones -> SUBSET Entries] /\ digest \in [Clones -> Trees]
  BY <1>1, <1>3 DEF Shas, Refs
<1>6. budget \in Budgets
  BY StoreAssumption DEF Init, Budgets
<1>7. gone \in Trees /\ crossed \subseteq Threads /\ marred \subseteq Clones
  BY NoOpType DEF Init
<1>8. op \in [Threads -> Ops] /\ work \in [Threads -> Works]
  BY NoOpType DEF Init
<1>9. pc \in [Threads -> Points] /\ answer \in [Threads -> Answers]
  BY DEF Init, Points, Answers
<1> QED BY <1>4, <1>5, <1>6, <1>7, <1>8, <1>9, Typed

\* Every variable keeps its type.
THEOREM TypeCorrect == Spec => []TypeOK
  BY TypeInit, TypeStep, PTL DEF Spec


-----------------------------------------------------------------------------
(* The invariant.                                                          *)

Working(t) == pc[t] # "idle"

\* What is on the remote or was taken off it by a push that may do that.
Known(e) == remote.tree[e] \cup gone[e]

\* A local ref is the remote's tip, or there is none, or it is one's own.
RefOK(c) ==
    /\ local[c].sha = "tip" => remote.born /\ local[c].tree = remote.tree
    /\ local[c].sha = "none" => local[c].tree = Nothing

RefsOK == (~remote.born => remote.tree = Nothing) /\ \A c \in Clones : RefOK(c)

\* What an operation may do with its entry and others.
AimOK(t) ==
    Working(t) =>
        /\ op[t].kind # "none"
        /\ op[t].kind = "overwrite" => op[t].entry \notin Mergeable
        /\ op[t].kind # "unshare" => pc[t] # "removing"
        /\ op[t].kind = "unshare" =>
              /\ Owner[op[t].entry] = Login[Here(t)] /\ work[t].dropped = {}
              /\ pc[t] \in {"syncing", "removing", "pushing", "failed"}
        /\ \A x \in work[t].dropped : x # op[t].entry /\ Owner[x] = Login[Here(t)]

\* The copy that a share puts in the place of another (SharedShelf's Longer).
NoShorter(e, copy) ==
    IF e \in Mergeable THEN remote.tree[e] \subseteq copy
    ELSE Cardinality(copy) >= Cardinality(remote.tree[e])

\* The tree an operation has made: it has what was sent and, if the lease holds, is the
\* remote's with an entry that is no shorter.
TreeOK(t) ==
    pc[t] \in {"writing", "pushing"} =>
        /\ IF op[t].kind = "unshare" THEN work[t].tree[op[t].entry] = {}
           ELSE /\ op[t].sent \subseteq work[t].tree[op[t].entry]
                /\ op[t].entry \in Mergeable \/ work[t].tree[op[t].entry] = op[t].sent
                /\ (LeaseHolds(t) /\ op[t].kind # "overwrite" /\ ~Blind(t))
                      => NoShorter(op[t].entry, work[t].tree[op[t].entry])
        /\ LeaseHolds(t) =>
              \A x \in Entries \ {op[t].entry} : work[t].tree[x] = remote.tree[x]

\* What an operation that nobody crossed pushes is what it has made.
StandsOK(t) ==
    (pc[t] = "pushing" /\ t \notin crossed) =>
        \A x \in Entries :
            local[Here(t)].tree[x] = IF x \in work[t].dropped THEN {} ELSE work[t].tree[x]

\* What it is going to write has of other entries what the local ref has.
FreshOK(t) ==
    (pc[t] = "writing" /\ Here(t) \notin marred) =>
        \A x \in Entries \ {op[t].entry} : work[t].tree[x] = local[Here(t)].tree[x]

\* What the last operation has reported.
ReportOK(t) ==
    ~Working(t) =>
        /\ (answer[t] = "behind" /\ op[t].kind = "share") => op[t].entry \notin Mergeable
        /\ (answer[t] = "pushed" /\ op[t].kind # "unshare" /\ t \notin crossed)
              => op[t].sent \subseteq Known(op[t].entry)

\* A clone's ref lists nothing that never was on the remote, but an entry being shared.
UnderWay(t, c, e) ==
    /\ Home[t] = c /\ Engaged(t) /\ op[t].entry = e /\ op[t].kind # "unshare"
    /\ e \in Mergeable \/ local[c].tree[e] = op[t].sent

ListedOK(c) ==
    \A e \in Entries : local[c].tree[e] \subseteq Known(e) \/ \E t \in Threads : UnderWay(t, c, e)

ThreadOK(t) == AimOK(t) /\ TreeOK(t) /\ StandsOK(t) /\ FreshOK(t) /\ ReportOK(t)

IInv ==
    /\ TypeOK /\ RefsOK
    /\ \A t \in Threads : ThreadOK(t)
    /\ \A c \in Clones \ marred : ListedOK(c)

-----------------------------------------------------------------------------
(* What a step leaves alone.                                               *)

\* What a step of one thread does to another: it may outdate its lease, and what it
\* rewrites of a local ref that the other is at is noted.
Spared(u) ==
    /\ op'[u] = op[u] /\ pc'[u] = pc[u] /\ answer'[u] = answer[u]
    /\ work'[u].tree = work[u].tree /\ work'[u].dropped = work[u].dropped
    /\ work'[u].try = work[u].try /\ work'[u].hollow = work[u].hollow
    /\ LeaseHolds(u)' => LeaseHolds(u) /\ UNCHANGED remote
    /\ u \notin crossed' => u \notin crossed
    /\ (u \notin crossed' /\ pc[u] = "pushing") => local'[Here(u)].tree = local[Here(u)].tree
    /\ (Here(u) \notin marred' /\ Engaged(u)) =>
          Here(u) \notin marred /\ local'[Here(u)].tree = local[Here(u)].tree

Grows == \A e \in Entries : Known(e) \subseteq Known(e)'

\* A thread that a step spares keeps its part of the invariant.
LEMMA OtherThread ==
    ASSUME TypeOK, NEW u \in Threads, ThreadOK(u), Spared(u), Grows
    PROVE  ThreadOK(u)'
<1>1. /\ op'[u] = op[u] /\ pc'[u] = pc[u] /\ answer'[u] = answer[u] /\ op[u].entry \in Entries
      /\ work'[u].tree = work[u].tree /\ work'[u].dropped = work[u].dropped
      /\ work'[u].try = work[u].try /\ work'[u].hollow = work[u].hollow
  BY DEF Spared, TypeOK, Ops
<1>2. AimOK(u)'
  BY <1>1 DEF ThreadOK, AimOK, Working, Owner, Here
<1>3. TreeOK(u)'
  <2> SUFFICES ASSUME pc'[u] \in {"writing", "pushing"} PROVE TreeOK(u)'
    BY DEF TreeOK
  <2>1. /\ IF op[u].kind = "unshare" THEN work[u].tree[op[u].entry] = {}
           ELSE /\ op[u].sent \subseteq work[u].tree[op[u].entry]
                /\ op[u].entry \in Mergeable \/ work[u].tree[op[u].entry] = op[u].sent
                /\ (LeaseHolds(u) /\ op[u].kind # "overwrite" /\ ~Blind(u))
                      => NoShorter(op[u].entry, work[u].tree[op[u].entry])
        /\ LeaseHolds(u) =>
              \A x \in Entries \ {op[u].entry} : work[u].tree[x] = remote.tree[x]
    BY <1>1 DEF ThreadOK, TreeOK
  <2>2. LeaseHolds(u)' => LeaseHolds(u) /\ remote' = remote
    BY DEF Spared
  <2>3. Blind(u)' <=> Blind(u)
    BY <1>1 DEF Blind
  <2>4. remote' = remote => (NoShorter(op[u].entry, work[u].tree[op[u].entry])'
                               <=> NoShorter(op[u].entry, work[u].tree[op[u].entry]))
    BY <1>1 DEF NoShorter
  <2> QED BY <1>1, <2>1, <2>2, <2>3, <2>4 DEF TreeOK
<1>4. StandsOK(u)'
  <2> SUFFICES ASSUME pc'[u] = "pushing", u \notin crossed' PROVE StandsOK(u)'
    BY DEF StandsOK
  <2>1. u \notin crossed /\ local'[Here(u)].tree = local[Here(u)].tree
    BY <1>1 DEF Spared
  <2> QED BY <1>1, <2>1 DEF ThreadOK, StandsOK, Here
<1>5. FreshOK(u)'
  <2> SUFFICES ASSUME pc'[u] = "writing", Here(u) \notin marred' PROVE FreshOK(u)'
    BY DEF FreshOK, Here
  <2>1. Here(u) \notin marred /\ local'[Here(u)].tree = local[Here(u)].tree
    BY <1>1 DEF Spared, Engaged
  <2> QED BY <1>1, <2>1 DEF ThreadOK, FreshOK, Here
<1>6. ReportOK(u)'
  BY <1>1 DEF ThreadOK, ReportOK, Working, Spared, Grows
<1> QED BY <1>2, <1>3, <1>4, <1>5, <1>6 DEF ThreadOK

\* What a crossing notes of the threads that are crossed, and of their clones.
LEMMA CrossMeans ==
    ASSUME NEW c \in Clones, NEW others \in SUBSET Threads, Crosses(c, others),
           \A d \in Clones \ {c} : local'[d].tree = local[d].tree
    PROVE  /\ crossed \subseteq crossed' /\ crossed' \subseteq crossed \cup others
           /\ \A u \in others :
                /\ (u \notin crossed' /\ pc[u] = "pushing") => local'[Here(u)].tree = local[Here(u)].tree
                /\ (Here(u) \notin marred' /\ Engaged(u)) =>
                      Here(u) \notin marred /\ local'[Here(u)].tree = local[Here(u)].tree
           /\ \A d \in Clones \ marred' : d \in marred => d = c /\ local'[c].sha = "tip"
<1> DEFINE under == {u \in others : Home[u] = c /\ Engaged(u)}
<1>1. \A u \in Threads : Here(u) \in Clones
  BY StoreAssumption DEF Here
<1>2. CASE under # {}
  <2>1. \/ UNCHANGED <<crossed, marred>> /\ local'[c].tree = local[c].tree
        \/ /\ crossed' = crossed \cup {u \in under : pc[u] \in {"writing", "pushing"}}
           /\ marred' = marred \cup {c}
    BY <1>2, Zenon DEF Crosses
  <2>2. CASE UNCHANGED <<crossed, marred>> /\ local'[c].tree = local[c].tree
    <3>1. ASSUME NEW u \in others, Here(u) \notin marred', Engaged(u)
          PROVE  Here(u) \notin marred /\ local'[Here(u)].tree = local[Here(u)].tree
      BY <1>1, <2>2, <3>1
    <3> QED BY <1>1, <2>2, <3>1
  <2>3. CASE /\ crossed' = crossed \cup {u \in under : pc[u] \in {"writing", "pushing"}}
             /\ marred' = marred \cup {c}
    <3>1. ASSUME NEW u \in others, u \notin crossed', pc[u] = "pushing"
          PROVE  local'[Here(u)].tree = local[Here(u)].tree
      <4>1. Here(u) # c
        BY <2>3, <3>1 DEF Engaged, Here
      <4> QED BY <1>1, <4>1
    <3>2. ASSUME NEW u \in others, Here(u) \notin marred', Engaged(u)
          PROVE  Here(u) \notin marred /\ local'[Here(u)].tree = local[Here(u)].tree
      BY <1>1, <2>3, <3>2
    <3> QED BY <2>3, <3>1, <3>2
  <2> QED BY <2>1, <2>2, <2>3
<1>3. CASE under = {}
  <2>1. /\ crossed' = crossed
        /\ marred' = IF local'[c].sha = "tip" THEN marred \ {c} ELSE marred
    BY <1>3, Zenon DEF Crosses
  <2>2. ASSUME NEW u \in others, Engaged(u) PROVE Here(u) # c
    BY <1>3, <2>2 DEF Here
  <2>3. ASSUME NEW u \in others, pc[u] = "pushing" PROVE local'[Here(u)].tree = local[Here(u)].tree
    BY <1>1, <2>2, <2>3 DEF Engaged
  <2>4. ASSUME NEW u \in others, Here(u) \notin marred', Engaged(u)
        PROVE  Here(u) \notin marred /\ local'[Here(u)].tree = local[Here(u)].tree
    BY <1>1, <2>1, <2>2, <2>4
  <2> QED BY <2>1, <2>3, <2>4
<1> QED BY <1>2, <1>3

\* A clone whose ref is left alone, under threads that a step spares, lists no more.
LEMMA SameList ==
    ASSUME NEW c \in Clones, ListedOK(c), local'[c].tree = local[c].tree, Grows,
           \A u \in Threads : Home[u] = c => op'[u] = op[u] /\ (Engaged(u) => Engaged(u)')
    PROVE  ListedOK(c)'
<1> SUFFICES ASSUME NEW e \in Entries
             PROVE  local'[c].tree[e] \subseteq Known(e)' \/ \E u \in Threads : UnderWay(u, c, e)'
  BY DEF ListedOK
<1>1. CASE local[c].tree[e] \subseteq Known(e)
  BY <1>1 DEF Grows
<1>2. ASSUME NEW u \in Threads, UnderWay(u, c, e) PROVE UnderWay(u, c, e)'
  BY <1>2 DEF UnderWay
<1> QED BY <1>1, <1>2 DEF ListedOK

\* A clone after a step of one of its threads: an entry is known, under way by that
\* thread, or as it was and not its own.
LEMMA ListStep ==
    ASSUME NEW t \in Threads, NEW c \in Clones, Here(t) = c, c \notin marred', RefOK(c)', Grows,
           c \notin marred => ListedOK(c), c \in marred => local'[c].sha = "tip",
           \A u \in Threads \ {t} : Spared(u),
           c \notin marred => \A e \in Entries :
              \/ local'[c].tree[e] \subseteq Known(e)' \/ UnderWay(t, c, e)'
              \/ local'[c].tree[e] = local[c].tree[e] /\ ~UnderWay(t, c, e)
    PROVE  ListedOK(c)'
<1> SUFFICES ASSUME NEW e \in Entries
             PROVE  local'[c].tree[e] \subseteq Known(e)' \/ \E u \in Threads : UnderWay(u, c, e)'
  BY DEF ListedOK
<1>1. CASE c \in marred
  BY <1>1 DEF RefOK, Known
<1>2. CASE c \notin marred /\ local'[c].tree[e] = local[c].tree[e] /\ ~UnderWay(t, c, e)
  <2>1. CASE local[c].tree[e] \subseteq Known(e)
    BY <1>2, <2>1 DEF Grows
  <2>2. ASSUME NEW u \in Threads, UnderWay(u, c, e) PROVE UnderWay(u, c, e)'
    <3>1. u \in Threads \ {t}
      BY <1>2, <2>2
    <3> QED BY <1>2, <2>2, <3>1 DEF UnderWay, Spared, Engaged
  <2> QED BY <1>2, <2>1, <2>2 DEF ListedOK
<1> QED BY <1>1, <1>2

\* A step that changes neither refs nor operations.
LEMMA QuietStep ==
    ASSUME IInv, TypeOK', UNCHANGED <<remote, local, pc, op, work, answer, gone, crossed, marred>>
    PROVE  IInv'
<1>1. Grows
  BY DEF Grows, Known
<1>2. \A u \in Threads : Spared(u)
  BY DEF Spared, LeaseHolds, Here
<1>3. \A u \in Threads : ThreadOK(u)'
  BY <1>1, <1>2, OtherThread DEF IInv
<1>4. \A c \in Clones \ marred : ListedOK(c)'
  BY <1>1, SameList DEF IInv, Engaged
<1>5. RefsOK'
  BY DEF IInv, RefsOK, RefOK
<1> QED BY <1>3, <1>4, <1>5 DEF IInv

\* A step of one thread that leaves the remote alone.
LEMMA ThreadStep ==
    ASSUME IInv, TypeOK', NEW t \in Threads, UNCHANGED <<remote, gone>>,
           \A u \in Threads \ {t} : /\ op'[u] = op[u] /\ pc'[u] = pc[u] /\ work'[u] = work[u]
                                    /\ answer'[u] = answer[u],
           \A c \in Clones \ {Here(t)} : local'[c] = local[c],
           \/ Crosses(Here(t), Threads \ {t})
           \/ UNCHANGED <<local, marred>> /\ \A u \in Threads \ {t} : u \in crossed <=> u \in crossed',
           RefOK(Here(t))', ThreadOK(t)',
           (Here(t) \notin marred /\ Here(t) \notin marred') => \A e \in Entries :
              \/ local'[Here(t)].tree[e] \subseteq Known(e)' \/ UnderWay(t, Here(t), e)'
              \/ local'[Here(t)].tree[e] = local[Here(t)].tree[e] /\ ~UnderWay(t, Here(t), e)
    PROVE  IInv'
<1>1. Here(t) \in Clones /\ Threads \ {t} \in SUBSET Threads
  BY StoreAssumption DEF Here
<1>2. Grows
  BY DEF Grows, Known
<1>3. /\ \A u \in Threads \ {t} :
             /\ u \notin crossed' => u \notin crossed
             /\ (u \notin crossed' /\ pc[u] = "pushing") => local'[Here(u)].tree = local[Here(u)].tree
             /\ (Here(u) \notin marred' /\ Engaged(u)) =>
                   Here(u) \notin marred /\ local'[Here(u)].tree = local[Here(u)].tree
      /\ \A d \in Clones \ marred' : d \in marred => d = Here(t) /\ local'[Here(t)].sha = "tip"
  <2>1. CASE Crosses(Here(t), Threads \ {t})
    <3>1. \A d \in Clones \ {Here(t)} : local'[d].tree = local[d].tree
      OBVIOUS
    <3> QED BY <1>1, <2>1, <3>1, CrossMeans
  <2>2. CASE UNCHANGED <<local, marred>> /\ \A u \in Threads \ {t} : u \in crossed <=> u \in crossed'
    BY <2>2
  <2> QED BY <2>1, <2>2
<1>4. \A u \in Threads \ {t} : Spared(u)
  BY <1>3 DEF Spared, LeaseHolds
<1>5. ASSUME NEW u \in Threads \ {t} PROVE ThreadOK(u)'
  BY <1>2, <1>4, OtherThread DEF IInv
<1>6. ASSUME NEW c \in Clones \ marred', c # Here(t) PROVE ListedOK(c)'
  <2>1. c \notin marred /\ local'[c] = local[c]
    BY <1>3, <1>6
  <2>2. \A u \in Threads : Home[u] = c => op'[u] = op[u] /\ (Engaged(u) => Engaged(u)')
    BY <1>6 DEF Here, Engaged
  <2> QED BY <1>2, <2>1, <2>2, SameList DEF IInv
<1>7. ASSUME Here(t) \notin marred' PROVE ListedOK(Here(t))'
  <2>1. Here(t) \in marred => local'[Here(t)].sha = "tip"
    BY <1>1, <1>3, <1>7
  <2>2. Here(t) \notin marred => ListedOK(Here(t))
    BY <1>1 DEF IInv
  <2>3. RefOK(Here(t))'
    OBVIOUS
  <2> DEFINE c == Here(t)
  <2>4. c \notin marred => \A e \in Entries :
              \/ local'[c].tree[e] \subseteq Known(e)' \/ UnderWay(t, c, e)'
              \/ local'[c].tree[e] = local[c].tree[e] /\ ~UnderWay(t, c, e)
    BY <1>7
  <2>5. c \in Clones /\ Here(t) = c
    BY <1>1
  <2> QED BY <1>2, <1>4, <1>7, <2>1, <2>2, <2>3, <2>4, <2>5, ListStep
<1>8. RefsOK'
  BY DEF IInv, RefsOK, RefOK
<1>9. ASSUME NEW c \in Clones \ marred' PROVE ListedOK(c)'
  <2>1. CASE c = Here(t)
    BY <1>7, <2>1 DEF Here
  <2> QED BY <1>6, <2>1
<1> QED BY <1>5, <1>8, <1>9 DEF IInv

\* What is known of a thread that works.
LEMMA Given ==
    ASSUME IInv, NEW t \in Threads
    PROVE  /\ Here(t) \in Clones /\ RefOK(Here(t)) /\ ThreadOK(t)
           /\ Here(t) \notin marred => ListedOK(Here(t))
           /\ op[t] \in Ops /\ op[t].entry \in Entries /\ op[t].sent \in SUBSET Turns
           /\ work[t] \in Works /\ work[t].tree \in Trees /\ work[t].dropped \in SUBSET Entries
           /\ local[Here(t)] \in Refs /\ local[Here(t)].tree \in Trees
           /\ pc \in [Threads -> Points] /\ op \in [Threads -> Ops] /\ work \in [Threads -> Works]
           /\ answer \in [Threads -> Answers] /\ local \in [Clones -> Refs]
<1>1. Here(t) \in Clones
  BY StoreAssumption DEF Here
<1>2. /\ pc \in [Threads -> Points] /\ op \in [Threads -> Ops] /\ work \in [Threads -> Works]
      /\ answer \in [Threads -> Answers] /\ local \in [Clones -> Refs]
  BY Typed DEF IInv
<1>3. op[t] \in Ops /\ work[t] \in Works /\ local[Here(t)] \in Refs
  BY <1>1, <1>2
<1> QED BY <1>1, <1>2, <1>3 DEF IInv, RefsOK, Ops, Works, Refs

-----------------------------------------------------------------------------
(* The steps.                                                              *)

\* The copies are finite sets, so that longer has a meaning.
LEMMA Copies ==
    ASSUME NEW S \in SUBSET Turns
    PROVE  /\ IsFiniteSet(S) /\ Cardinality(S) \in Nat
           /\ \A T \in SUBSET S : Cardinality(T) <= Cardinality(S) /\ Cardinality(T) \in Nat
<1>1. MaxTurns + 1 \in Nat
  BY StoreAssumption
<1>2. IsFiniteSet(Turns)
  BY <1>1, FS_Interval DEF Turns
<1>3. IsFiniteSet(S)
  BY <1>2, FS_Subset
<1>4. \A T \in SUBSET S : IsFiniteSet(T) /\ Cardinality(T) <= Cardinality(S)
  BY <1>3, FS_Subset
<1>5. \A T \in SUBSET S : Cardinality(T) \in Nat
  BY <1>4, FS_CardinalityType
<1> QED BY <1>3, <1>4, <1>5, FS_CardinalityType

\* An operation begins, whatever else its clone is at.
LEMMA BeginStep ==
    ASSUME IInv, TypeOK', NEW t \in Threads, NEW e \in Entries,
           NEW kind \in {"share", "auto", "overwrite", "unshare"},
           NEW sent \in SUBSET Turns, NEW state \in {"merging", "syncing"},
           Begin(t, kind, e, sent, state), pc[t] = "idle",
           kind = "unshare" => Owner[e] = Login[Here(t)] /\ state = "syncing",
           kind = "overwrite" => e \notin Mergeable
    PROVE  IInv'
<1>1. /\ Here(t) \in Clones /\ RefOK(Here(t))
      /\ pc \in [Threads -> Points] /\ op \in [Threads -> Ops] /\ work \in [Threads -> Works]
  BY Given
<1> DEFINE first == [kind |-> kind, entry |-> e, sent |-> sent]
           blank == [NoWork EXCEPT !.try = 1]
<1>2. /\ op' = [op EXCEPT ![t] = first] /\ pc' = [pc EXCEPT ![t] = state]
      /\ work' = [work EXCEPT ![t] = blank] /\ crossed' = crossed \ {t}
      /\ UNCHANGED <<remote, local, answer, gone, marred>>
  BY DEF Begin, Goto
<1>3. first.kind = kind /\ first.entry = e /\ first.sent = sent /\ blank.dropped = {} /\ blank.try = 1
  BY DEF NoWork
<1> HIDE DEF first, blank
<1>4. /\ op'[t] = first /\ pc'[t] = state /\ work'[t] = blank
      /\ \A u \in Threads \ {t} : /\ op'[u] = op[u] /\ pc'[u] = pc[u] /\ work'[u] = work[u]
                                  /\ answer'[u] = answer[u]
  BY <1>1, <1>2
<1>5. ThreadOK(t)'
  BY <1>3, <1>4 DEF ThreadOK, AimOK, TreeOK, StandsOK, FreshOK, ReportOK, Working, Here, Owner
<1>6. RefOK(Here(t))'
  BY <1>1, <1>2 DEF RefOK
<1>7. \A x \in Entries : ~UnderWay(t, Here(t), x)
  <2>1. work[t].try # 2 \/ pc[t] = "idle"
    OBVIOUS
  <2> QED BY <2>1 DEF UnderWay, Engaged
<1>8. \A u \in Threads \ {t} : u \in crossed <=> u \in crossed'
  BY <1>2
<1> QED BY <1>2, <1>4, <1>5, <1>6, <1>7, <1>8, ThreadStep

\* A share is behind only a longer copy of a conversation that does not combine.
LEMMA BehindMeans ==
    ASSUME IInv, NEW t \in Threads, pc[t] = "merging", Behind(t)
    PROVE  /\ op[t].entry \notin Mergeable
           /\ local[Here(t)].tree[op[t].entry] # op[t].sent
<1>1. /\ op[t].entry \in Entries /\ op[t].sent \in SUBSET Turns
      /\ local[Here(t)].tree[op[t].entry] \in SUBSET Turns
  BY Given DEF Trees
<1> DEFINE stored == Stored(Here(t), op[t].entry)
<1>2. stored \in SUBSET Turns /\ (stored = {} \/ stored = local[Here(t)].tree[op[t].entry])
  BY <1>1 DEF Stored
<1>3. op[t].kind # "overwrite" /\ Cardinality(Combined(t)) < Cardinality(stored)
  BY DEF Behind
<1>4. Combined(t) \in SUBSET Turns
  BY <1>1, <1>2 DEF Combined
<1>5. ~(stored \subseteq Combined(t))
  <2>1. /\ Cardinality(Combined(t)) \in Nat /\ Cardinality(stored) \in Nat
        /\ stored \subseteq Combined(t) => Cardinality(stored) <= Cardinality(Combined(t))
    BY <1>2, <1>4, Copies
  <2> HIDE DEF stored
  <2> QED BY <1>3, <2>1
<1>6. op[t].entry \notin Mergeable
  BY <1>3, <1>5 DEF Combined
<1>7. op[t].sent # local[Here(t)].tree[op[t].entry]
  BY <1>2, <1>5, <1>6 DEF Combined
<1> QED BY <1>6, <1>7

\* What is written over the tip is no shorter, when the stored copy could be read.
LEMMA MergedIsLonger ==
    ASSUME IInv, NEW t \in Threads, ~Behind(t), op[t].kind # "overwrite",
           local[Here(t)].tree = remote.tree, op[t].entry \notin local[Here(t)].hollow
    PROVE  NoShorter(op[t].entry, Combined(t))
<1>1. /\ op[t].entry \in Entries /\ op[t].sent \in SUBSET Turns
      /\ local[Here(t)].tree[op[t].entry] \in SUBSET Turns
  BY Given DEF Trees
<1>2. Stored(Here(t), op[t].entry) = remote.tree[op[t].entry]
  BY <1>1 DEF Stored
<1>3. ~(Cardinality(Combined(t)) < Cardinality(remote.tree[op[t].entry]))
  BY <1>2 DEF Behind
<1>4. Combined(t) \in SUBSET Turns
  BY <1>1, <1>2 DEF Combined
<1>5. Cardinality(Combined(t)) \in Nat /\ Cardinality(remote.tree[op[t].entry]) \in Nat
  BY <1>1, <1>4, Copies
<1>6. op[t].entry \in Mergeable => remote.tree[op[t].entry] \subseteq Combined(t)
  BY <1>2 DEF Combined
<1> QED BY <1>3, <1>5, <1>6 DEF NoShorter

\* The merge keeps the invariant: behind, or with a tree to write.
LEMMA MergeStep == ASSUME IInv, TypeOK', NEW t \in Threads, Merge(t) PROVE IInv'
<1>1. /\ pc[t] = "merging" /\ Working(t)
      /\ UNCHANGED <<remote, local, op, gone, crossed, marred>>
  BY DEF Merge, Working
<1>2. /\ Here(t) \in Clones /\ RefOK(Here(t)) /\ ThreadOK(t)
      /\ op[t] \in Ops /\ op[t].entry \in Entries /\ op[t].sent \in SUBSET Turns
      /\ work[t] \in Works /\ local[Here(t)] \in Refs /\ local[Here(t)].tree \in Trees
      /\ pc \in [Threads -> Points] /\ work \in [Threads -> Works]
      /\ answer \in [Threads -> Answers]
  BY Given
<1>3. RefOK(Here(t))' /\ op[t].kind # "unshare"
  BY <1>1, <1>2 DEF RefOK, ThreadOK, AimOK
<1>4. \A u \in Threads \ {t} : u \in crossed <=> u \in crossed'
  BY <1>1
<1>5. CASE Behind(t)
  <2>1. /\ pc'[t] = "idle" /\ answer'[t] = "behind"
        /\ \A u \in Threads \ {t} : /\ op'[u] = op[u] /\ pc'[u] = pc[u] /\ work'[u] = work[u]
                                    /\ answer'[u] = answer[u]
    BY <1>1, <1>2, <1>5 DEF Merge, Finish, Goto, Ended
  <2>2. /\ op[t].entry \notin Mergeable /\ local[Here(t)].tree[op[t].entry] # op[t].sent
    BY <1>1, <1>5, BehindMeans
  <2>3. ThreadOK(t)'
    BY <1>1, <2>1, <2>2 DEF ThreadOK, AimOK, TreeOK, StandsOK, FreshOK, ReportOK, Working
  <2>4. \A e \in Entries : ~UnderWay(t, Here(t), e)
    BY <2>2 DEF UnderWay
  <2> QED BY <1>1, <1>3, <1>4, <2>1, <2>3, <2>4, ThreadStep
<1>6. CASE ~Behind(t)
  <2> DEFINE new == [local[Here(t)].tree EXCEPT ![op[t].entry] = Combined(t)]
             made == [work[t] EXCEPT !.lease = local[Here(t)].sha, !.tree = new,
                                     !.hollow = local[Here(t)].hollow]
  <2>1. /\ new[op[t].entry] = Combined(t)
        /\ \A x \in Entries \ {op[t].entry} : new[x] = local[Here(t)].tree[x]
    BY <1>2 DEF Trees
  <2>2. /\ work' = [work EXCEPT ![t] = made] /\ pc' = [pc EXCEPT ![t] = "writing"]
        /\ answer' = answer
    BY <1>2, <1>6 DEF Merge, Goto
  <2>3. new \in Trees /\ local[Here(t)].sha \in Shas /\ local[Here(t)].hollow \in SUBSET Entries
    <3>1. Combined(t) \in SUBSET Turns
      BY <1>2 DEF Combined, Stored, Trees
    <3> QED BY <1>2, <3>1 DEF Trees, Refs
  <2>4. /\ made.lease = local[Here(t)].sha /\ made.tree = new
        /\ made.hollow = local[Here(t)].hollow /\ made.dropped = work[t].dropped
        /\ made.try = work[t].try
    <3> DEFINE w == work[t]
               sha == local[Here(t)].sha
               holes == local[Here(t)].hollow
    <3>1. w \in Works /\ new \in Trees /\ sha \in Shas /\ holes \in SUBSET Entries
      BY <1>2, <2>3
    <3>2. made = [w EXCEPT !.lease = sha, !.tree = new, !.hollow = holes]
      OBVIOUS
    <3> HIDE DEF new, w, sha, holes, made
    <3>3. /\ made.lease = sha /\ made.tree = new /\ made.hollow = holes
          /\ made.dropped = w.dropped /\ made.try = w.try
      BY <3>1, <3>2 DEF Works
    <3> QED BY <3>3 DEF w, sha, holes
  <2> HIDE DEF made
  <2>5. /\ pc'[t] = "writing" /\ work'[t] = made
        /\ \A u \in Threads \ {t} : /\ op'[u] = op[u] /\ pc'[u] = pc[u] /\ work'[u] = work[u]
                                    /\ answer'[u] = answer[u]
    BY <1>1, <1>2, <2>2
  <2> HIDE DEF new
  <2>6. LeaseHolds(t)' => local[Here(t)].tree = remote.tree
    BY <1>1, <1>2, <2>4, <2>5 DEF LeaseHolds, RefOK, IInv, RefsOK
  <2>7. op[t].sent \subseteq Combined(t) /\ (op[t].entry \in Mergeable \/ Combined(t) = op[t].sent)
    BY DEF Combined
  <2>8. (LeaseHolds(t)' /\ op[t].kind # "overwrite" /\ ~Blind(t)')
            => NoShorter(op[t].entry, Combined(t))
    BY <1>1, <1>6, <2>4, <2>5, <2>6, MergedIsLonger DEF Blind
  <2>9. TreeOK(t)'
    <3>1. NoShorter(op[t].entry, Combined(t)) => NoShorter(op[t].entry, work[t].tree[op[t].entry])'
      BY <1>1, <2>1, <2>4, <2>5 DEF NoShorter
    <3>2. LeaseHolds(t)' => \A x \in Entries \ {op[t].entry} : new[x] = remote.tree[x]
      BY <2>1, <2>6
    <3> QED BY <1>1, <1>3, <2>1, <2>4, <2>5, <2>7, <2>8, <3>1, <3>2 DEF TreeOK
  <2>10. FreshOK(t)'
    BY <1>1, <2>1, <2>4, <2>5 DEF FreshOK, Here
  <2>11. AimOK(t)'
    BY <1>1, <1>2, <1>3, <2>4, <2>5 DEF ThreadOK, AimOK, Working, Owner, Here
  <2>12. ThreadOK(t)'
    BY <2>5, <2>9, <2>10, <2>11 DEF ThreadOK, StandsOK, ReportOK, Working
  <2>13. \A e \in Entries : UnderWay(t, Here(t), e) => UnderWay(t, Here(t), e)'
    BY <1>1, <2>5 DEF UnderWay, Engaged, Here
  <2>14. \A e \in Entries : UnderWay(t, Here(t), e)' \/
              (local'[Here(t)].tree[e] = local[Here(t)].tree[e] /\ ~UnderWay(t, Here(t), e))
    BY <1>1, <2>13
  <2> QED BY <1>1, <1>3, <1>4, <2>5, <2>12, <2>14, ThreadStep
<1> QED BY <1>5, <1>6

\* The write of the local ref keeps the invariant.
LEMMA WriteStep == ASSUME IInv, TypeOK', NEW t \in Threads, Write(t) PROVE IInv'
<1>1. pc[t] = "writing" /\ Working(t) /\ UNCHANGED <<remote, op, answer, gone>>
  BY DEF Write, Working
<1>2. /\ Here(t) \in Clones /\ ThreadOK(t) /\ op[t].entry \in Entries
      /\ work[t] \in Works /\ pc \in [Threads -> Points] /\ work \in [Threads -> Works]
      /\ local \in [Clones -> Refs]
  BY Given
<1>3. PICK dropped \in SUBSET Entries :
        /\ Stale(t, dropped)
        /\ local' = [local EXCEPT ![Here(t)] =
             [sha |-> "other",
              tree |-> [x \in Entries |-> IF x \in dropped THEN {} ELSE work[t].tree[x]],
              hollow |-> {x \in work[t].hollow \ (dropped \cup {op[t].entry}) :
                             @.tree[x] = work[t].tree[x] => x \in @.hollow}]]
        /\ work' = [work EXCEPT ![t].dropped = dropped]
  BY DEF Write
<1>4. /\ local'[Here(t)].sha = "other"
      /\ \A x \in Entries : local'[Here(t)].tree[x] = IF x \in dropped THEN {} ELSE work[t].tree[x]
      /\ \A c \in Clones \ {Here(t)} : local'[c] = local[c]
  BY <1>2, <1>3
<1>5. /\ pc'[t] = "pushing" /\ work'[t] = [work[t] EXCEPT !.dropped = dropped]
      /\ \A u \in Threads \ {t} : /\ op'[u] = op[u] /\ pc'[u] = pc[u] /\ work'[u] = work[u]
                                  /\ answer'[u] = answer[u]
  BY <1>1, <1>2, <1>3 DEF Write, Goto
<1>6. /\ work'[t].lease = work[t].lease /\ work'[t].tree = work[t].tree
      /\ work'[t].hollow = work[t].hollow /\ work'[t].dropped = dropped
  BY <1>2, <1>5 DEF Works
<1>7. \A x \in dropped : x # op[t].entry /\ Owner[x] = Login[Here(t)]
  BY <1>3 DEF Stale
<1>8. op[t].kind # "unshare"
  BY <1>1, <1>2 DEF ThreadOK, AimOK
<1>9. TreeOK(t)'
  <2>1. LeaseHolds(t)' <=> LeaseHolds(t)
    BY <1>1, <1>6 DEF LeaseHolds
  <2>2. Blind(t)' <=> Blind(t)
    BY <1>1, <1>6 DEF Blind
  <2>3. NoShorter(op[t].entry, work[t].tree[op[t].entry])'
           <=> NoShorter(op[t].entry, work[t].tree[op[t].entry])
    BY <1>1, <1>6 DEF NoShorter
  <2> QED BY <1>1, <1>2, <1>6, <1>8, <2>1, <2>2, <2>3 DEF ThreadOK, TreeOK
<1>10. StandsOK(t)'
  BY <1>4, <1>6 DEF StandsOK, Here
<1>11. AimOK(t)'
  BY <1>1, <1>2, <1>5, <1>6, <1>7, <1>8 DEF ThreadOK, AimOK, Working, Owner, Here
<1>12. ThreadOK(t)'
  BY <1>5, <1>9, <1>10, <1>11 DEF ThreadOK, FreshOK, ReportOK, Working
<1>13. ASSUME NEW e \in Entries, Here(t) \notin marred
       PROVE  \/ local'[Here(t)].tree[e] \subseteq Known(e)' \/ UnderWay(t, Here(t), e)'
              \/ local'[Here(t)].tree[e] = local[Here(t)].tree[e] /\ ~UnderWay(t, Here(t), e)
  <2>1. CASE e = op[t].entry
    <3>1. local'[Here(t)].tree[e] = work[t].tree[e]
      BY <1>4, <1>7, <2>1
    <3>2. e \in Mergeable \/ work[t].tree[e] = op[t].sent
      BY <1>1, <1>2, <1>8, <2>1 DEF ThreadOK, TreeOK
    <3> QED BY <1>1, <1>5, <1>8, <2>1, <3>1, <3>2 DEF UnderWay, Engaged, Here
  <2>2. CASE e # op[t].entry /\ e \in dropped
    BY <1>4, <2>2
  <2>3. CASE e # op[t].entry /\ e \notin dropped
    <3>1. work[t].tree[e] = local[Here(t)].tree[e]
      BY <1>1, <1>2, <1>13, <2>3 DEF ThreadOK, FreshOK
    <3> QED BY <1>4, <2>3, <3>1 DEF UnderWay
  <2> QED BY <2>1, <2>2, <2>3
<1>14. RefOK(Here(t))' /\ Crosses(Here(t), Threads \ {t})
  BY <1>4 DEF RefOK, Here, Write
<1> QED BY <1>1, <1>4, <1>5, <1>12, <1>13, <1>14, ThreadStep

\* What the remote takes is what its thread stands for, or what others have made of
\* the local ref; everything on the remote is known ever after.
LEMMA LandMeans ==
    ASSUME IInv, NEW t \in Threads, pc[t] = "pushing", UpToDate(t) \/ LeaseHolds(t), Land(t)
    PROVE  /\ remote'.born /\ remote'.tree = local[Here(t)].tree
           /\ UpToDate(t) => UNCHANGED <<remote, local, gone>>
           /\ Grows
           /\ \A c \in Clones :
                /\ local'[c].tree = local[c].tree
                /\ UpToDate(t) \/ local'[c].sha = IF c = Here(t) THEN "tip" ELSE Outdate(local[c].sha)
           /\ local'[Here(t)].sha = "tip"
           /\ (t \notin crossed /\ op[t].kind # "unshare") =>
                 op[t].sent \subseteq local[Here(t)].tree[op[t].entry] \cup gone'[op[t].entry]
<1>1. /\ Here(t) \in Clones /\ RefOK(Here(t)) /\ ThreadOK(t)
      /\ op[t].entry \in Entries /\ local[Here(t)].tree \in Trees /\ local \in [Clones -> Refs]
  BY Given
<1>2. t \notin crossed => \A x \in Entries :
          local[Here(t)].tree[x] = IF x \in work[t].dropped THEN {} ELSE work[t].tree[x]
  BY <1>1 DEF ThreadOK, StandsOK
<1>3. op[t].entry \notin work[t].dropped
  BY <1>1 DEF ThreadOK, AimOK, Working
<1>4. (t \notin crossed /\ op[t].kind # "unshare") =>
          op[t].sent \subseteq local[Here(t)].tree[op[t].entry]
  BY <1>1, <1>2, <1>3 DEF ThreadOK, TreeOK
<1>5. CASE UpToDate(t)
  <2>1. UNCHANGED <<remote, local, gone>>
    BY <1>5, Zenon DEF Land
  <2>2. remote.born /\ remote.tree = local[Here(t)].tree /\ local[Here(t)].sha = "tip"
    BY <1>1, <1>5 DEF UpToDate, RefOK
  <2> QED BY <1>4, <1>5, <2>1, <2>2 DEF Grows, Known
<1>6. CASE ~UpToDate(t)
  <2>1. /\ remote' = [born |-> TRUE, tree |-> local[Here(t)].tree]
        /\ local' = [c \in Clones |->
                       [local[c] EXCEPT !.sha = IF c = Here(t) THEN "tip" ELSE Outdate(@)]]
        /\ gone' = [e \in Entries |->
                      IF e \in Loose(t)
                      THEN gone[e] \cup (remote.tree[e] \ local[Here(t)].tree[e]) ELSE gone[e]]
    BY <1>6, LandEffect, Zenon
  <2>2. remote'.born /\ remote'.tree = local[Here(t)].tree
    BY <2>1
  <2>3. ASSUME NEW c \in Clones
        PROVE  /\ local'[c].tree = local[c].tree
               /\ local'[c].sha = IF c = Here(t) THEN "tip" ELSE Outdate(local[c].sha)
    <3> DEFINE name == IF c = Here(t) THEN "tip" ELSE Outdate(local[c].sha)
    <3>1. local[c] \in Refs
      BY <1>1
    <3>2. local'[c] = [local[c] EXCEPT !.sha = name]
      BY <2>1
    <3> HIDE DEF name
    <3>3. local'[c].tree = local[c].tree /\ local'[c].sha = name
      BY <3>1, <3>2 DEF Refs
    <3> QED BY <3>3 DEF name
  <2>4. ASSUME NEW e \in Entries PROVE Known(e) \subseteq Known(e)'
    <3>1. CASE e \in Loose(t)
      BY <2>1, <2>2, <3>1 DEF Known
    <3>2. CASE e \notin Loose(t)
      <4>1. t \notin crossed /\ e \notin work[t].dropped
        BY <3>2 DEF Loose
      <4>2. local[Here(t)].tree[e] = work[t].tree[e] /\ LeaseHolds(t)
        BY <1>2, <1>6, <4>1
      <4>3. remote.tree[e] \subseteq work[t].tree[e]
        <5>1. CASE e = op[t].entry
          <6>1. op[t].kind \notin {"unshare", "overwrite"} /\ e \in Mergeable /\ ~Blind(t)
            BY <3>2, <5>1 DEF Loose
          <6> QED BY <1>1, <4>2, <5>1, <6>1 DEF ThreadOK, TreeOK, NoShorter
        <5>2. CASE e # op[t].entry
          BY <1>1, <4>2, <5>2 DEF ThreadOK, TreeOK
        <5> QED BY <5>1, <5>2
      <4>4. gone'[e] = gone[e]
        BY <2>1, <3>2
      <4> QED BY <2>2, <4>2, <4>3, <4>4 DEF Known
    <3> QED BY <3>1, <3>2
  <2>5. local'[Here(t)].sha = "tip"
    BY <1>1, <2>3
  <2> QED BY <1>4, <1>6, <2>2, <2>3, <2>4, <2>5 DEF Grows
<1> QED BY <1>5, <1>6

\* The leases that are left by a push that lands.
LEMMA LeasesLeft ==
    ASSUME IInv, NEW t \in Threads, NEW u \in Threads, remote'.born, work'[u] = Outdated(t)[u],
           UpToDate(t) => UNCHANGED remote
    PROVE  LeaseHolds(u)' => LeaseHolds(u) /\ UNCHANGED remote
<1>1. CASE UpToDate(t)
  <2>1. work'[u] = work[u]
    BY <1>1 DEF Outdated
  <2> QED BY <1>1, <2>1 DEF LeaseHolds
<1>2. CASE ~UpToDate(t)
  <2>1. TypeOK
    BY DEF IInv
  <2>2. work'[u].lease = Outdate(work[u].lease)
    BY <1>2, <2>1, OutdatedWork
  <2> QED BY <2>2 DEF LeaseHolds, Outdate
<1> QED BY <1>1, <1>2

\* A push that lands, whether its thread learns of it or not.
LEMMA LandStep ==
    ASSUME IInv, TypeOK', NEW t \in Threads, pc[t] = "pushing", UpToDate(t) \/ LeaseHolds(t),
           Land(t), op' = op,
           Crosses(Here(t), Threads \ {t}) \/ UNCHANGED <<crossed, marred>>,
           \A u \in Threads \ {t} : pc'[u] = pc[u] /\ answer'[u] = answer[u]
                                    /\ work'[u] = Outdated(t)[u],
           \/ pc'[t] = "idle" /\ answer'[t] = "pushed"
           \/ pc'[t] = "failed" /\ work'[t].dropped = work[t].dropped
    PROVE  IInv'
<1>1. /\ Here(t) \in Clones /\ ThreadOK(t) /\ op[t].entry \in Entries /\ TypeOK
      /\ Threads \ {t} \in SUBSET Threads
  BY Given DEF IInv
<1>2. /\ remote'.born /\ remote'.tree = local[Here(t)].tree
      /\ UpToDate(t) => UNCHANGED <<remote, local, gone>>
      /\ Grows
      /\ \A c \in Clones :
           /\ local'[c].tree = local[c].tree
           /\ UpToDate(t) \/ local'[c].sha = IF c = Here(t) THEN "tip" ELSE Outdate(local[c].sha)
      /\ local'[Here(t)].sha = "tip"
      /\ (t \notin crossed /\ op[t].kind # "unshare") =>
            op[t].sent \subseteq local[Here(t)].tree[op[t].entry] \cup gone'[op[t].entry]
  BY LandMeans
<1>3. /\ t \in crossed <=> t \in crossed'
      /\ \A u \in Threads \ {t} :
             /\ u \notin crossed' => u \notin crossed
             /\ (Here(u) \notin marred' /\ Engaged(u)) => Here(u) \notin marred
      /\ \A d \in Clones \ marred' : d \in marred => d = Here(t)
  <2>1. CASE Crosses(Here(t), Threads \ {t})
    <3>1. \A d \in Clones \ {Here(t)} : local'[d].tree = local[d].tree
      BY <1>2
    <3>2. /\ crossed \subseteq crossed' /\ crossed' \subseteq crossed \cup (Threads \ {t})
          /\ \A u \in Threads \ {t} :
               (Here(u) \notin marred' /\ Engaged(u)) => Here(u) \notin marred
          /\ \A d \in Clones \ marred' : d \in marred => d = Here(t)
      BY <1>1, <2>1, <3>1, CrossMeans
    <3> QED BY <3>2
  <2>2. CASE UNCHANGED <<crossed, marred>>
    BY <2>2
  <2> QED BY <2>1, <2>2
<1>4. ASSUME NEW c \in Clones \ marred' PROVE ListedOK(c)'
  <2>1. CASE c = Here(t)
    BY <1>2, <2>1 DEF ListedOK, Known, Here
  <2>2. CASE c # Here(t)
    <3>1. c \notin marred /\ local'[c].tree = local[c].tree
      BY <1>2, <1>3, <2>2
    <3>2. \A u \in Threads : Home[u] = c => u \in Threads \ {t}
      BY <2>2 DEF Here
    <3>3. \A u \in Threads : Home[u] = c => op'[u] = op[u] /\ (Engaged(u) => Engaged(u)')
      BY <1>1, <3>2, OutdatedWork DEF Engaged
    <3> QED BY <1>2, <3>1, <3>3, SameList DEF IInv
  <2> QED BY <2>1, <2>2
<1>5. ASSUME NEW u \in Threads \ {t} PROVE ThreadOK(u)'
  <2>1. Here(u) \in Clones /\ ThreadOK(u)
    BY Given
  <2>2. /\ work'[u].tree = work[u].tree /\ work'[u].dropped = work[u].dropped
        /\ work'[u].try = work[u].try /\ work'[u].hollow = work[u].hollow
    BY <1>1, OutdatedWork
  <2>3. LeaseHolds(u)' => LeaseHolds(u) /\ UNCHANGED remote
    BY <1>2, LeasesLeft
  <2>4. Spared(u)
    BY <1>2, <1>3, <2>1, <2>2, <2>3 DEF Spared
  <2> QED BY <1>1, <1>2, <2>1, <2>4, OtherThread
<1>6. ThreadOK(t)'
  <2>1. AimOK(t)'
    BY <1>1 DEF ThreadOK, AimOK, Working, Owner, Here
  <2>2. ReportOK(t)'
    BY <1>2, <1>3 DEF ReportOK, Working, Known
  <2> QED BY <2>1, <2>2 DEF ThreadOK, TreeOK, StandsOK, FreshOK
<1>7. RefsOK'
  <2>1. ASSUME NEW c \in Clones PROVE RefOK(c)'
    <3>1. RefOK(c)
      BY DEF IInv, RefsOK
    <3>2. CASE UpToDate(t)
      BY <1>2, <3>1, <3>2 DEF RefOK
    <3>3. CASE ~UpToDate(t)
      BY <1>2, <3>1, <3>3 DEF RefOK, Outdate
    <3> QED BY <3>2, <3>3
  <2> QED BY <1>2, <2>1 DEF RefsOK
<1> QED BY <1>4, <1>5, <1>6, <1>7 DEF IInv

\* A step of a thread that goes on with the operation it has, or ends it without a report
\* that says anything, and leaves the local ref alone.
LEMMA MoveOn ==
    ASSUME IInv, TypeOK', NEW t \in Threads, Working(t),
           UNCHANGED <<remote, local, gone, marred, op>>,
           \A u \in Threads \ {t} : /\ pc'[u] = pc[u] /\ work'[u] = work[u]
                                    /\ answer'[u] = answer[u] /\ (u \in crossed <=> u \in crossed'),
           work'[t].dropped = work[t].dropped,
           pc'[t] \in {"syncing", "failed", "merging", "removing"},
           pc'[t] = "merging" => op[t].kind # "unshare",
           pc'[t] = "removing" => op[t].kind = "unshare",
           Engaged(t) => Engaged(t)'
    PROVE  IInv'
<1>1. Here(t) \in Clones /\ RefOK(Here(t)) /\ ThreadOK(t)
  BY Given
<1>2. ThreadOK(t)'
  BY <1>1 DEF ThreadOK, AimOK, TreeOK, StandsOK, FreshOK, ReportOK, Working, Owner, Here
<1>3. RefOK(Here(t))'
  BY <1>1 DEF RefOK
<1>4. \A e \in Entries : UnderWay(t, Here(t), e)' \/
          (local'[Here(t)].tree[e] = local[Here(t)].tree[e] /\ ~UnderWay(t, Here(t), e))
  BY DEF UnderWay, Here
<1> QED BY <1>2, <1>3, <1>4, ThreadStep

\* A push that is refused.
LEMMA RejectedStep == ASSUME IInv, TypeOK', NEW t \in Threads, PushRejected(t) PROVE IInv'
<1>1. pc[t] = "pushing" /\ Working(t) /\ UNCHANGED <<remote, local, gone, marred, op>>
      /\ crossed' = crossed \ {t} /\ answer' = answer
  BY DEF PushRejected, Working
<1>2. pc \in [Threads -> Points] /\ work \in [Threads -> Works] /\ work[t] \in Works
  BY Given
<1>3. CASE work[t].try = 1
  <2>1. /\ pc' = [pc EXCEPT ![t] = "syncing"]
        /\ work' = [work EXCEPT ![t] = [work[t] EXCEPT !.try = 2]]
    BY <1>2, <1>3 DEF PushRejected, Goto
  <2>2. /\ pc'[t] = "syncing" /\ work'[t].try = 2 /\ work'[t].dropped = work[t].dropped
        /\ \A u \in Threads \ {t} : pc'[u] = pc[u] /\ work'[u] = work[u]
    BY <1>2, <2>1 DEF Works
  <2> QED BY <1>1, <2>2, MoveOn DEF Engaged
<1>4. CASE work[t].try # 1
  <2>1. /\ pc'[t] = "failed" /\ work' = work /\ \A u \in Threads \ {t} : pc'[u] = pc[u]
    BY <1>2, <1>4 DEF PushRejected, Goto
  <2> QED BY <1>1, <2>1, MoveOn DEF Engaged
<1> QED BY <1>3, <1>4

\* A push that fails, or whose landing its thread does not learn of.
LEMMA PushFailsStep == ASSUME IInv, TypeOK', NEW t \in Threads, PushFails(t) PROVE IInv'
<1>1. /\ pc[t] = "pushing" /\ Working(t) /\ UNCHANGED <<op, answer, crossed, marred>>
      /\ pc' = [pc EXCEPT ![t] = "failed"]
  BY DEF PushFails, Working, Goto
<1>2. pc \in [Threads -> Points] /\ TypeOK
  BY Given DEF IInv
<1>3. pc'[t] = "failed" /\ \A u \in Threads \ {t} : pc'[u] = pc[u]
  BY <1>1, <1>2
<1>4. CASE UNCHANGED <<remote, local, work, gone>>
  BY <1>1, <1>3, <1>4, MoveOn DEF Engaged
<1>5. CASE (UpToDate(t) \/ LeaseHolds(t)) /\ Land(t) /\ work' = Outdated(t)
  <2>1. work'[t].dropped = work[t].dropped
    BY <1>2, <1>5, OutdatedWork
  <2> QED BY <1>1, <1>3, <1>5, <2>1, LandStep
<1> QED BY <1>4, <1>5 DEF PushFails

\* A push that lands and is reported.
LEMMA PushLandsStep == ASSUME IInv, TypeOK', NEW t \in Threads, PushLands(t) PROVE IInv'
<1>1. /\ pc[t] = "pushing" /\ (UpToDate(t) \/ LeaseHolds(t)) /\ Land(t) /\ op' = op
      /\ pc' = [pc EXCEPT ![t] = "idle"] /\ answer' = [answer EXCEPT ![t] = "pushed"]
      /\ work' = [Outdated(t) EXCEPT ![t] = NoWork] /\ Crosses(Here(t), Threads \ {t})
  BY DEF PushLands, Finish, Goto, Ended
<1>2. pc \in [Threads -> Points] /\ answer \in [Threads -> Answers] /\ TypeOK
  BY Given DEF IInv
<1>3. Outdated(t) \in [Threads -> Works]
  BY <1>2, OutdatedWork
<1>4. /\ pc'[t] = "idle" /\ answer'[t] = "pushed"
      /\ \A u \in Threads \ {t} : pc'[u] = pc[u] /\ answer'[u] = answer[u]
                                  /\ work'[u] = Outdated(t)[u]
  BY <1>1, <1>2, <1>3
<1> QED BY <1>1, <1>4, LandStep

\* A fetch before a retry, an overwrite or an unshare keeps the invariant.
LEMMA SyncStep == ASSUME IInv, TypeOK', NEW t \in Threads, Sync(t) PROVE IInv'
<1>1. /\ pc[t] = "syncing" /\ Working(t) /\ UNCHANGED <<remote, op, work, answer, gone>>
      /\ pc' = [pc EXCEPT ![t] = IF op[t].kind = "unshare" THEN "removing" ELSE "merging"]
  BY DEF Sync, Working, Goto
<1>2. /\ Here(t) \in Clones /\ ThreadOK(t)
      /\ pc \in [Threads -> Points] /\ local \in [Clones -> Refs] /\ TypeOK
  BY Given DEF IInv
<1>3. /\ pc'[t] = IF op[t].kind = "unshare" THEN "removing" ELSE "merging"
      /\ \A u \in Threads \ {t} : pc'[u] = pc[u]
  BY <1>1, <1>2
<1>4. CASE UNCHANGED <<local, crossed, marred>>
  <2>1. Engaged(t) => Engaged(t)'
    BY <1>1, <1>3 DEF Engaged
  <2> QED BY <1>1, <1>3, <1>4, <2>1, MoveOn
<1>5. CASE /\ remote.born
           /\ \E omitted \in SUBSET News(Here(t)) :
                 local' = [local EXCEPT ![Here(t)] = Fetched(Here(t), omitted)]
           /\ Crosses(Here(t), Threads \ {t})
  <2>1. PICK omitted \in SUBSET News(Here(t)) :
                 local' = [local EXCEPT ![Here(t)] = Fetched(Here(t), omitted)]
    BY <1>5
  <2>2. omitted \in SUBSET Entries
    BY DEF News, In
  <2>3. Fetched(Here(t), omitted).sha = "tip" /\ Fetched(Here(t), omitted).tree = remote.tree
    BY <1>2, <2>2, FetchedType
  <2>4. /\ local'[Here(t)].sha = "tip" /\ local'[Here(t)].tree = remote.tree
        /\ \A c \in Clones \ {Here(t)} : local'[c] = local[c]
    BY <1>2, <2>1, <2>3
  <2>5. RefOK(Here(t))'
    BY <1>1, <1>5, <2>4 DEF RefOK, Here
  <2>6. ThreadOK(t)'
    BY <1>1, <1>2, <1>3 DEF ThreadOK, AimOK, TreeOK, StandsOK, FreshOK, ReportOK, Working, Owner, Here
  <2>7. \A e \in Entries : local'[Here(t)].tree[e] \subseteq Known(e)'
    BY <1>1, <2>4 DEF Known
  <2> QED BY <1>1, <1>3, <1>5, <2>4, <2>5, <2>6, <2>7, ThreadStep
<1> QED BY <1>4, <1>5 DEF Sync

\* What leaving an entry out of a ref changes.
LEMMA WithoutMeans ==
    ASSUME IInv, NEW c \in Clones, NEW e \in Entries
    PROVE  /\ \A d \in Clones \ {c} : Without(c, e)[d] = local[d]
           /\ Without(c, e)[c].tree[e] = {}
           /\ \A x \in Entries \ {e} : Without(c, e)[c].tree[x] = local[c].tree[x]
           /\ local[c].tree[e] = {} => Without(c, e)[c] = local[c]
           /\ local[c].tree[e] # {} => Without(c, e)[c].sha = "other"
<1>1. local \in [Clones -> Refs]
  BY Typed DEF IInv
<1>2. \A d \in Clones \ {c} : Without(c, e)[d] = local[d]
  BY <1>1 DEF Without
<1>3. CASE local[c].tree[e] = {}
  <2>1. Without(c, e)[c] = local[c]
    BY <1>1, <1>3 DEF Without
  <2> QED BY <1>1, <1>2, <1>3, <2>1
<1>4. CASE local[c].tree[e] # {}
  <2>1. Without(c, e)[c] = [sha |-> "other", tree |-> [local[c].tree EXCEPT ![e] = {}],
                            hollow |-> local[c].hollow \ {e}]
    BY <1>1, <1>4 DEF Without
  <2> QED BY <1>1, <1>2, <1>4, <2>1 DEF Refs, Trees
<1> QED BY <1>3, <1>4

\* What a failed share takes out of the local ref keeps the invariant.
LEMMA GiveUpStep == ASSUME IInv, TypeOK', NEW t \in Threads, GiveUp(t) PROVE IInv'
<1>1. /\ pc[t] = "failed" /\ Working(t) /\ UNCHANGED <<remote, op, gone>>
      /\ pc' = [pc EXCEPT ![t] = "idle"] /\ answer' = [answer EXCEPT ![t] = "failed"]
      /\ work' = [work EXCEPT ![t] = NoWork] /\ Crosses(Here(t), Threads \ {t})
  BY DEF GiveUp, Working, Finish, Goto, Ended
<1>2. /\ Here(t) \in Clones /\ RefOK(Here(t)) /\ op[t].entry \in Entries
      /\ pc \in [Threads -> Points] /\ answer \in [Threads -> Answers] /\ work \in [Threads -> Works]
  BY Given
<1>3. /\ pc'[t] = "idle" /\ answer'[t] = "failed"
      /\ \A u \in Threads \ {t} : pc'[u] = pc[u] /\ answer'[u] = answer[u] /\ work'[u] = work[u]
  BY <1>1, <1>2
<1>4. ThreadOK(t)'
  BY <1>1, <1>3 DEF ThreadOK, AimOK, TreeOK, StandsOK, FreshOK, ReportOK, Working
<1>5. CASE op[t].kind = "unshare"
  <2>1. local' = local
    BY <1>5 DEF GiveUp
  <2>2. \A e \in Entries : ~UnderWay(t, Here(t), e)
    BY <1>5 DEF UnderWay
  <2>3. RefOK(Here(t))'
    BY <1>1, <1>2, <2>1 DEF RefOK, Here
  <2> QED BY <1>1, <1>3, <1>4, <2>1, <2>2, <2>3, ThreadStep
<1>6. CASE op[t].kind # "unshare"
  <2>1. local' = Without(Here(t), op[t].entry)
    BY <1>6 DEF GiveUp
  <2>2. /\ \A d \in Clones \ {Here(t)} : local'[d] = local[d]
        /\ local'[Here(t)].tree[op[t].entry] = {}
        /\ \A x \in Entries \ {op[t].entry} : local'[Here(t)].tree[x] = local[Here(t)].tree[x]
        /\ local'[Here(t)] = local[Here(t)] \/ local'[Here(t)].sha = "other"
    BY <1>2, <2>1, WithoutMeans
  <2>3. ASSUME NEW e \in Entries
        PROVE  \/ local'[Here(t)].tree[e] \subseteq Known(e)'
               \/ local'[Here(t)].tree[e] = local[Here(t)].tree[e] /\ ~UnderWay(t, Here(t), e)
    <3>1. CASE e = op[t].entry
      BY <2>2, <3>1
    <3>2. CASE e # op[t].entry
      BY <2>2, <3>2 DEF UnderWay
    <3> QED BY <3>1, <3>2
  <2>4. RefOK(Here(t))'
    BY <1>1, <1>2, <2>2 DEF RefOK, Here
  <2> QED BY <1>1, <1>3, <1>4, <2>2, <2>3, <2>4, ThreadStep
<1> QED BY <1>5, <1>6

\* What an unshare takes out of the local ref keeps the invariant.
LEMMA RemoveStep == ASSUME IInv, TypeOK', NEW t \in Threads, Remove(t) PROVE IInv'
<1>1. pc[t] = "removing" /\ Working(t) /\ UNCHANGED <<remote, op, gone>>
  BY DEF Remove, Working
<1>2. /\ Here(t) \in Clones /\ RefOK(Here(t)) /\ ThreadOK(t) /\ op[t].entry \in Entries
      /\ work[t] \in Works /\ local[Here(t)] \in Refs /\ local[Here(t)].tree \in Trees
      /\ pc \in [Threads -> Points] /\ answer \in [Threads -> Answers] /\ work \in [Threads -> Works]
  BY Given
<1>3. /\ op[t].kind = "unshare" /\ work[t].dropped = {}
      /\ \A e \in Entries : ~UnderWay(t, Here(t), e)
  BY <1>1, <1>2 DEF ThreadOK, AimOK, UnderWay
<1>4. CASE local[Here(t)].tree[op[t].entry] = {}
  <2>1. /\ pc' = [pc EXCEPT ![t] = "idle"] /\ answer' = [answer EXCEPT ![t] = "removed"]
        /\ work' = [work EXCEPT ![t] = NoWork] /\ UNCHANGED <<local, crossed, marred>>
    BY <1>4, Zenon DEF Remove, Finish, Goto, Ended
  <2>2. /\ pc'[t] = "idle" /\ answer'[t] = "removed"
        /\ \A u \in Threads \ {t} : pc'[u] = pc[u] /\ answer'[u] = answer[u] /\ work'[u] = work[u]
    BY <1>2, <2>1
  <2>3. ThreadOK(t)'
    BY <2>2 DEF ThreadOK, AimOK, TreeOK, StandsOK, FreshOK, ReportOK, Working
  <2>4. RefOK(Here(t))'
    BY <1>1, <1>2, <2>1 DEF RefOK, Here
  <2> QED BY <1>1, <1>3, <2>1, <2>2, <2>3, <2>4, ThreadStep
<1>5. CASE local[Here(t)].tree[op[t].entry] # {}
  <2> DEFINE new == [local[Here(t)].tree EXCEPT ![op[t].entry] = {}]
             sha == local[Here(t)].sha
             made == [work[t] EXCEPT !.lease = sha, !.tree = new]
  <2>1. /\ local' = Without(Here(t), op[t].entry) /\ pc' = [pc EXCEPT ![t] = "pushing"]
        /\ Crosses(Here(t), Threads \ {t}) /\ answer' = answer
    BY <1>5, Zenon DEF Remove, Goto
  <2>2. work' = [work EXCEPT ![t] = made]
    BY <1>2, <1>5 DEF Remove
  <2>3. new[op[t].entry] = {} /\ \A x \in Entries \ {op[t].entry} : new[x] = local[Here(t)].tree[x]
    BY <1>2 DEF Trees
  <2>4. made.lease = sha /\ made.tree = new /\ made.dropped = {}
    <3> HIDE DEF new, sha
    <3> QED BY <1>2, <1>3 DEF Works
  <2> HIDE DEF made, new
  <2>5. /\ pc'[t] = "pushing" /\ work'[t] = made
        /\ \A u \in Threads \ {t} : pc'[u] = pc[u] /\ answer'[u] = answer[u] /\ work'[u] = work[u]
    BY <1>2, <2>1, <2>2
  <2>6. /\ \A d \in Clones \ {Here(t)} : local'[d] = local[d]
        /\ local'[Here(t)].tree[op[t].entry] = {} /\ local'[Here(t)].sha = "other"
        /\ \A x \in Entries \ {op[t].entry} : local'[Here(t)].tree[x] = local[Here(t)].tree[x]
    BY <1>2, <1>5, <2>1, WithoutMeans
  <2>7. LeaseHolds(t)' => local[Here(t)].tree = remote.tree
    BY <1>1, <1>2, <2>4, <2>5 DEF LeaseHolds, RefOK, IInv, RefsOK
  <2>8. TreeOK(t)'
    <3>1. LeaseHolds(t)' => \A x \in Entries \ {op[t].entry} : new[x] = remote.tree[x]
      BY <2>3, <2>7
    <3> QED BY <1>1, <1>3, <2>3, <2>4, <2>5, <3>1 DEF TreeOK
  <2>9. StandsOK(t)'
    <3>1. \A x \in Entries : local'[Here(t)].tree[x] = new[x]
      BY <2>3, <2>6
    <3> QED BY <2>4, <2>5, <3>1 DEF StandsOK, Here
  <2>10. AimOK(t)'
    BY <1>1, <1>2, <1>3, <2>4, <2>5 DEF ThreadOK, AimOK, Working, Owner, Here
  <2>11. ThreadOK(t)'
    BY <2>5, <2>8, <2>9, <2>10 DEF ThreadOK, FreshOK, ReportOK, Working
  <2>12. ASSUME NEW e \in Entries
         PROVE  \/ local'[Here(t)].tree[e] \subseteq Known(e)'
                \/ local'[Here(t)].tree[e] = local[Here(t)].tree[e] /\ ~UnderWay(t, Here(t), e)
    BY <1>3, <2>6
  <2>13. RefOK(Here(t))'
    BY <2>6 DEF RefOK, Here
  <2> QED BY <1>1, <2>1, <2>5, <2>6, <2>11, <2>12, <2>13, ThreadStep
<1> QED BY <1>4, <1>5

\* A process that ends under its operations keeps the invariant.
LEMMA DieStep == ASSUME IInv, TypeOK', NEW c \in Clones, Die(c) PROVE IInv'
<1> DEFINE dead == {t \in Threads : Home[t] = c /\ pc[t] # "idle"}
<1>1. /\ pc' = [t \in Threads |-> IF t \in dead THEN "idle" ELSE pc[t]]
      /\ answer' = [t \in Threads |-> IF t \in dead THEN "died" ELSE answer[t]]
      /\ work' = [t \in Threads |-> IF t \in dead THEN NoWork ELSE work[t]]
      /\ marred' = IF \E t \in dead : Engaged(t) THEN marred \cup {c} ELSE marred
      /\ UNCHANGED <<remote, local, op, gone, crossed>>
  BY DEF Die
<1>2. Grows
  BY <1>1 DEF Grows, Known
<1>3. ASSUME NEW t \in Threads PROVE ThreadOK(t)'
  <2>1. ThreadOK(t) /\ TypeOK
    BY DEF IInv
  <2>2. CASE t \in dead
    <3>1. pc'[t] = "idle" /\ answer'[t] = "died"
      BY <1>1, <2>2
    <3> QED BY <3>1 DEF ThreadOK, AimOK, TreeOK, StandsOK, FreshOK, ReportOK, Working
  <2>3. CASE t \notin dead
    <3>1. pc'[t] = pc[t] /\ answer'[t] = answer[t] /\ work'[t] = work[t]
      BY <1>1, <2>3
    <3>2. Here(t) \notin marred' => Here(t) \notin marred
      BY <1>1
    <3>3. Spared(t)
      BY <1>1, <3>1, <3>2 DEF Spared, LeaseHolds
    <3> QED BY <1>2, <2>1, <3>3, OtherThread
  <2> QED BY <2>2, <2>3
<1>4. ASSUME NEW d \in Clones \ marred' PROVE ListedOK(d)'
  <2>1. d \notin marred /\ (d = c => \A t \in dead : ~Engaged(t))
    BY <1>1, <1>4
  <2>2. ASSUME NEW u \in Threads, Home[u] = d, Engaged(u) PROVE Engaged(u)'
    <3>1. u \notin dead
      BY <2>1, <2>2
    <3> QED BY <1>1, <2>2, <3>1 DEF Engaged
  <2>3. local'[d].tree = local[d].tree /\ \A u \in Threads : op'[u] = op[u]
    BY <1>1
  <2>4. ListedOK(d)
    BY <2>1 DEF IInv
  <2> QED BY <1>2, <2>2, <2>3, <2>4, SameList
<1>5. RefsOK'
  BY <1>1 DEF IInv, RefsOK, RefOK
<1> QED BY <1>3, <1>4, <1>5 DEF IInv

\* Resuming a shared conversation keeps the invariant.
LEMMA ResumeStep ==
    ASSUME IInv, TypeOK', NEW c \in Clones, NEW e \in Entries, ResumeShared(c, e) PROVE IInv'
<1>1. UNCHANGED <<remote, pc, op, work, answer, gone>> /\ remote.born
  BY DEF ResumeShared
<1>2. CASE UNCHANGED <<local, crossed, marred>>
  BY <1>1, <1>2, QuietStep
<1>3. CASE /\ local' = [local EXCEPT ![c] = [Fetched(c, {}) EXCEPT !.hollow = @ \ {e}]]
           /\ Crosses(c, Threads)
  <2>1. local \in [Clones -> Refs] /\ TypeOK /\ Threads \in SUBSET Threads
    BY Typed DEF IInv
  <2>2. local'[c] = [Fetched(c, {}) EXCEPT !.hollow = @ \ {e}]
        /\ \A d \in Clones \ {c} : local'[d] = local[d]
    BY <1>3, <2>1
  <2>3. Fetched(c, {}) \in Refs /\ Fetched(c, {}).sha = "tip" /\ Fetched(c, {}).tree = remote.tree
    BY <2>1, FetchedType
  <2>4. local'[c].sha = "tip" /\ local'[c].tree = remote.tree
    BY <2>2, <2>3 DEF Refs
  <2>5. Grows
    BY <1>1 DEF Grows, Known
  <2>6. /\ crossed \subseteq crossed'
        /\ \A u \in Threads :
             /\ (u \notin crossed' /\ pc[u] = "pushing") => local'[Here(u)].tree = local[Here(u)].tree
             /\ (Here(u) \notin marred' /\ Engaged(u)) =>
                   Here(u) \notin marred /\ local'[Here(u)].tree = local[Here(u)].tree
        /\ \A d \in Clones \ marred' : d \in marred => d = c
    <3>1. \A d \in Clones \ {c} : local'[d].tree = local[d].tree
      BY <2>2
    <3> QED BY <1>3, <2>1, <3>1, CrossMeans
  <2>7. ASSUME NEW u \in Threads PROVE ThreadOK(u)'
    <3>1. Spared(u)
      BY <1>1, <2>6 DEF Spared, LeaseHolds
    <3> QED BY <2>1, <2>5, <3>1, OtherThread DEF IInv
  <2>8. ASSUME NEW d \in Clones \ marred' PROVE ListedOK(d)'
    <3>1. CASE d = c
      BY <1>1, <2>4, <3>1 DEF ListedOK, Known
    <3>2. CASE d # c
      <4>1. d \notin marred /\ local'[d].tree = local[d].tree
        BY <2>2, <2>6, <3>2
      <4> QED BY <1>1, <2>5, <4>1, SameList DEF IInv, Engaged
    <3> QED BY <3>1, <3>2
  <2>9. RefsOK'
    BY <1>1, <2>2, <2>4 DEF IInv, RefsOK, RefOK
  <2> QED BY <2>7, <2>8, <2>9 DEF IInv
<1> QED BY <1>2, <1>3 DEF ResumeShared

-----------------------------------------------------------------------------
(* What holds of every run.                                                *)

\* The first state has the invariant.
LEMMA InitInv == Init => IInv
<1> SUFFICES ASSUME Init PROVE IInv
  OBVIOUS
<1>1. TypeOK
  BY TypeInit
<1>2. PICK shared \in SUBSET Entries :
        LET start == [e \in Entries |-> IF e \in shared THEN {0} ELSE {}]
            sha == IF shared = {} THEN "none" ELSE "tip"
        IN  /\ remote = [born |-> shared # {}, tree |-> start]
            /\ local = [c \in Clones |-> [sha |-> sha, tree |-> start, hollow |-> {}]]
  BY DEF Init
<1> DEFINE start == [e \in Entries |-> IF e \in shared THEN {0} ELSE {}]
<1>3. shared = {} => start = Nothing
  BY DEF Nothing
<1>4. RefsOK
  BY <1>2, <1>3 DEF RefsOK, RefOK
<1>5. \A t \in Threads : ~Working(t) /\ pc[t] = "idle" /\ answer[t] = "none"
  BY DEF Init, Working
<1>6. \A t \in Threads : ThreadOK(t)
  BY <1>5 DEF ThreadOK, AimOK, TreeOK, StandsOK, FreshOK, ReportOK, Working
<1>7. \A c \in Clones : ListedOK(c)
  BY <1>2 DEF ListedOK, Known
<1> QED BY <1>1, <1>4, <1>6, <1>7 DEF IInv

\* One step keeps the invariant.
LEMMA InvStep == ASSUME IInv, [Next]_vars PROVE IInv'
<1>0. TypeOK'
  BY TypeStep DEF IInv
<1>1. ASSUME NEW c \in Clones, NEW e \in Entries, Say(c, e) PROVE IInv'
  BY <1>0, <1>1, QuietStep DEF Say
<1>2. ASSUME NEW c \in Clones, NEW e \in Entries, ResumeShared(c, e) PROVE IInv'
  BY <1>0, <1>2, ResumeStep
<1>3. ASSUME NEW c \in Clones, ListShared(c) \/ Die(c) PROVE IInv'
  <2>1. CASE ListShared(c)
    BY <1>0, <2>1, QuietStep DEF ListShared
  <2>2. CASE Die(c)
    BY <1>0, <2>2, DieStep
  <2> QED BY <1>3, <2>1, <2>2
<1>4. ASSUME NEW t \in Threads, NEW e \in Entries, Share(t, e) \/ AutoShare(t, e) \/ Unshare(t, e)
      PROVE  IInv'
  <2>1. conv[Here(t)][e] \in SUBSET Turns
    BY StoreAssumption DEF Here, IInv, TypeOK, Trees
  <2>2. CASE Share(t, e)
    BY <1>0, <2>1, <2>2, BeginStep DEF Share
  <2>3. CASE AutoShare(t, e)
    BY <1>0, <2>1, <2>3, BeginStep DEF AutoShare
  <2>4. CASE Unshare(t, e)
    BY <1>0, <2>4, BeginStep DEF Unshare
  <2> QED BY <1>4, <2>2, <2>3, <2>4
<1>5. ASSUME NEW t \in Threads, Overwrite(t) PROVE IInv'
  <2>1. op[t].entry \in Entries /\ op[t].sent \in SUBSET Turns
    BY Given
  <2>2. op[t].entry \notin Mergeable
    BY <1>5 DEF Overwrite, IInv, ThreadOK, ReportOK, Working
  <2> QED BY <1>0, <1>5, <2>1, <2>2, BeginStep DEF Overwrite
<1>6. ASSUME NEW t \in Threads,
             \/ Merge(t) \/ Write(t) \/ PushLands(t) \/ PushRejected(t)
             \/ PushFails(t) \/ Sync(t) \/ GiveUp(t) \/ Remove(t)
      PROVE  IInv'
  BY <1>0, <1>6, MergeStep, WriteStep, PushLandsStep, RejectedStep, PushFailsStep, SyncStep,
     GiveUpStep, RemoveStep
<1>7. CASE UNCHANGED vars
  BY <1>0, <1>7, QuietStep DEF vars
<1> QED BY <1>1, <1>2, <1>3, <1>4, <1>5, <1>6, <1>7 DEF Next

\* The invariant holds in every state, whatever the operations of a clone do to each other
\* and whatever a fetch leaves out.
THEOREM Invariant == Spec => []IInv
<1>1. IInv /\ [Next]_vars => IInv'
  BY InvStep
<1> QED
  BY <1>1, InitInv, PTL DEF Spec

\* A share reported as pushed, that no other operation crossed, is on the remote with all its
\* turns until they are taken off.
THEOREM PushedSafe == Spec => []PushedStays
<1>1. IInv => PushedStays
  BY DEF IInv, ThreadOK, ReportOK, Working, Known, PushedStays
<1> QED
  BY <1>1, Invariant, PTL

\* A clone whose operations are over, and were not crossed or killed, lists nothing that never
\* was on the remote.
THEOREM MenuSafe == Spec => []MenuHonest
<1>1. IInv => MenuHonest
  BY DEF IInv, ListedOK, UnderWay, Engaged, Known, MenuHonest
<1> QED
  BY <1>1, Invariant, PTL

\* An auto-share whose push was not crossed takes for pushed only what reached the remote.
THEOREM DigestSafe == Spec => AutoDigestPushed
<1> DEFINE Step == \A t \in Threads \ crossed :
        LET c == Home[t] e == op[t].entry
        IN  (op[t].kind = "auto" /\ pc[t] # "idle" /\ pc'[t] = "idle"
                /\ digest'[c][e] # digest[c][e])
            => digest'[c][e] \subseteq remote'.tree[e] \cup gone'[e]
<1>1. ASSUME IInv, [Next]_vars PROVE [Step]_vars
  <2> SUFFICES ASSUME NEW t \in Threads, t \notin crossed, op[t].kind = "auto", pc[t] # "idle",
                      pc'[t] = "idle", digest'[Home[t]][op[t].entry] # digest[Home[t]][op[t].entry]
               PROVE  digest'[Home[t]][op[t].entry]
                          \subseteq remote'.tree[op[t].entry] \cup gone'[op[t].entry]
    OBVIOUS
  <2>1. /\ Here(t) \in Clones /\ op[t].entry \in Entries /\ pc \in [Threads -> Points]
        /\ digest \in [Clones -> Trees]
    BY <1>1, Given DEF IInv, TypeOK
  <2>2. CASE \E c \in Clones : Die(c)
    <3>1. PICK c \in Clones : digest' = [digest EXCEPT ![c] = Nothing]
      BY <2>2 DEF Die
    <3>2. digest'[Home[t]][op[t].entry] = {}
      BY <2>1, <3>1 DEF Here, Nothing
    <3> QED BY <3>2
  <2>3. CASE ~\E c \in Clones : Die(c)
    <3>1. PICK u \in Threads : PushLands(u) \/ GiveUp(u)
      BY <1>1, <2>3 DEF Next, vars, Say, ResumeShared, ListShared, Share, AutoShare, Unshare,
            Overwrite, Begin, Merge, Write, PushRejected, PushFails, Sync, Remove
    <3>2. pc' = [pc EXCEPT ![u] = "idle"]
      BY <3>1 DEF PushLands, GiveUp, Finish, Goto
    <3>3. u = t
      BY <2>1, <3>2
    <3>4. ~GiveUp(t)
      BY DEF GiveUp, Record, Remembers
    <3>5. PushLands(t)
      BY <3>1, <3>3, <3>4
    <3>6. /\ pc[t] = "pushing" /\ (UpToDate(t) \/ LeaseHolds(t)) /\ Land(t)
          /\ digest' = [digest EXCEPT ![Here(t)][op[t].entry] = op[t].sent]
      BY <3>5 DEF PushLands, Record, Remembers
    <3>7. /\ remote'.tree = local[Here(t)].tree
          /\ op[t].sent \subseteq local[Here(t)].tree[op[t].entry] \cup gone'[op[t].entry]
      BY <1>1, <3>6, LandMeans
    <3>8. digest'[Home[t]][op[t].entry] = op[t].sent
      BY <2>1, <3>6 DEF Here, Trees
    <3> QED BY <3>7, <3>8
  <2> QED BY <2>2, <2>3
<1> QED
  BY <1>1, Invariant, PTL DEF Spec, AutoDigestPushed

-----------------------------------------------------------------------------
(* SharedStore implements SharedShelf.                                     *)

\* The two modules count alike.
LEMMA SameCardinality == ASSUME NEW S PROVE Shelf!Cardinality(S) = Cardinality(S)
  BY DEF Shelf!Cardinality, Cardinality

\* A push that lands and was not crossed is a share or an unshare of the shelf.
LEMMA LandIsShelfStep ==
    ASSUME IInv, TypeOK', NEW t \in Threads, pc[t] = "pushing", ~UpToDate(t), LeaseHolds(t), Land(t),
           t \notin crossed
    PROVE  Shelf!Share(Login[Here(t)], op[t].entry) \/ Shelf!Unshare(Login[Here(t)], op[t].entry)
<1> DEFINE e == op[t].entry
           copy == work[t].tree[op[t].entry]
<1>1. /\ Here(t) \in Clones /\ ThreadOK(t) /\ op[t].entry \in Entries
      /\ local[Here(t)].tree \in Trees /\ work[t].tree \in Trees
      /\ work[t].dropped \in SUBSET Entries /\ Working(t)
  BY Given DEF Working
<1>2. remote'.tree = local[Here(t)].tree
  BY LandMeans
<1>3. /\ AimOK(t) /\ TreeOK(t)
      /\ \A x \in Entries :
            local[Here(t)].tree[x] = IF x \in work[t].dropped THEN {} ELSE work[t].tree[x]
      /\ \A x \in Entries \ {e} : work[t].tree[x] = remote.tree[x]
  BY <1>1 DEF ThreadOK, TreeOK, StandsOK
<1>4. e \notin work[t].dropped
  BY <1>1, <1>3 DEF AimOK
<1>5. Shelf!Put(e, copy, work[t].dropped)
  <2>1. \A x \in Entries : local[Here(t)].tree[x] =
            IF x = e THEN copy ELSE IF x \in work[t].dropped THEN {} ELSE remote.tree[x]
    BY <1>3, <1>4
  <2> HIDE DEF e, copy
  <2> QED BY <1>1, <1>2, <2>1 DEF Shelf!Put, Trees
<1>6. CASE op[t].kind = "unshare"
  <2>1. copy = {} /\ work[t].dropped = {} /\ Owner[e] = Login[Here(t)]
    BY <1>1, <1>3, <1>6 DEF AimOK, TreeOK
  <2> QED BY <1>5, <2>1 DEF Shelf!Unshare
<1>7. CASE op[t].kind # "unshare"
  <2>1. work[t].dropped \in SUBSET Shelf!OwnedBy(Login[Here(t)])
    BY <1>1, <1>3 DEF AimOK, Shelf!OwnedBy
  <2>2. copy \in SUBSET Turns
    BY <1>1 DEF Trees
  <2>3. Shelf!Longer(e, copy) \/ e \in Asked \ Mergeable \/ e \in Unread
    <3>1. CASE Blind(t)
      BY <1>1, <3>1 DEF Unread, Busy, Working
    <3>2. CASE op[t].kind = "overwrite"
      BY <1>1, <1>3, <3>2 DEF AimOK, Asked, Busy, Working
    <3>3. CASE op[t].kind # "overwrite" /\ ~Blind(t)
      BY <1>3, <1>7, <3>3, SameCardinality DEF TreeOK, NoShorter, Shelf!Longer
    <3> QED BY <3>1, <3>2, <3>3
  <2> QED BY <1>5, <2>1, <2>2, <2>3 DEF Shelf!Share
<1> QED BY <1>6, <1>7

\* One step is a step of the shelf or leaves it alone.
LEMMA ShelfStep ==
    ASSUME IInv, TypeOK', [Next]_vars PROVE [Shelf!Next]_<<remote.tree, Asked, Unread, Mixing>>
<1>1. Asked' \in SUBSET Entries /\ Unread' \in SUBSET Entries /\ Mixing' \in BOOLEAN
  BY DEF Asked, Unread, Mixing, Busy, TypeOK, Ops
<1>2. CASE remote' = remote
  BY <1>1, <1>2 DEF Shelf!Next, Shelf!Ask
<1>3. CASE remote' # remote
  <2>1. PICK t \in Threads : PushLands(t) \/ PushFails(t)
    BY <1>3 DEF Next, vars, Say, ResumeShared, ListShared, Share, AutoShare, Unshare, Overwrite, Begin,
          Merge, Write, PushRejected, GiveUp, Sync, Remove, Die
  <2>2. pc[t] = "pushing" /\ (UpToDate(t) \/ LeaseHolds(t)) /\ Land(t)
    BY <1>3, <2>1 DEF PushLands, PushFails
  <2>3. ~UpToDate(t)
    BY <1>3, <2>2, LandMeans
  <2>4. op[t].entry \in Entries /\ Login[Here(t)] \in Logins
    BY StoreAssumption, Given DEF Here
  <2>5. CASE t \in crossed
    <3>1. Mixing
      BY <2>2, <2>5 DEF Mixing, Busy
    <3>2. remote'.tree \in [Entries -> SUBSET Turns]
      BY DEF TypeOK, Trees
    <3> QED BY <1>1, <3>1, <3>2 DEF Shelf!Next, Shelf!Mix
  <2>6. CASE t \notin crossed
    <3>1. Shelf!Share(Login[Here(t)], op[t].entry) \/ Shelf!Unshare(Login[Here(t)], op[t].entry)
      BY <2>2, <2>3, <2>6, LandIsShelfStep
    <3> QED BY <1>1, <2>4, <3>1 DEF Shelf!Next
  <2> QED BY <2>5, <2>6
<1> QED BY <1>2, <1>3

\* The shared ref keeps the promise of the shelf to every contributor.
THEOREM ShelfImplemented == Spec => ImplementsShelf
<1>1. Init => Shelf!Init
  <2> SUFFICES ASSUME Init PROVE Shelf!Init
    OBVIOUS
  <2>1. remote.tree \in [Entries -> SUBSET Turns]
    BY TypeInit DEF TypeOK, Trees
  <2>2. Busy = {}
    BY DEF Init, Busy
  <2>3. Asked = {} /\ Unread = {} /\ Mixing = FALSE
    BY <2>2 DEF Asked, Unread, Mixing
  <2> QED BY <2>1, <2>3 DEF Shelf!Init
<1>2. IInv /\ IInv' /\ [Next]_vars => [Shelf!Next]_<<remote.tree, Asked, Unread, Mixing>>
  BY ShelfStep DEF IInv
<1> QED
  BY <1>1, <1>2, Invariant, PTL DEF Spec, ImplementsShelf, Shelf!Spec, Shelf!vars
=============================================================================
