---------------------------- MODULE SharedStore ----------------------------
(***************************************************************************)
(* Conversations shared through one git ref on the remote                  *)
(* (sessions/store.py), and the operations of proxy/sharing.py that write  *)
(* it.  Every clone keeps a local ref and a mirror for its menu; a write   *)
(* rewrites the local ref to a snapshot without parents and pushes it under*)
(* a lease on the tip it believes the remote to have.  A transcript is the *)
(* set of its turns; a snapshot is known by whether it IS the remote's tip *)
(* ("tip"), as two snapshots are never the same commit.  A clone is one    *)
(* process, whose operations run in threads of their own, side by side.    *)
(***************************************************************************)
EXTENDS Naturals, FiniteSets

CONSTANTS
    Clones,
    Threads,      \* the worker threads that share, unshare or auto-share
    Home,         \* [Threads -> Clones]
    Logins,
    Login,        \* [Clones -> Logins]: who works in a clone
    Entries,
    Origin,       \* [Entries -> Clones]: where the conversation began
    Mergeable,    \* the entries whose copies share a head and have row ids
    Keep,         \* DEFAULT_KEEP: entries kept per contributor
    MaxTurns,     \* BOUND: turns that are said
    MaxOps,       \* BOUND: [Clones -> Nat]: operations that are started in a clone
    MaxEvents     \* BOUND: fetches and pushes that fail, processes that end under an
                  \* operation, menus that are refreshed

ASSUME StoreAssumption ==
    /\ Home \in [Threads -> Clones]
    /\ Login \in [Clones -> Logins]
    /\ Origin \in [Entries -> Clones]
    /\ Entries # {} /\ Mergeable \subseteq Entries
    /\ {Keep, MaxTurns, MaxEvents} \subseteq Nat /\ Keep > 0
    /\ MaxOps \in [Clones -> Nat]

VARIABLES
    remote,   \* [born, tree]: the ref on origin
    local,    \* [Clones -> [sha, tree, hollow]]: the local ref; hollow entries lack their blob
    mirror,   \* [Clones -> SUBSET Entries]: what the listing fetch saw
    conv,     \* [Clones -> [Entries -> SUBSET Turns]]: the conversations on a clone's disk
    digest,   \* [Clones -> [Entries -> SUBSET Turns]]: _auto_share_hash
    pc, op,   \* where each thread is, and its operation, or the one it has finished
    work,     \* what the operation in hand has read and written
    answer,   \* [Threads -> what its last operation reported]
    budget,   \* what is left of the bounds
    gone,     \* history: turns a push took off the remote knowingly, blindly or crossed
    crossed,  \* history: threads whose local ref was rewritten since they read it
    marred    \* history: clones with something unpushed left by a crossing or a death

vars == <<remote, local, mirror, conv, digest, pc, op, work, answer, budget, gone, crossed, marred>>

Turns == 0..(MaxTurns + 1)
Nothing == [e \in Entries |-> {}]
Owner == [e \in Entries |-> Login[Origin[e]]]
Here(t) == Home[t]
In(tree) == {e \in Entries : tree[e] # {}}
NoOp == [kind |-> "none", entry |-> CHOOSE e \in Entries : TRUE, sent |-> {}]
NoWork == [lease |-> "none", tree |-> Nothing, dropped |-> {}, try |-> 0, hollow |-> {}]

\* A repository in which some conversations are shared and resumed by everybody; one
\* clone has gone on with them since.
Init ==
    \E shared \in SUBSET Entries, ahead \in Clones :
        /\ Cardinality(shared) <= Keep
        /\ LET start == [e \in Entries |-> IF e \in shared THEN {0} ELSE {}]
               sha == IF shared = {} THEN "none" ELSE "tip"
           IN  /\ remote = [born |-> shared # {}, tree |-> start]
               /\ local = [c \in Clones |-> [sha |-> sha, tree |-> start, hollow |-> {}]]
               /\ mirror = [c \in Clones |-> shared]
               /\ conv = [c \in Clones |-> [e \in Entries |-> start[e] \cup
                            IF c = ahead /\ e \in shared THEN {MaxTurns + 1} ELSE {}]]
               /\ digest = [c \in Clones |-> start]
        /\ pc = [t \in Threads |-> "idle"]
        /\ op = [t \in Threads |-> NoOp]
        /\ work = [t \in Threads |-> NoWork]
        /\ answer = [t \in Threads |-> "none"]
        /\ budget = [turns |-> MaxTurns, ops |-> MaxOps, events |-> MaxEvents]
        /\ gone = Nothing
        /\ crossed = {} /\ marred = {}

Spend(what) == budget[what] > 0 /\ budget' = [budget EXCEPT ![what] = @ - 1]
More(c) == budget.ops[c] > 0  \* BOUND: what no operation will see is left out
Goto(t, state) == pc' = [pc EXCEPT ![t] = state]
Finish(t, report) == Goto(t, "idle") /\ answer' = [answer EXCEPT ![t] = report]
Ended(works, t) == [works EXCEPT ![t] = NoWork]

\* Between its first reading of the local ref and its end.
Engaged(t) ==
    \/ pc[t] \in {"writing", "pushing", "failed"}
    \/ work[t].try = 2 /\ pc[t] \in {"syncing", "merging", "removing"}

\* Nothing keeps a clone's operations from its local ref while one of them is at it:
\* to rewrite the tree under another is noted of that one and of the clone, until
\* the ref is the remote's tip and nobody is at it.
Crosses(c, others) ==
    LET under == {u \in others : Home[u] = c /\ Engaged(u)}
    IN  IF under # {}
        THEN IF local'[c].tree = local[c].tree THEN UNCHANGED <<crossed, marred>>
             ELSE /\ crossed' = crossed \cup {u \in under : pc[u] \in {"writing", "pushing"}}
                  /\ marred' = marred \cup {c}
        ELSE /\ crossed' = crossed
             /\ marred' = IF local'[c].sha = "tip" THEN marred \ {c} ELSE marred

-----------------------------------------------------------------------------
(* The conversations and the menu.                                         *)

\* A turn is said: in the clone where a conversation begins, or where it was resumed.
Say(c, e) ==
    /\ c = Origin[e] \/ conv[c][e] # {}
    /\ More(c) /\ Spend("turns")
    /\ conv' = [conv EXCEPT ![c][e] = @ \cup {budget.turns}]
    /\ UNCHANGED <<remote, local, mirror, digest, pc, op, work, answer, gone, crossed, marred>>

\* The listing fetch writes the mirror only.
ListShared(c) ==
    /\ remote.born /\ More(c) /\ Spend("events")
    /\ mirror' = [mirror EXCEPT ![c] = In(remote.tree)]
    /\ UNCHANGED <<remote, local, conv, digest, pc, op, work, answer, gone, crossed, marred>>

Menu(c) == In(local[c].tree) \cup mirror[c]

\* What `+ref:ref` leaves in the local ref: the blobs the clone has already stay as
\* they are, of the others some are left out.
News(c) == {e \in In(remote.tree) : remote.tree[e] # local[c].tree[e]}
Fetched(c, omitted) ==
    [sha |-> "tip", tree |-> remote.tree,
     hollow |-> omitted \cup ((local[c].hollow \cap In(remote.tree)) \ News(c))]

\* Resuming an entry of the menu: the ref it is listed from is brought up to the
\* remote's tip, with the one transcript in full, and the conversation is imported.
ResumeShared(c, e) ==
    /\ e \in Menu(c) /\ conv[c][e] = {} /\ remote.born
    /\ \/ /\ local' = [local EXCEPT ![c] = [Fetched(c, {}) EXCEPT !.hollow = @ \ {e}]]
          /\ Crosses(c, Threads)
       \/ e \in mirror[c] /\ UNCHANGED <<local, crossed, marred>>
    /\ conv' = [conv EXCEPT ![c][e] = remote.tree[e]]
    /\ UNCHANGED <<remote, mirror, digest, pc, op, work, answer, budget, gone>>

-----------------------------------------------------------------------------
(* publish.                                                                *)

Begin(t, kind, e, sent, state) ==
    /\ budget.ops[Here(t)] > 0 /\ budget' = [budget EXCEPT !.ops[Here(t)] = @ - 1]
    /\ op' = [op EXCEPT ![t] = [kind |-> kind, entry |-> e, sent |-> sent]]
    /\ work' = [work EXCEPT ![t] = [NoWork EXCEPT !.try = 1]]
    /\ Goto(t, state)
    /\ crossed' = crossed \ {t}
    /\ UNCHANGED <<remote, local, mirror, conv, digest, answer, gone, marred>>

\* A share from the menu, whatever else is in flight.
Share(t, e) ==
    /\ pc[t] = "idle" /\ conv[Here(t)][e] # {}
    /\ Begin(t, "share", e, conv[Here(t)][e], "merging")

\* An auto-share: one at a time, and only of what it has not pushed already.
AutoShare(t, e) ==
    /\ pc[t] = "idle" /\ conv[Here(t)][e] \notin {{}, digest[Here(t)][e]}
    /\ \A u \in Threads : (Home[u] = Here(t) /\ pc[u] # "idle") => op[u].kind # "auto"
    /\ Begin(t, "auto", e, conv[Here(t)][e], "merging")

\* A share refused as behind may be pressed on with: the remote is fetched first.
Overwrite(t) ==
    /\ pc[t] = "idle" /\ answer[t] = "behind" /\ op[t].kind = "share"
    /\ Begin(t, "overwrite", op[t].entry, op[t].sent, "syncing")

\* The transcript stored in the local ref, as far as the clone can read it.
Stored(c, e) == IF e \in local[c].hollow THEN {} ELSE local[c].tree[e]

\* merge_transcripts, skipped by an overwrite.
Combined(t) ==
    IF op[t].kind # "overwrite" /\ op[t].entry \in Mergeable
    THEN op[t].sent \cup Stored(Here(t), op[t].entry) ELSE op[t].sent

\* Fault: the recency guard is missing.
FaultNeverBehind(t) == FALSE

\* _would_regress: the stored copy is longer than the one to be shared.
Behind(t) ==
    /\ op[t].kind # "overwrite"
    /\ Cardinality(Combined(t)) < Cardinality(Stored(Here(t), op[t].entry))

\* _add_and_push up to its write: merge, recency guard, the lease, the tree.
Merge(t) ==
    /\ pc[t] = "merging"
    /\ IF Behind(t)
       THEN Finish(t, "behind") /\ work' = Ended(work, t)
       ELSE /\ Goto(t, "writing") /\ UNCHANGED answer
            /\ work' = [work EXCEPT
                  ![t].lease = local[Here(t)].sha,
                  ![t].tree = [local[Here(t)].tree EXCEPT ![op[t].entry] = Combined(t)],
                  ![t].hollow = local[Here(t)].hollow]
    /\ UNCHANGED <<remote, local, mirror, conv, digest, op, budget, gone, crossed, marred>>

\* prune_own_stale: of the entries of the one who shares, as the menu lists them,
\* the most recent Keep stay.  Which those are is up to their stamps, but the one
\* just written is the newest.
Stale(t, dropped) ==
    LET who  == Login[Here(t)]
        mine == {e \in In(work[t].tree) \cup mirror[Here(t)] : Owner[e] = who}
        most == IF Cardinality(mine) > Keep THEN Cardinality(mine) - Keep ELSE 0
    IN  dropped \subseteq mine \ {op[t].entry} /\ Cardinality(dropped) = most

\* Whether the merge was made without the stored copy, as its blob is not there.
Blind(t) == op[t].entry \in work[t].hollow

\* The local ref is rewritten: no comparison with what it was when the tree was read.
Write(t) ==
    /\ pc[t] = "writing"
    /\ \E dropped \in SUBSET Entries :
        /\ Stale(t, dropped)
        /\ local' = [local EXCEPT ![Here(t)] =
             [sha |-> "other",
              tree |-> [x \in Entries |-> IF x \in dropped THEN {} ELSE work[t].tree[x]],
              hollow |-> {x \in work[t].hollow \ (dropped \cup {op[t].entry}) :
                             @.tree[x] = work[t].tree[x] => x \in @.hollow}]]
        /\ work' = [work EXCEPT ![t].dropped = dropped]
    /\ Crosses(Here(t), Threads \ {t})
    /\ Goto(t, "pushing")
    /\ UNCHANGED <<remote, mirror, conv, digest, op, answer, budget, gone>>

-----------------------------------------------------------------------------
(* The push, shared by publish and unshare.                                *)

\* Fault: the push is forced.
FaultForced(t) == TRUE

\* --force-with-lease against the tip that was read; without one (the clone had no
\* ref) only a ref that is not there yet can be created.
LeaseHolds(t) == work[t].lease = "tip" \/ (work[t].lease = "none" /\ ~remote.born)

UpToDate(t) == local[Here(t)].sha = "tip"

Outdate(record) == IF record = "tip" THEN "other" ELSE record

\* The entries a push may take turns off: those that are to make room, its own when
\* it was to go, to be replaced, or could not be read; all of them when the tree it
\* pushes is another thread's.
Loose(t) ==
    {e \in Entries : t \in crossed \/ e \in work[t].dropped
        \/ (e = op[t].entry /\ (op[t].kind \in {"unshare", "overwrite"}
                                \/ e \notin Mergeable \/ Blind(t)))}

\* The remote takes the local ref, as it is by now.
Land(t) ==
    LET new == local[Here(t)].tree
    IN  IF UpToDate(t) THEN UNCHANGED <<remote, local, gone>>
        ELSE /\ remote' = [born |-> TRUE, tree |-> new]
             /\ local' = [c \in Clones |->
                            [local[c] EXCEPT !.sha = IF c = Here(t) THEN "tip" ELSE Outdate(@)]]
             /\ gone' = [e \in Entries |->
                            IF e \in Loose(t) THEN gone[e] \cup (remote.tree[e] \ new[e]) ELSE gone[e]]

\* The leases the other threads hold when it has.
Outdated(t) ==
    IF UpToDate(t) THEN work ELSE [u \in Threads |-> [work[u] EXCEPT !.lease = Outdate(@)]]

\* Fault: an auto-share counts as pushed whatever became of it.
FaultDigestAlways(t, ok) == TRUE

\* What a finished share remembers as pushed: an auto-share only a success, a share
\* or an overwrite from the menu whatever came of it.
Remembers(t, ok) == IF op[t].kind = "auto" THEN ok ELSE op[t].kind # "unshare"

Record(t, ok) ==
    digest' = IF Remembers(t, ok) THEN [digest EXCEPT ![Here(t)][op[t].entry] = op[t].sent]
              ELSE digest

PushLands(t) ==
    /\ pc[t] = "pushing" /\ (UpToDate(t) \/ LeaseHolds(t))
    /\ Land(t)
    /\ Finish(t, "pushed") /\ work' = Ended(Outdated(t), t)
    /\ Record(t, TRUE)
    /\ mirror' = IF op[t].kind = "unshare" THEN [mirror EXCEPT ![Here(t)] = @ \ {op[t].entry}]
                 ELSE mirror
    /\ Crosses(Here(t), Threads \ {t})
    /\ UNCHANGED <<conv, op, budget>>

\* The lease is stale: once more on the remote's tip, then no more.
PushRejected(t) ==
    /\ pc[t] = "pushing" /\ ~UpToDate(t) /\ ~LeaseHolds(t)
    /\ IF work[t].try = 1
       THEN Goto(t, "syncing") /\ work' = [work EXCEPT ![t].try = 2]
       ELSE Goto(t, "failed") /\ UNCHANGED work
    /\ crossed' = crossed \ {t}
    /\ UNCHANGED <<remote, local, mirror, conv, digest, op, answer, budget, gone, marred>>

\* Offline, refused by a hook, or killed at its timeout - when it may have landed.
PushFails(t) ==
    /\ pc[t] = "pushing" /\ Spend("events")
    /\ \/ UNCHANGED <<remote, local, work, gone>>
       \/ (UpToDate(t) \/ LeaseHolds(t)) /\ Land(t) /\ work' = Outdated(t)
    /\ Goto(t, "failed")
    /\ UNCHANGED <<mirror, conv, digest, op, answer, crossed, marred>>

\* _fetch_current, for a retry, an overwrite or an unshare.  It asks for a filtered
\* fetch: a new blob of more than 16k stays out, as far as the remote serves filters.
Sync(t) ==
    /\ pc[t] = "syncing"
    /\ \/ /\ remote.born
          /\ \E omitted \in SUBSET News(Here(t)) :
                local' = [local EXCEPT ![Here(t)] = Fetched(Here(t), omitted)]
          /\ Crosses(Here(t), Threads \ {t})
          /\ UNCHANGED budget
       \/ ~remote.born /\ UNCHANGED <<local, budget, crossed, marred>>
       \/ Spend("events") /\ UNCHANGED <<local, crossed, marred>>
    /\ Goto(t, IF op[t].kind = "unshare" THEN "removing" ELSE "merging")
    /\ UNCHANGED <<remote, mirror, conv, digest, op, work, answer, gone>>

\* The local ref of a clone without an entry.
Without(c, e) ==
    [local EXCEPT ![c] = IF @.tree[e] = {} THEN @
                         ELSE [sha |-> "other", tree |-> [@.tree EXCEPT ![e] = {}],
                               hollow |-> @.hollow \ {e}]]

\* Fault: a share that did not reach the remote stays in the local ref.
FaultKeepUnpushed(t) ==
    /\ pc[t] = "failed"
    /\ Finish(t, "failed") /\ work' = Ended(work, t)
    /\ Record(t, FALSE)
    /\ UNCHANGED <<remote, local, mirror, conv, op, budget, gone, crossed, marred>>

\* A share that did not reach the remote leaves the local ref; a removal that was
\* refused is not undone there.
GiveUp(t) ==
    /\ pc[t] = "failed"
    /\ local' = IF op[t].kind = "unshare" THEN local ELSE Without(Here(t), op[t].entry)
    /\ Crosses(Here(t), Threads \ {t})
    /\ Finish(t, "failed") /\ work' = Ended(work, t)
    /\ Record(t, FALSE)
    /\ UNCHANGED <<remote, mirror, conv, op, budget, gone>>

-----------------------------------------------------------------------------
(* unshare.                                                                *)

\* One's own entries only.
Unshare(t, e) ==
    /\ pc[t] = "idle" /\ e \in Menu(Here(t)) /\ Owner[e] = Login[Here(t)]
    /\ Begin(t, "unshare", e, {}, "syncing")

\* Synced, the entry is dropped and the removal pushed, or there is none to push.
Remove(t) ==
    /\ pc[t] = "removing"
    /\ LET c == Here(t) e == op[t].entry
       IN  IF local[c].tree[e] = {}
           THEN /\ mirror' = [mirror EXCEPT ![c] = @ \ {e}]
                /\ Finish(t, "removed") /\ work' = Ended(work, t)
                /\ UNCHANGED <<local, crossed, marred>>
           ELSE /\ work' = [work EXCEPT ![t].lease = local[c].sha,
                                        ![t].tree = [local[c].tree EXCEPT ![e] = {}]]
                /\ local' = Without(c, e)
                /\ Crosses(c, Threads \ {t})
                /\ Goto(t, "pushing") /\ UNCHANGED <<mirror, answer>>
    /\ UNCHANGED <<remote, conv, digest, op, budget, gone>>

\* The process ends with operations in flight (their threads are daemons); what it
\* has pushed is remembered in memory only.
Die(c) ==
    LET dead == {t \in Threads : Home[t] = c /\ pc[t] # "idle"}
    IN  /\ dead # {} /\ Spend("events")
        /\ pc' = [t \in Threads |-> IF t \in dead THEN "idle" ELSE pc[t]]
        /\ answer' = [t \in Threads |-> IF t \in dead THEN "died" ELSE answer[t]]
        /\ digest' = [digest EXCEPT ![c] = Nothing]
        /\ marred' = IF \E t \in dead : Engaged(t) THEN marred \cup {c} ELSE marred
        /\ work' = [t \in Threads |-> IF t \in dead THEN NoWork ELSE work[t]]
        /\ UNCHANGED <<remote, local, mirror, conv, op, gone, crossed>>

Next ==
    \/ \E c \in Clones, e \in Entries : Say(c, e) \/ ResumeShared(c, e)
    \/ \E c \in Clones : ListShared(c) \/ Die(c)
    \/ \E t \in Threads, e \in Entries : Share(t, e) \/ AutoShare(t, e) \/ Unshare(t, e)
    \/ \E t \in Threads :
        \/ Overwrite(t) \/ Merge(t) \/ Write(t) \/ PushLands(t) \/ PushRejected(t)
        \/ PushFails(t) \/ Sync(t) \/ GiveUp(t) \/ Remove(t)

Spec == Init /\ [][Next]_vars

-----------------------------------------------------------------------------
Shas == {"none", "tip", "other"}
Trees == [Entries -> SUBSET Turns]
Ops == [kind : {"none", "share", "auto", "overwrite", "unshare"}, entry : Entries,
        sent : SUBSET Turns]
Works == [lease : Shas, tree : Trees, dropped : SUBSET Entries, try : 0..2,
          hollow : SUBSET Entries]

TypeOK ==
    /\ remote \in [born : BOOLEAN, tree : Trees]
    /\ local \in [Clones -> [sha : Shas, tree : Trees, hollow : SUBSET Entries]]
    /\ mirror \in [Clones -> SUBSET Entries]
    /\ conv \in [Clones -> Trees] /\ digest \in [Clones -> Trees]
    /\ pc \in [Threads -> {"idle", "merging", "writing", "pushing", "syncing", "removing", "failed"}]
    /\ op \in [Threads -> Ops] /\ work \in [Threads -> Works]
    /\ answer \in [Threads -> {"none", "pushed", "behind", "failed", "removed", "died"}]
    /\ budget \in [turns : 0..MaxTurns, ops : [Clones -> Nat], events : 0..MaxEvents]
    /\ gone \in Trees /\ crossed \subseteq Threads /\ marred \subseteq Clones

\* What the contributors are promised: parallel shares of a conversation combine, no
\* share takes another contributor's turns or entries off the remote, and a machine
\* that is behind does not rewind the shared copy - by a share that could read the
\* stored copy, in a clone where no other operation rewrote the local ref under it.
Busy == {t \in Threads : pc[t] # "idle"}
Asked == {op[t].entry : t \in {u \in Busy : op[u].kind = "overwrite"}}
Unread == {op[t].entry : t \in {u \in Busy : Blind(u)}}
Mixing == crossed \cap Busy # {}
Shelf == INSTANCE SharedShelf
            WITH shelf <- remote.tree, asked <- Asked, unread <- Unread, mixing <- Mixing
ImplementsShelf == Shelf!Spec

\* A share reported as pushed is on the remote with every turn it held, until an
\* unshare, an overwrite, a prune, a share that could not read it or a crossed one
\* takes it off: neither the lease nor a retry nor somebody's late push loses it.
\* Another thread that rewrites the local ref before the push may.
PushedStays ==
    \A t \in Threads \ crossed :
        (pc[t] = "idle" /\ answer[t] = "pushed" /\ op[t].kind # "unshare")
            => op[t].sent \subseteq remote.tree[op[t].entry] \cup gone[op[t].entry]

\* Once a clone's operations are over its local ref lists nothing that never was
\* on the remote: "a share that never reached origin doesn't masquerade as shared
\* in the menus".  A process that died could not roll back, and an operation that
\* another one crossed may not have, until the ref is the remote's again.
MenuHonest ==
    \A c \in Clones \ marred :
        (\A t \in Threads : Home[t] = c => pc[t] = "idle")
            => \A e \in Entries : local[c].tree[e] \subseteq remote.tree[e] \cup gone[e]

\* An auto-share takes for pushed only what reached the remote, so that a failed or
\* refused push is tried again with the next commit - unless its push was crossed.
AutoDigestPushed ==
    [][\A t \in Threads \ crossed :
        LET c == Home[t] e == op[t].entry
        IN  (op[t].kind = "auto" /\ pc[t] # "idle" /\ pc'[t] = "idle"
                /\ digest'[c][e] # digest[c][e])
            => digest'[c][e] \subseteq remote'.tree[e] \cup gone'[e]]_vars
=============================================================================
