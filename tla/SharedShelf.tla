---------------------------- MODULE SharedShelf ----------------------------
(***************************************************************************)
(* What sharing promises its contributors: the shelf on the remote holds   *)
(* one copy of each shared conversation.  A share adds turns and drops     *)
(* none - or, when copies of the conversation cannot be combined, puts one *)
(* at least as long in its place; a shorter copy takes its place only when *)
(* somebody has asked for that, and only an owner's own entries leave.     *)
(***************************************************************************)
EXTENDS Naturals, FiniteSets

CONSTANTS Entries, Turns, Logins, Owner, Mergeable

VARIABLES
    shelf,  \* [Entries -> SUBSET Turns], {} when not shared
    asked,  \* the entries somebody has asked to overwrite
    unread, \* the entries somebody shares without having read the stored copy
    mixing  \* whether operations of one machine have crossed

vars == <<shelf, asked, unread, mixing>>

Init ==
    /\ shelf \in [Entries -> SUBSET Turns]
    /\ asked = {} /\ unread = {} /\ mixing = FALSE

OwnedBy(who) == {e \in Entries : Owner[e] = who}

\* The entry gets a copy; older entries of the one who shares make room.
Put(e, copy, dropped) ==
    shelf' = [x \in Entries |-> IF x = e THEN copy
                                ELSE IF x \in dropped THEN {} ELSE shelf[x]]

Longer(e, copy) ==
    IF e \in Mergeable THEN shelf[e] \subseteq copy
    ELSE Cardinality(copy) >= Cardinality(shelf[e])

Share(who, e) ==
    \E copy \in SUBSET Turns, dropped \in SUBSET OwnedBy(who) :
        /\ Longer(e, copy) \/ e \in asked \ Mergeable \/ e \in unread
        /\ Put(e, copy, dropped)

Unshare(who, e) == Owner[e] = who /\ Put(e, {}, {})

Mix == mixing /\ shelf' \in [Entries -> SUBSET Turns]

Ask == UNCHANGED shelf

Next ==
    /\ asked' \in SUBSET Entries /\ unread' \in SUBSET Entries /\ mixing' \in BOOLEAN
    /\ \/ Ask \/ Mix
       \/ \E who \in Logins, e \in Entries : Share(who, e) \/ Unshare(who, e)

Spec == Init /\ [][Next]_vars
=============================================================================
