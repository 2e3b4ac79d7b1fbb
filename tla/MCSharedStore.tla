--------------------------- MODULE MCSharedStore ---------------------------
(***************************************************************************)
(* Two contributors with a clone each, over one conversation that combines *)
(* and one that does not; both belong to the first contributor, who keeps  *)
(* one shared entry at most and whose clone may have two operations going  *)
(* at once.                                                                *)
(***************************************************************************)
EXTENDS SharedStore, TLC

CONSTANTS ann, bob, left, right, far, claude, codex

MCClones == {ann, bob}
MCThreads == {left, right, far}
MCHome == [t \in MCThreads |-> IF t = far THEN bob ELSE ann]
MCLogin == [c \in MCClones |-> c]
MCEntries == {claude, codex}
MCOrigin == [e \in MCEntries |-> ann]
MCMergeable == {claude}
MCMaxOps == [c \in MCClones |-> IF c = ann THEN 2 ELSE 1]

\* The two threads of a clone do the same things.
MCSymmetry == Permutations({left, right})
=============================================================================
