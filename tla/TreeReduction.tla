---------------------------- MODULE TreeReduction ----------------------------
(***************************************************************************)
(* What SP1Prover::compress promises: the proofs of the leaves 1..leaves   *)
(* are merged, neighbours with neighbours, until one tree is left.  A tree *)
(* [lo, hi] covers the leaves lo..hi.  The forest is a bag: losing a proof *)
(* or using one twice is not a step.                                       *)
(***************************************************************************)
EXTENDS Naturals, FiniteSets, Bags

CONSTANT MaxArity       \* trees merged by one proof

VARIABLES
    leaves,     \* how many leaves there are
    trees       \* the proofs there are: a bag of intervals of leaves

\* The trees of the set lie in a..b and cover each of its leaves once.
Tile(set, a, b) ==
    /\ \A t \in set : a <= t.lo /\ t.lo <= t.hi /\ t.hi <= b
    /\ \A leaf \in a..b : Cardinality({t \in set : t.lo <= leaf /\ leaf <= t.hi}) = 1

Init ==
    /\ leaves \in Nat \ {0}
    /\ trees = SetToBag(BagToSet(trees))
    /\ Tile(BagToSet(trees), 1, leaves)

\* The trees that `new' covers, neighbours without a gap, become one.
Merge(new) ==
    LET merged == {t \in BagToSet(trees) : new.lo <= t.lo /\ t.hi <= new.hi}
    IN  /\ Cardinality(merged) \in 2..MaxArity
        /\ Tile(merged, new.lo, new.hi)
        /\ trees' = (trees (-) SetToBag(merged)) (+) SetToBag({new})
        /\ UNCHANGED leaves

Next == \E new \in BagToSet(trees') \ BagToSet(trees) : Merge(new)

Spec == Init /\ [][Next]_<<leaves, trees>>
=============================================================================
