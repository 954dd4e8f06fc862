------------------------------ MODULE MCUpdater ------------------------------
(* Trees of blocks on which TLC checks Updater.                              *)
EXTENDS Updater

\* A chain a, a branch b that a rollback of one block reaches, and a branch c
\* that forks at genesis: within MaxDepth of a2, out of reach from a3.
DeepPrev == [g |-> "none", a1 |-> "g", a2 |-> "a1", a3 |-> "a2",
             b3 |-> "a2", b4 |-> "b3",
             c1 |-> "g", c2 |-> "c1", c3 |-> "c2", c4 |-> "c3"]

\* A chain and one branch of two blocks.
ForkPrev == [g |-> "none", a1 |-> "g", a2 |-> "a1", b2 |-> "a1", b3 |-> "b2"]

\* Two blocks, for two loops.
PairPrev == [g |-> "none", a1 |-> "g"]

HeightIn(prev) ==
  LET height[b \in DOMAIN prev] == IF prev[b] = "none" THEN 0 ELSE height[prev[b]] + 1
  IN height

LineageIn(prev) ==
  LET lineage[b \in DOMAIN prev] ==
        {b} \cup (IF prev[b] = "none" THEN {} ELSE lineage[prev[b]])
  IN lineage

DeepBlocks == DOMAIN DeepPrev
DeepHeight == HeightIn(DeepPrev)
DeepLineage == LineageIn(DeepPrev)
DeepBare == {"g", "a2", "b3", "c1"}

ForkBlocks == DOMAIN ForkPrev
ForkHeight == HeightIn(ForkPrev)
ForkLineage == LineageIn(ForkPrev)
ForkBare == {"g"}

PairBlocks == DOMAIN PairPrev
PairHeight == HeightIn(PairPrev)
PairLineage == LineageIn(PairPrev)
PairBare == {"g"}
=============================================================================
