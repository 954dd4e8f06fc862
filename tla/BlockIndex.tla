----------------------------- MODULE BlockIndex -----------------------------
(* What the indexer promises about the chain it has indexed, whatever its    *)
(* timers, awaits and staged blocks do: the indexed chain grows by one       *)
(* linked block at a time, and it shrinks only to an ancestor, by fewer      *)
(* blocks than the recoverable reorg depth.                                  *)
EXTENDS BlockTree

CONSTANT MaxDepth   \* reorg::get_max_recoverable_reorg_depth

VARIABLE tip        \* the last indexed block, NoBlock before the first

Init == tip = NoBlock

\* The next block is indexed.
Extend == /\ tip' \in Blocks
          /\ Prev[tip'] = tip

\* Reorged blocks are undone.
Rollback == /\ tip \in Blocks
            /\ tip' \in Lineage[tip]
            /\ Height[tip] - Height[tip'] < MaxDepth

Next == Extend \/ Rollback

Spec == Init /\ [][Next]_tip
=============================================================================
