------------------------------ MODULE BlockTree ------------------------------
(* The tree of valid Bitcoin blocks the indexer may ever hear about, as the  *)
(* code sees it: a block hash names a block, a header names its predecessor, *)
(* and bitcoin_api::get_block_hash names the block at a height of the chain  *)
(* that is best at the moment.  A hash and its block are one model value.    *)
(* Lineage[b] is the chain that ends in b.  It is a constant with a fixpoint *)
(* equation rather than a recursive operator, so that it can be reasoned     *)
(* about for every tree.                                                     *)
EXTENDS Integers

CONSTANTS
  Blocks,    \* the blocks of the tree
  NoBlock,   \* the absent block: None in the code, the predecessor of genesis
  Prev,      \* Prev[b]: Header::prev_blockhash
  Height,    \* Height[b]: the height of b
  Lineage    \* Lineage[b]: b and all its ancestors

ASSUME NoBlockAssumption == NoBlock \notin Blocks

\* Heights count the predecessors.
ASSUME TreeAssumption ==
  /\ Prev \in [Blocks -> Blocks \cup {NoBlock}]
  /\ Height \in [Blocks -> Nat]
  /\ \A b \in Blocks :
       Height[b] = IF Prev[b] = NoBlock THEN 0 ELSE Height[Prev[b]] + 1

\* There is one genesis block, as the network fixes it.
ASSUME GenesisAssumption ==
  \A a, b \in Blocks : Prev[a] = NoBlock /\ Prev[b] = NoBlock => a = b

\* A chain holds one block of every height up to its last block's.
ASSUME LineageAssumption ==
  /\ Lineage \in [Blocks -> SUBSET Blocks]
  /\ \A b \in Blocks :
       Lineage[b] = {b} \cup (IF Prev[b] = NoBlock THEN {} ELSE Lineage[Prev[b]])
  /\ \A b \in Blocks : \A a \in Lineage[b] :
       Height[a] <= Height[b] /\ Lineage[a] \subseteq Lineage[b]
  /\ \A b \in Blocks : \A h \in 0..Height[b] :
       \E a \in Lineage[b] : Height[a] = h
  /\ \A b \in Blocks : \A a, c \in Lineage[b] : Height[a] = Height[c] => a = c

\* The answer of the Bitcoin node to a height on the chain that ends in b.
AtHeight(b, h) == CHOOSE a \in Lineage[b] : Height[a] = h
=============================================================================
