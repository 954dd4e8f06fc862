SPECIFICATION Spec
CONSTANTS
  Blocks <- ForkBlocks
  NoBlock = "none"
  Prev <- ForkPrev
  Height <- ForkHeight
  Lineage <- ForkLineage
  Bare <- ForkBare
  MaxDepth = 2
  Units = 1
  Loops = {l1, l2}
  ReorgAnytime = FALSE
  UpgradeAnytime = FALSE
  Traps = FALSE
  RpcFailures = FALSE
INVARIANTS
  StagedBlockPresent
