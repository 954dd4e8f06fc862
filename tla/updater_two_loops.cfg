SPECIFICATION FairSpec
CONSTANTS
  Blocks <- PairBlocks
  NoBlock = "none"
  Prev <- PairPrev
  Height <- PairHeight
  Lineage <- PairLineage
  Bare <- PairBare
  MaxDepth = 2
  Units = 1
  Loops = {l1, l2}
  ReorgAnytime = TRUE
  UpgradeAnytime = FALSE
  Traps = FALSE
  RpcFailures = TRUE
PROPERTIES
  ShutdownCompletes
