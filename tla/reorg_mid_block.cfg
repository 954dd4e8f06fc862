SPECIFICATION Spec
CONSTANTS
  Blocks <- ForkBlocks
  NoBlock = "none"
  Prev <- ForkPrev
  Height <- ForkHeight
  Lineage <- ForkLineage
  Bare <- ForkBare
  MaxDepth = 2
  Units = 2
  Loops = {l1}
  ReorgAnytime = TRUE
  UpgradeAnytime = FALSE
  Traps = FALSE
  RpcFailures = FALSE
INVARIANTS
  IndexMatchesChain
