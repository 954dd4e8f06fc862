SPECIFICATION Spec
CONSTANTS
  Blocks <- ForkBlocks
  NoBlock = "none"
  Prev <- ForkPrev
  Height <- ForkHeight
  Lineage <- ForkLineage
  Bare <- ForkBare
  MaxDepth = 2
  Units = 2
  Loops = {l1}
  ReorgAnytime = FALSE
  UpgradeAnytime = TRUE
  Traps = FALSE
  RpcFailures = FALSE
PROPERTIES
  InputsFound
