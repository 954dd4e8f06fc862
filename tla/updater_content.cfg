SPECIFICATION FairSpec
CONSTANTS
  Blocks <- DeepBlocks
  NoBlock = "none"
  Prev <- DeepPrev
  Height <- DeepHeight
  Lineage <- DeepLineage
  Bare <- DeepBare
  MaxDepth = 3
  Units = 3
  Loops = {l1}
  ReorgAnytime = FALSE
  UpgradeAnytime = FALSE
  Traps = TRUE
  RpcFailures = TRUE
INVARIANTS
  IndexMatchesChain
  RecordsUndo
  CursorAgrees
PROPERTIES
  StageFinishesBlock
  CatchUp
