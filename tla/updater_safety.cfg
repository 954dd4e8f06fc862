SPECIFICATION FairSpec
CONSTANTS
  Blocks <- DeepBlocks
  NoBlock = "none"
  Prev <- DeepPrev
  Height <- DeepHeight
  Lineage <- DeepLineage
  Bare <- DeepBare
  MaxDepth = 3
  Units = 1
  Loops = {l1}
  ReorgAnytime = TRUE
  UpgradeAnytime = TRUE
  Traps = TRUE
  RpcFailures = TRUE
INVARIANTS
  TypeOK
  HeadersLinked
  StagedBlockPresent
  RoundsAgree
PROPERTIES
  IndexedChain
  CatchUp
