SPECIFICATION Spec
CONSTANTS
  Blocks <- MCBlocks
  NoBlock = "none"
  Prev <- MCPrev
  Height <- MCHeight
  Lineage <- MCLineage
  Content <- MCContent
  Subsidy = 3
  Jubilee = 2
  MaxUndo = 2
  MaxReorgs = 2
  None = None
CHECK_DEADLOCK FALSE
INVARIANTS
  TypeOK
  SatsConserved
  InscriptionsOnTheirSat
  EachOnce
  QueriesAnswerable
  NumbersDense
  SecondaryIndexesAgree
  PointsTrue
  NumberedAsTheyLand
  CursesFollowTheSat
PROPERTY
  UndoRestores
