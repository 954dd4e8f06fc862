SPECIFICATION FormatsSpec
CONSTANTS
  Transactions <- MCTransactions
  Drafts <- MCDrafts
  Base = 256
  TxidLen = 1
  IndexLen = 2
  PointerLen = 2
  MaxElement = 2
  None = None
  Subsidies <- MCSubsidies
  Payments <- MCPayments
  MaxIns = 2
  MaxTxs = 4
  Numbers = {9}
  ByteBits = 2
  BaseBits = 3
  RangeLen = 3
  NumberLen = 2
INVARIANTS
  TypeOK
  FindsTheEnvelopes
  StutterDoesNotSpread
  ReadsWhatWasWritten
  EvenFieldsUnbind
  ValuesHaveOneMeaning
  EntryTypeOK
  RareSatsFound
  OffsetsMeanSats
PROPERTIES
  FlowsLikeSats
CHECK_DEADLOCK FALSE
