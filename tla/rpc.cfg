SPECIFICATION FairSpec
CONSTANTS
  Servers <- MCServers
  Total <- MCTotal
  Newline <- MCNewline
  First = 3
  Chunk = 3
  Slack = 2
  MaxRetries = 3
  Hashes = {h1, h2}
  NoHash = NoHash
INVARIANTS
  TypeOK
  BufferIsPrefix
  LosesOneByteAtMost
PROPERTIES
  OneCall
  CallEnds
