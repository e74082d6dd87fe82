SPECIFICATION Spec
CONSTANTS
  Slash = 47
  Plus = 43
  Hash = 35
  Inputs <- BranchInputs
  LevelName <- Names
  Rank <- LevelRank
  Forwards <- BridgeForwards
  Properties <- Memory
  Garbage <- Beyond
  NoCtxt <- Null
  NoPacket = NoPacket
INVARIANT RetainFoundAll
CHECK_DEADLOCK FALSE
