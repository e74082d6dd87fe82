SPECIFICATION Spec
CONSTANTS
  Slash = 47
  Plus = 43
  Hash = 35
  Inputs <- AllInputs
  LevelName <- Names
  Rank <- LevelRank
  Forwards <- BridgeForwards
  Properties <- Memory
  Garbage <- Beyond
  NoCtxt <- Null
  NoPacket = NoPacket
INVARIANTS PublishSame AnswerFits NumbersBack RetainFound RetainPruned Forwarded
PROPERTY RetainIsMap
CHECK_DEADLOCK FALSE
