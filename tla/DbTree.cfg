SPECIFICATION Spec
CONSTANTS
  Pipes = {1, 2, 3}
  FiltersOf <- Flat
  Owner <- TwoClients
  Topics <- FlatTopics
  Rank <- LevelRank
  NoCtxt = NoCtxt
INVARIANTS WellFormed NoDeadBranch FindExact SharedExact
PROPERTY ImplementsTopicDb
