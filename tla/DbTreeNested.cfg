SPECIFICATION Spec
CONSTANTS
  Pipes = {1, 2, 3}
  FiltersOf <- Nested
  Owner <- TwoClients
  Topics <- FlatTopics
  Rank <- LevelRank
  NoCtxt = NoCtxt
INVARIANT OnNodeOfTopic
