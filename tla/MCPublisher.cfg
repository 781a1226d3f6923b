CONSTANTS
  g1 = g1
  g2 = g2
  Producers <- TwoProducers
  TopicOf <- ThreeTopics
  MaxPoints = 4
  BufferSize = 2
  Breaks = 1
  MaxTopics = 2
  EvictCount = 1
SPECIFICATION Spec
INVARIANTS
  BufferSafe
  HandedOverOnce
PROPERTIES
  BufferedPointsSettle
  DisconnectEnds
