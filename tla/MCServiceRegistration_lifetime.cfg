SPECIFICATION FairRegSpec
CONSTANT MaxFaults = 4
INVARIANTS
  GoneOnceDeregistered
  EpisodesAddUp
PROPERTIES
  StaysDiscoverable
  ShutdownEnds
CHECK_DEADLOCK FALSE
