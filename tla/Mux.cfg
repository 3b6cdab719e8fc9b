SPECIFICATION FairSpec
CONSTANTS
  Sids = {s1}
  Chunks <- TwoChunks
  OutCap = 2
  EvCap = 1
  Cap = 1
  Stalls = {s1}
  Slow = {}
  Faults = {"reset", "timeout", "carrier"}
CHECK_DEADLOCK FALSE
INVARIANTS TypeOK GracefulIsFinal
PROPERTIES ReliableStreams EndReachesPeer DeathReleases
