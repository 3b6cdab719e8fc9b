SPECIFICATION FairSpec
CONSTANTS
  Sids = {s1}
  Chunks <- OneChunk
  OutCap = 1
  EvCap = 1
  Cap = 1
  Stalls = {}
  Slow = {}
  Faults = {"carrier"}
CHECK_DEADLOCK FALSE
PROPERTY DeathEndsServerStreams
