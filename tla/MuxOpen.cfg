SPECIFICATION FairSpec
CONSTANTS
  Sids = {s1, s2}
  Chunks <- OneChunk
  OutCap = 1
  EvCap = 1
  Cap = 1
  Stalls = {}
  Slow = {}
  Faults = {"timeout", "refuse"}
CHECK_DEADLOCK FALSE
INVARIANTS RegistrySound
