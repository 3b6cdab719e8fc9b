SPECIFICATION BusySpec
CONSTANTS
  Sids = {s1, s2}
  Chunks <- OneWedged
  OutCap = 1
  EvCap = 1
  Cap = 2
  Stalls = {s2}
  Slow = {s2}
  Faults = {}
CHECK_DEADLOCK FALSE
PROPERTIES Completion
