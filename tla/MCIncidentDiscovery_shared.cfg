SPECIFICATION FairSpec
CONSTANTS
  c1 = c1 c2 = c2 r1 = r1 i1 = i1 i2 = i2 p1 = p1 p2 = p2
  Events = {e1, e2}
  Anonymous = {e2}
  Malformed = {}
  Unknown = {}
  Consumers = {c1, c2}
  Replays = {}
  Ingests = {i1}
  Processes = {p1, p2}
  Host <- TwoProcesses
  Faults = {"crash", "cancel", "database", "expiry"}
  MaxFaults = 1
  NoTask = NoTask
  NoEvent = NoEvent
INVARIANTS
  DiagnosesBounded
  AckedIsStored
PROPERTIES
  EveryMessageSettles
