SPECIFICATION Spec
CONSTANTS
  c1 = c1 c2 = c2 r1 = r1 i1 = i1 i2 = i2 p1 = p1 p2 = p2
  Events = {e1}
  Anonymous = {}
  Malformed = {}
  Unknown = {}
  Consumers = {c1}
  Replays = {}
  Ingests = {i1, i2}
  Processes = {p1}
  Host <- OneProcess
  Faults = {}
  MaxFaults = 0
  NoTask = NoTask
  NoEvent = NoEvent
INVARIANTS
  CountedOnce
