SPECIFICATION FairSpec
CONSTANTS
  Requests = {r1, r2, r3}
  Processes = {p1}
  Contents = {c1}
  Faults = {}
  NoRequest = NoRequest
  NoContent = NoContent
PROPERTIES
  EveryRequestEnds
  CancelStopsInvestigation
