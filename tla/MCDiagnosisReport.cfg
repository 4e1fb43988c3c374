SPECIFICATION ReportSpec
CONSTANTS
  Requests = {r1, r2, r3}
  Processes = {p1, p2}
  Contents = {c1}
  Faults = {}
  NoRequest = NoRequest
  NoContent = NoContent
SYMMETRY Symmetry
INVARIANTS
  TypeOK
  DecisionMatchesStatus
  CancelIsFinal
  VerdictIsShown
  ConclusionHasItsRun
PROPERTIES
  ImplementsCase
