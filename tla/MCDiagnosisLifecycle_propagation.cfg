SPECIFICATION Spec
CONSTANTS
  Requests = {r1, r2}
  Processes = {p1}
  Contents = {c1}
  Faults = {}
  NoRequest = NoRequest
  NoContent = NoContent
SYMMETRY Symmetry
INVARIANTS
  CancellationPropagates
