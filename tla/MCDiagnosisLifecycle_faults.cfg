SPECIFICATION Spec
CONSTANTS
  Requests = {r1, r2, r3}
  Processes = {p1}
  Contents = {c1}
  Faults = {"crash", "interrupt", "database"}
  NoRequest = NoRequest
  NoContent = NoContent
SYMMETRY Symmetry
INVARIANTS
  RegistryExact
  ReviewedConclusionIsRecorded
  AnsweredRunIsApplied
