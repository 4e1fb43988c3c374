SPECIFICATION WindowsSpec
CONSTANTS
  shop = shop bank = bank timeout = timeout refused = refused pay = pay send = send
  Window = 2
  Day = 4
  MaxBusinessFrames = 2
  Emitted <- SomeEvents
  MaxArrivals = 4
INVARIANTS
  SummaryCountsUtcDay
