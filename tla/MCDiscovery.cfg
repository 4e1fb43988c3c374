SPECIFICATION DiscoverySpec
CONSTANTS
  c1 = c1 c2 = c2 r1 = r1 i1 = i1 i2 = i2 p1 = p1 p2 = p2
  Events = {e1, e2, e3, e4}
  Anonymous = {}
  Malformed = {e3}
  Unknown = {e4}
  Consumers = {c1}
  Replays = {r1}
  Ingests = {}
  Processes = {p1}
  Host <- OneProcess
  Faults = {"crash", "cancel", "database"}
  MaxFaults = 2
  NoTask = NoTask
  NoEvent = NoEvent
  shop = shop bank = bank timeout = timeout refused = refused pay = pay send = send
  Lines <- SomeLines
  OldTails <- SomeTails
  MaxExcerptLines = 2
  Ranges <- SomeRanges
  Limits = {1, 2}
  MaxLines = 5
  Window = 2
  Day = 4
  MaxBusinessFrames = 2
  Emitted <- SomeEvents
  MaxArrivals = 4
  MaxContent = 3
  MaxTyped = 5
  s1 = s1 s2 = s2 s3 = s3
  Ids = {1, 2, 3}
  Searches = {s1, s2, s3}
  Servers = {p1, p2}
  ServerOf <- TwoServers
  Directories <- SomeDirectories
  Words <- SomeWords
  Queries = {{1, 2}}
  ResultLimits = {1, 2}
  MaxEntries = 3
  MaxMishaps = 1
  q1 = q1 q2 = q2
  NoSuchFile = NoSuchFile
  Readers = {q1, q2}
  Uses <- OneFallback
  Paths = {1, 2, 3, 4}
  Outside = 0
  LocalPaths = {1, 2, 4}
  SnapshotPaths = {1, 3}
  NoFile = NoSuchFile
  Deployed <- DeployedFiles
  Checkout <- WorkingTree
  MaxFiles = 3
  MaxReadLines = 2
  Contents <- SomeContents
  MatchLimits = {1, 2}
  CodeRanges <- SomeCodeRanges
  MaxEdits = 1
INVARIANTS
  CountedOnce
  RanIsLinked
  ExcerptsAreEvents
  StoredIsClean
  LogIsStoredWhole
  IncidentsPartitionEvents
  SummaryCountsTheDay
  SearchesSeeSeeds
  CodeIsOfItsRevision
PROPERTIES
  LinkIsFinal
  SeedsReviveNothing
