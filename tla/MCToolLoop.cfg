SPECIFICATION FairSpec
CONSTANTS
  user = user
  log = log
  code = code
  searchLog = searchLog
  readFile = readFile
  unknown = unknown
  k1 = k1
  k2 = k2
  Items = {user, log, code}
  TypeOf <- Types
  MaxRounds = 4
  MaxToolCalls = 3
  Signatures = {searchLog, readFile, unknown}
  Resolvable = {searchLog, readFile}
  CodeReads = {readFile}
  Yields <- Drafts
  CallIds = {k1, k2}
  Batches <- Calls
  Conclusions <- Answers
  Unparsed = Unparsed
  NoConclusion = NoConclusion
  Known = {user}
  Foreign = {code}
  MaxFaults = 2
  Invalid = Invalid
  Missing = Missing
  Unset = Unset
INVARIANTS TypeOK BudgetsRespected FailedCallNotRepeated ConclusionIsSupported
  RunIsTraced CompletedRunScoresClean
PROPERTIES ImplementsAgentRun RunEnds
