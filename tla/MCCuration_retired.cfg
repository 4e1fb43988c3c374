SPECIFICATION SurroundingsSpec
CONSTANTS
  r1 = r1 r2 = r2 r3 = r3 r4 = r4
  null = null
  Requests = {r1, r2, r3}
  Labels <- Tags
  OwnEvidence = {1}
  Unlabelled = null
  MaxFaults = 1
  none = none blank = blank ownCode = ownCode ownLog = ownLog ownConfig = ownConfig
  ownHealth = ownHealth code = code log = log config = config health = health
  d1 = d1 d2 = d2
  Cases = {d1, d2}
  Services = {v1, v2}
  Stores = {ownCode, ownLog, ownConfig, ownHealth, code, log, config, health}
  KnowledgeBase = KnowledgeBase
  NoStore = none
  Blank = blank
  NoService = NoService
  NoName = NoName
  Settings <- SomeSettings
  Profiles <- SomeProfiles
  Texts <- SomeTexts
  Sizes = {1}
  Budget = 1
  MaxItems = 2
  MaxCalls = 1
  k1 = k1 k2 = k2
  noCall = noCall early = early newly = newly
  CallIds = {k1, k2}
  BlankId = blank
  NoId = noCall
  Batches <- SomeBatches
  Earlier = {early}
  Drafted = {newly}
  Elsewhere = {newly}
  MaxTurns = 3
PROPERTIES RetiredIsFinal
