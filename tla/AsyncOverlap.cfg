SPECIFICATION Spec
CONSTANTS
  en = en
  es = es
  d1 = d1
  none = none
  Words <- MCWords
  Languages <- MCLanguages
  Documents = {d1}
  NoDocument = none
  Blocks = {1}
  BlockTexts <- MCTexts
  Engine <- MCEngine
  Learnable = {2}
  Ignorable = {}
  CacheSize = 2
  JobIds = {1, 2}
  NoJob = none
  Strict = FALSE
  HostCalls = TRUE
  OffScreenChanges = FALSE
INVARIANTS
  TypeOK
  NoFalseUnderline
  StatusesTrue
  CurrentBatchIsAwaited
  BusyHasBatch
PROPERTIES
  PendingStaysScheduled
