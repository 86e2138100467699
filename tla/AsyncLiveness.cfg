SPECIFICATION FairSpec
CONSTANTS
  en = en
  es = es
  d1 = d1
  none = none
  Words <- MCThreeWords
  Languages <- MCLanguage
  Documents = {d1}
  NoDocument = none
  Blocks = {1, 2}
  BlockTexts <- MCSingles
  Engine <- MCEngineOfThree
  Learnable = {2}
  Ignorable = {1}
  CacheSize = 2
  JobIds = {1}
  NoJob = none
  Strict = TRUE
  HostCalls = FALSE
  OffScreenChanges = FALSE
INVARIANTS
  NoFalseUnderline
  CacheIsLru
PROPERTIES
  Settles
  BusyEnds
  NoWordDropped
