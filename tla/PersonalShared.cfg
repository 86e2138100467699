SPECIFICATION FairSpec
CONSTANTS
  ana = ana
  ben = ben
  eva = eva
  Nobody = nobody
  Words <- MCWords
  Instances = {ana, ben}
  WordLists <- MCWordList
  Calls <- MCAllCalls
  CrashProne = {ana}
  Faults = {"load", "mkstemp", "write"}
INVARIANTS
  TypeOK
  LocksTellHolders
PROPERTIES
  MutationsAreAtomic
  CallsEnd
