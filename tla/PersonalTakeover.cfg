SPECIFICATION Spec
CONSTANTS
  ana = ana
  ben = ben
  eva = eva
  Nobody = nobody
  Words <- MCWords
  Instances = {ana, ben, eva}
  WordLists <- MCWordLists
  Calls = {"add"}
  CrashProne = {ana}
  Faults = {}
PROPERTY
  MutationsAreAtomic
