SPECIFICATION Spec
CONSTANTS
  ana = ana
  ben = ben
  eva = eva
  Nobody = nobody
  Words <- MCWords
  Instances = {ana, ben}
  WordLists <- MCWordList
  Calls = {"add", "reload"}
  CrashProne = {}
  Faults = {}
INVARIANT
  SnapshotsFollowDisk
