SPECIFICATION CloseoutSpec
CONSTANTS
  s1 = s1
  s2 = s2
  s3 = s3
  d1 = d1
  d2 = d2
  HostSessions = {s1, s2, s3}
  Dirs = {d1, d2}
  DirOf <- MCDirOf
  Groups <- MCGroups
  Approvals = {approval}
  Plans = {}
  Memories = {record}
  MaxEvents = 2
  MaxKills = 1
INVARIANTS LetGoOnlyWithCause DirectoryToldTwice RecoveryNotLost
