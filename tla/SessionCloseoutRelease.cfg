SPECIFICATION CloseoutSpec
CONSTANTS
  s1 = s1
  s2 = s2
  s3 = s3
  d1 = d1
  d2 = d2
  HostSessions = {s1, s2}
  Dirs = {d1}
  DirOf <- MCDefaultDir
  Groups <- MCAll
  Approvals = {approval}
  Plans = {}
  Memories = {record}
  MaxEvents = 1
  MaxKills = 1
PROPERTY NoEndlessBlock
