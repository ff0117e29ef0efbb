SPECIFICATION ProfileSpec
CONSTANTS
  p1 = p1
  p2 = p2
  p3 = p3
  a1 = a1
  a2 = a2
  k1 = k1
  k2 = k2
  x1 = x1
  d1 = d1
  d2 = d2
  m1 = m1
  m2 = m2
  n1 = n1
  c1 = c1
  c2 = c2
  w1 = w1
  w2 = w2
  f1 = f1
  f2 = f2
  Plans = {p1, p2, p3}
  ApprovalIds = {a1, a2}
  IdOf <- MCIdOf
  Teachers <- Pair
  Agent = agent
  NoPlan = NoPlan
  Nobody = Nobody
  Procs <- Pair
  MaxKills = 1
  Tools = {tool}
  Proposals = {v1, v2, v0}
  Complete = {v1, v2}
  NoProposal = NoProposal
  MemoryKeys = {k1, k2}
  Texts = {x1, x2}
  Changes = {d1, d2}
  ObligationsOf <- MCObligationsOf
  NoEntry = NoEntry
  Goals = {g1}
  GoalDefault = g1
  Evidence = {e1, e2}
  Marked = {e1}
  MaxTraces = 2
  Surfaces = {s1, s2}
  MaxLines = 3
  MaxUses = 2
  Messages = {m1, m2}
  ChunksOf <- MCChunksOf
  MaxParts = 2
  Checkpoints = {j1, j2}
  MaxSends = 4
  Chats = {c1, c2}
  Contacts = {n1}
  ChatsNamed <- MCChatsNamed
  MaxMessages = 2
  Ceilings = {0, 1, 2}
  MaxWords = 2
  Spans = {1, 2}
  DefaultSpan = 2
  MaxSets = 3
  Students = {st}
  Results = {f1, f2}
  RecordsOf <- MCRecordsOf
  FirstEntries = {w1}
  MaxSessions = 3
  Steps <- MCSteps
  MaxSteps = 3
  Lengths = {0, 1, 2}
  ShippedTemplate <- MCShippedTemplate
  ShippedPacks <- MCShippedPacks
  ProfilePacks <- MCProfilePacks
  Tokens = {"x", "y"}
  IndexBudget = 6
  SectionBudget = 10
  CatalogBudget = 3
  Clients = {cl1}
  Embedded = cl0
  cl0 = cl0
  cl1 = cl1
  Grants <- MCGrants
  Followed <- MCFollowed
  MaxAccess = 3
  sx = sx
  wa = wa
  wb = wb
  wc = wc
  n2 = n2
  n3 = n3
  i1 = i1
  i2 = i2
  Vocabulary = {wa, wb, wc, sx}
  Secrets = {sx}
  Said <- MCSaid
  EntryLists <- MCEntryLists
  MaxChars = 3
  RosterStudents <- Pair
  Dates = {2}
  Kinds = {"main", "other"}
  Stubbed = {"main"}
  Periods <- MCPeriods
  Declared = {"sessions", "tests"}
  MaxRows = 2
  MaxEdits = 3
  Requests <- MCRequests
  Relative = {"relative"}
  Folders = {"here", "there"}
  LineSize <- MCLineSize
  MaxLog = 4
  MaxRuns = 3
  NoSubject = "none"
  LabelOf <- MCLabelOf
  Lessons <- MCLessons
  Timetables <- MCTimetables
  Weekdays = 2
  LastDay = 5
  Horizon = 6
  MaxLessons = 3
  MaxCancelled = 1
SYMMETRY Symmetry
INVARIANTS
  OnlyAsGranted UsableWasReviewed NothingLostQuietly
  PassCoversTheEvidence GateIsMonotone HookLedgersHold SpentMeansDelivered
  HistoryIsBacked CompletedIsInTheClass TotalsExplained EveryReferenceIsReplaced
  RulesSurviveTheBudget TokenIsOneGrant RevealedIsWhatWasSaid GapsCanBeFilled
  ScheduledIsApproved HomeworkComesDue
PROPERTY TerminalIsFinal
