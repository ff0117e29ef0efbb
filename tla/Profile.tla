------------------------------ MODULE Profile -------------------------------
(***************************************************************************)
(* The parts of a profile side by side: the approval ledger and the other  *)
(* small ledgers and side effects, each a module of its own.  They share   *)
(* no state: every command works on the files of its own part, and what    *)
(* it takes from another (an approval) is modelled in ApprovalStore and    *)
(* OutwardSend.  Interleaving them would therefore only multiply their     *)
(* states; here a behaviour exercises one part while the others rest, and  *)
(* the choice of the part is part of the initial state.                    *)
(***************************************************************************)
EXTENDS ApprovalLedger, Naturals, Sequences, FiniteSets

CONSTANTS
  Procs,                                               \* command processes
  MaxKills,                                            \* bound on kills
  Tools, Proposals, Complete, NoProposal,              \* ToolRegistry
  MemoryKeys, Texts, Changes, ObligationsOf, NoEntry,  \* ProfileMemory
  Goals, GoalDefault, Evidence, Marked,                \* GoalLedger
  MaxTraces,                                           \* ToolGate
  Surfaces, MaxLines, MaxUses,                         \* HookLedgers
  Messages, ChunksOf, MaxParts, Checkpoints, MaxSends, \* FriendSend
  Chats, Contacts, ChatsNamed, MaxMessages, Ceilings,  \* ChatHistory
  MaxWords, Spans, DefaultSpan, MaxSets,               \* ClassCardUpload
  Students, Results, RecordsOf, FirstEntries, MaxSessions, \* StudyResults
  Steps, MaxSteps, Lengths, ShippedTemplate,           \* WriteTemplates
  ShippedPacks, ProfilePacks, Tokens,                  \* RoutePacks
  IndexBudget, SectionBudget, CatalogBudget,
  Clients, Embedded, Grants, Followed, MaxAccess,      \* Workspace
  Vocabulary, Secrets, Said, EntryLists, MaxChars, \* Privacy
  RosterStudents, Dates, Kinds, Stubbed, Periods, Declared, \* ClassRoster
  MaxRows, MaxEdits,
  Requests, Relative, Folders, LineSize, MaxLog, MaxRuns, \* Schedule
  NoSubject, LabelOf, Lessons, Timetables, Weekdays, LastDay, \* LessonJournal
  Horizon, MaxLessons, MaxCancelled

ASSUME ProcsAssumption == IsFiniteSet(Procs)
ASSUME RosterAssumption == IsFiniteSet(RosterStudents)
\* The anomaly log has room for a line of every hook that runs or dies at once.
ASSUME HooksAssumption ==
  MaxLines \in Nat /\ MaxKills \in Nat /\ MaxKills + Cardinality(Procs) <= MaxLines
ASSUME ScheduleAssumption ==
  MaxLog \in Nat /\ MaxRuns \in Nat /\ LineSize \in [1..MaxRuns -> Nat \ {0}]
ASSUME JournalAssumption ==  \* the lookups go 120 days ahead
  Weekdays \in Nat \ {0} /\ LastDay \in Nat /\ Horizon \in Nat /\ Weekdays <= Horizon
\* The records of a result file; a negative count counts as none.
ASSUME StudyAssumption ==
  \A f \in Results :
    /\ IsFiniteSet(DOMAIN RecordsOf[f])
    /\ \A i \in DOMAIN RecordsOf[f] :
         RecordsOf[f][i].correct \subseteq Nat /\ RecordsOf[f][i].wrong \subseteq Nat
ASSUME CardAssumption == Spans \subseteq Nat /\ DefaultSpan \in Nat
\* What _parse_step and _param_schema accept.
ASSUME TemplateAssumption ==
  LET binds == Seq({"value", "each", "ref"})
      kinds == {"resolve", "insert", "ensure", "update_stub"}
      accepted == [op : kinds, set : binds, match : binds, captures : BOOLEAN,
                   listed : BOOLEAN, key : {"none", "sound", "unindexed"}] IN
  /\ Lengths \subseteq Nat /\ Steps \subseteq accepted
  /\ ShippedTemplate.steps \in Seq(accepted)
  /\ ShippedTemplate.default \in [kind : {"list"}, length : Lengths]
                                   \cup {[kind |-> "absent", length |-> 0]}
\* Every chat is shown under a name, and every name shows a chat.
ASSUME ChatAssumption ==
  /\ ChatsNamed \in [Contacts -> Seq(Chats) \ {<<>>}]
  /\ \A chat \in Chats : \E n \in Contacts : \E i \in DOMAIN ChatsNamed[n] : ChatsNamed[n][i] = chat
  /\ Ceilings \subseteq Nat

\* What is registered are names people use.  One match restores to one text,
\* to the very name or, a pattern, to none that is said.
ASSUME PrivacyAssumption ==
  LET registered == UNION {{list[n] : n \in DOMAIN list} : list \in EntryLists} IN
  /\ MaxChars \in Nat \ {0} /\ Secrets \subseteq Vocabulary /\ <<"hidden">> \notin Vocabulary
  /\ Said \subseteq Seq(Vocabulary) /\ EntryLists \subseteq Seq(registered)
  /\ \A e \in registered :
       /\ e.mode \in {"reversible", "oneway"} /\ e.names \subseteq Vocabulary \X Vocabulary
       /\ <<e.match, 1>> \notin Vocabulary /\ <<e.match, 2>> \notin Vocabulary
       /\ e.mode = "reversible" =>
            \/ e.names = {<<e.shown[1], e.shown[2]>>}
            \/ e.shown[1] \notin Vocabulary /\ e.shown[2] \notin Vocabulary
       /\ \A f \in registered : e.match = f.match => e.shown = f.shown

\* The ids of a directory's packs are told apart by their order.
ASSUME RoutesAssumption ==
  /\ IsFiniteSet(ShippedPacks) /\ {IndexBudget, SectionBudget, CatalogBudget} \subseteq Nat
  /\ \A p \in ShippedPacks \cup ProfilePacks : p.id \in Nat /\ p.size \in Nat /\ p.rules \in BOOLEAN
  /\ \A p \in ShippedPacks : p.source = "repo" /\ \A q \in ShippedPacks : p.id = q.id => p = q
  /\ \A p \in ProfilePacks : p.source = "profile"

VARIABLES
  part,
  toolRecords, toolLegacy, toolProc, toolReview,
  memory, memoryArchive, memoryCompact, memoryDraft, memoryMoving, memoryOwed, memoryKills,
  goals, goalFiles, goalProc, goalPassed,
  gateApproved, gateCall, gateTraces,
  hookConsent, hookLines, hookCounts, hookUses, hookProc, hookKills, hookUnrotated,
  sendApproved, sendCheckpoint, sendUnits, sendRun, sendArrived, sendCredit, sends,
  chatServer, chatStore, chatMedia, chatSpoilt, chatUsage, chatApproved, chatProc,
  cardWords, cardManifest, cardCheckpoint, cardRow, cardSets, cardCmd, cardBasis,
  studyEntries, studySessions, studyItems, studyState, studyLock, studyProc,
  templateCustom, templateRun,
  packCustom, packRoute,
  gwsToken, gwsTmp, gwsHome, gwsIssued, gwsExpired, gwsFolders, gwsProc,
  privacyEntries, privacyReverse, privacyContent, privacyMeta, privacyOverlap, privacyProc,
  rosterEnrollments, rosterInactive, rosterSessions, rosterRecords, rosterDoubled,
  rosterIndexes, rosterGaps, rosterDisturbed, rosterLate, rosterEdits,
  jobStatus, jobGranted, jobs, jobLog, jobCount, jobQuiet, jobProc,
  timetable, cancelled, lessons

Registry == INSTANCE ToolRegistry WITH
  records <- toolRecords, legacy <- toolLegacy, proc <- toolProc, review <- toolReview
Memory == INSTANCE ProfileMemory WITH
  archive <- memoryArchive, compact <- memoryCompact, draft <- memoryDraft,
  moving <- memoryMoving, owed <- memoryOwed, kills <- memoryKills
Goal == INSTANCE GoalLedger WITH files <- goalFiles, proc <- goalProc, passed <- goalPassed
Gate == INSTANCE ToolGate WITH
  approved <- gateApproved, call <- gateCall, traces <- gateTraces
Hooks == INSTANCE HookLedgers WITH
  consent <- hookConsent, lines <- hookLines, counts <- hookCounts, uses <- hookUses,
  proc <- hookProc, kills <- hookKills, unrotated <- hookUnrotated
Friends == INSTANCE FriendSend WITH
  Files <- Checkpoints, approved <- sendApproved, checkpoint <- sendCheckpoint,
  units <- sendUnits, run <- sendRun, arrived <- sendArrived, credit <- sendCredit
Chat == INSTANCE ChatHistory WITH
  server <- chatServer, store <- chatStore, media <- chatMedia, spoilt <- chatSpoilt,
  usage <- chatUsage, approved <- chatApproved, proc <- chatProc
ClassCard == INSTANCE ClassCardUpload WITH
  words <- cardWords, manifest <- cardManifest, checkpoint <- cardCheckpoint,
  row <- cardRow, sets <- cardSets, cmd <- cardCmd, basis <- cardBasis
Study == INSTANCE StudyResults WITH
  Files <- Results, entries <- studyEntries, sessions <- studySessions,
  quizItems <- studyItems, state <- studyState, lock <- studyLock, proc <- studyProc
Write == INSTANCE WriteTemplates WITH
  Shipped <- ShippedTemplate, custom <- templateCustom, run <- templateRun
Packs == INSTANCE RoutePacks WITH custom <- packCustom, route <- packRoute
Gws == INSTANCE Workspace WITH
  token <- gwsToken, tmp <- gwsTmp, home <- gwsHome, issued <- gwsIssued, expired <- gwsExpired,
  folders <- gwsFolders, proc <- gwsProc
Private == INSTANCE Privacy WITH
  Texts <- Said, entries <- privacyEntries, reverse <- privacyReverse,
  content <- privacyContent, meta <- privacyMeta, overlap <- privacyOverlap,
  proc <- privacyProc
Roster == INSTANCE ClassRoster WITH
  enrollments <- rosterEnrollments, inactive <- rosterInactive, sessions <- rosterSessions,
  records <- rosterRecords, doubled <- rosterDoubled, indexes <- rosterIndexes,
  gaps <- rosterGaps, disturbed <- rosterDisturbed, late <- rosterLate, edits <- rosterEdits
Jobs == INSTANCE Schedule WITH
  status <- jobStatus, granted <- jobGranted, log <- jobLog, count <- jobCount,
  quiet <- jobQuiet, proc <- jobProc
Journal == INSTANCE LessonJournal

toolVars == <<toolRecords, toolLegacy, toolProc, toolReview>>
memoryVars == <<memory, memoryArchive, memoryCompact, memoryDraft, memoryMoving,
             memoryOwed, memoryKills>>
goalVars == <<goals, goalFiles, goalProc, goalPassed>>
gateVars == <<gateApproved, gateCall, gateTraces>>
hookVars == <<hookConsent, hookLines, hookCounts, hookUses, hookProc, hookKills,
           hookUnrotated>>
sendVars == <<sendApproved, sendCheckpoint, sendUnits, sendRun, sendArrived,
           sendCredit, sends>>
chatVars == <<chatServer, chatStore, chatMedia, chatSpoilt, chatUsage, chatApproved,
           chatProc>>
cardVars == <<cardWords, cardManifest, cardCheckpoint, cardRow, cardSets,
           cardCmd, cardBasis>>
studyVars == <<studyEntries, studySessions, studyItems, studyState, studyLock,
            studyProc>>
templateVars == <<templateCustom, templateRun>>
packVars == <<packCustom, packRoute>>
gwsVars == <<gwsToken, gwsTmp, gwsHome, gwsIssued, gwsExpired, gwsFolders, gwsProc>>
privacyVars == <<privacyEntries, privacyReverse, privacyContent, privacyMeta, privacyOverlap,
              privacyProc>>
rosterVars == <<rosterEnrollments, rosterInactive, rosterSessions, rosterRecords, rosterDoubled,
             rosterIndexes, rosterGaps, rosterDisturbed, rosterLate, rosterEdits>>
jobVars == <<jobStatus, jobGranted, jobs, jobLog, jobCount, jobQuiet, jobProc>>
journalVars == <<timetable, cancelled, lessons>>

Parts == {"approvals", "tools", "memory", "goals", "gate", "hooks", "friends", "chats",
          "classcard", "study", "templates", "routes", "workspace", "privacy",
          "roster", "schedule", "journal"}

ProfileInit ==
  /\ part \in Parts
  /\ Init /\ Registry!Init /\ Memory!Init /\ Goal!Init /\ Gate!Init /\ Hooks!Init
  /\ Friends!Init /\ Chat!Init /\ ClassCard!Init /\ Study!Init
  /\ Write!Init /\ Packs!Init /\ Gws!Init /\ Private!Init /\ Roster!Init
  /\ Jobs!Init /\ Journal!Init

\* Every part but the chosen one stays as it is.
AllOthersRest ==
  /\ UNCHANGED part
  /\ IF part = "approvals" THEN TRUE ELSE UNCHANGED vars
  /\ IF part = "tools" THEN TRUE ELSE UNCHANGED toolVars
  /\ IF part = "memory" THEN TRUE ELSE UNCHANGED memoryVars
  /\ IF part = "goals" THEN TRUE ELSE UNCHANGED goalVars
  /\ IF part = "gate" THEN TRUE ELSE UNCHANGED gateVars
  /\ IF part = "hooks" THEN TRUE ELSE UNCHANGED hookVars
  /\ IF part = "friends" THEN TRUE ELSE UNCHANGED sendVars
  /\ IF part = "chats" THEN TRUE ELSE UNCHANGED chatVars
  /\ IF part = "classcard" THEN TRUE ELSE UNCHANGED cardVars
  /\ IF part = "study" THEN TRUE ELSE UNCHANGED studyVars
  /\ IF part = "templates" THEN TRUE ELSE UNCHANGED templateVars
  /\ IF part = "routes" THEN TRUE ELSE UNCHANGED packVars
  /\ IF part = "workspace" THEN TRUE ELSE UNCHANGED gwsVars
  /\ IF part = "privacy" THEN TRUE ELSE UNCHANGED privacyVars
  /\ IF part = "roster" THEN TRUE ELSE UNCHANGED rosterVars
  /\ IF part = "schedule" THEN TRUE ELSE UNCHANGED jobVars
  /\ IF part = "journal" THEN TRUE ELSE UNCHANGED journalVars

ProfileNext ==
  /\ \/ part = "approvals" /\ Next
     \/ part = "tools" /\ Registry!Next
     \/ part = "memory" /\ Memory!Next
     \/ part = "goals" /\ Goal!Next
     \/ part = "gate" /\ Gate!Next
     \/ part = "hooks" /\ Hooks!Next
     \/ part = "friends" /\ Friends!Next
     \/ part = "chats" /\ Chat!Next
     \/ part = "classcard" /\ ClassCard!Next
     \/ part = "study" /\ Study!Next
     \/ part = "templates" /\ Write!Next
     \/ part = "routes" /\ Packs!Next
     \/ part = "workspace" /\ Gws!Next
     \/ part = "privacy" /\ Private!Next
     \/ part = "roster" /\ Roster!Next
     \/ part = "schedule" /\ Jobs!Next
     \/ part = "journal" /\ Journal!Next
  /\ AllOthersRest

profileVars ==
  <<part, vars, toolVars, memoryVars, goalVars, gateVars, hookVars, sendVars,
    chatVars, cardVars, studyVars, templateVars, packVars, gwsVars,
    privacyVars, rosterVars, jobVars,
    journalVars>>

ProfileSpec == ProfileInit /\ [][ProfileNext]_profileVars

-----------------------------------------------------------------------------
(* The promise of each part, where it moves: a part that rests is in its   *)
(* initial state, from which its own behaviours start.                     *)

(* A lifecycle tool the agent is told to use is the version that was       *)
(* registered and promoted with evidence (ToolRegistry).                   *)
UsableWasReviewed == part = "tools" => Registry!UsableWasReviewed

(* A recorded memory is kept, archived or on its way (ProfileMemory).      *)
NothingLostQuietly == part = "memory" => Memory!NothingLostQuietly

(* A passed goal was verified over the evidence it has (GoalLedger).       *)
PassCoversTheEvidence == part = "goals" => Goal!PassCoversTheEvidence

(* A call that does more is never treated more leniently (ToolGate).       *)
GateIsMonotone == part = "gate" => Gate!GateIsMonotone

(* Hooks may lose uses but invent none, and the anomaly log stays bounded  *)
(* (HookLedgers).                                                          *)
HookLedgersHold == part = "hooks" => Hooks!CountsAreEarned /\ Hooks!QaLogBounded

(* An approval is spent on a message that went out in full (FriendSend).   *)
SpentMeansDelivered == part = "friends" => Friends!SpentMeansDelivered

(* History and quota tell only what happened (ChatHistory).                *)
HistoryIsBacked == part = "chats" => Chat!HistoryIsBacked

(* What is called completed is in the class (ClassCardUpload).             *)
CompletedIsInTheClass == part = "classcard" => ClassCard!CompletedIsInTheClass

(* The totals of a word are what the quiz sessions list (StudyResults).    *)
TotalsExplained == part = "study" => Study!TotalsExplained

(* A write action executes what its template says (WriteTemplates).        *)
EveryReferenceIsReplaced == part = "templates" => Write!EveryReferenceIsReplaced

(* No budget hides a rule that would have fitted (RoutePacks).             *)
RulesSurviveTheBudget == part = "routes" => Packs!RulesSurviveTheBudget

(* The token file is one consent's (Workspace).                            *)
TokenIsOneGrant == part = "workspace" => Gws!TokenIsOneGrant

(* What is kept or given out hides who is registered, shows the owner what *)
(* was said, and an offload is intact (Privacy).                           *)
RevealedIsWhatWasSaid == part = "privacy" => Private!RevealedIsWhatWasSaid

(* A report of gaps adds up, and what it misses can be filled              *)
(* (ClassRoster).                                                          *)
GapsCanBeFilled == part = "roster" => Roster!GapsCanBeFilled

(* What is scheduled was approved, and the log of runs is never mixed up   *)
(* (Schedule).                                                             *)
ScheduledIsApproved == part = "schedule" => Jobs!ScheduledIsApproved

(* Two cells of the journal agree about a homework (LessonJournal).        *)
HomeworkComesDue == part = "journal" => Journal!HomeworkComesDue
=============================================================================
