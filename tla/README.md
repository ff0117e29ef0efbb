# chat-lms-agent: a TLA+ model of the harness

`chat-lms-agent` is a command-line harness around a coding agent (Codex
Desktop).  A teacher and an agent work on one private *profile* directory.
Every CLI command and every hook is an operating-system process of its own;
what they share is the profile's JSON ledgers, a SQLite database, a session
transcript store, and the outside world (mail, KakaoTalk, Google Sheets,
ClassCard).  Nothing is kept in memory between commands and almost nothing is
locked, so the behaviours that make the system hard are the order of commands,
commands that overlap (the agent's, the hooks', the teacher's second terminal),
and processes that die between two writes.

This directory models those behaviours, model-checks them with TLC, and proves
the ones that matter most with TLAPS.  All paths below are relative to
`src/chat_lms_agent/` unless they start with `docs/` or `plans/`.

Contents: [1 Inventory](#1-inventory) ·
[2 Conventions](#2-conventions) ·
[3 Modules](#3-modules-and-the-code) ·
[4 Runs](#4-runs-bounds-and-what-they-show) ·
[5 Fairness](#5-fairness) ·
[6 Proofs](#6-proofs) ·
[7 Divergences](#7-where-the-code-and-its-documentation-disagree) ·
[8 Not modelled](#8-what-is-not-modelled) ·
[9 Plan](#9-plan)

## 1 Inventory

How the parts interact: the agent runs commands; a command that needs a person
files a request in the **approval ledger** and answers `NEEDS_APPROVAL`; the
teacher approves it in a terminal; the agent runs the command again, which
checks, acts and consumes.  When the agent's turn ends, the **Stop hook** reads
the same ledgers and blocks the session while something is open, and an
**ingest** process copies the session's transcript.  The approval ledger is the
state nearly every part touches; the others have one file or database each.

| Component | State | Operations | What is hard | What makes it correct |
|---|---|---|---|---|
| Approval ledger (`approvals.py`) | `approvals.json`, `approvals.json.tmp` | ensure, approve, deny, consume, is-approved | read-modify-rename without a lock, one temporary name for all, kills, two plans with one id | only what a teacher granted is used, for its own plan, once; spent is final |
| Outward sends (`integration_modules.py`, `gws_handlers.py`, `kakao_handlers.py`) | the ledger, the outside world | `gws gmail send`, `kakao chats reply` | decide-then-act, lost answers, kills between sending and consuming | nothing is sent ungranted; an approval is spent by a send; overlap is the only other way to use it twice |
| Academy import (`academy_db_imports.py`, `academy_db.py`) | store, plan file, backup | `import plan`, `import apply`, `backup create` | five files written in order, the only backup in place, one approval id for every import | merged only if granted; applied means merged; the backup undoes |
| Session closeout (`session_closeout.py`, `state.py`, `hook_handlers.py`) | block counter per session directory, recovery marker per profile | Stop (also resumed), PostCompact, context injection | reads several ledgers one by one; counter and marker shared by hooks; ways past the block | let go for cause, told before escalation, never blocked for ever, recovery not lost |
| Session ledger (`session_ledger.py`) | one log per session, one checkpoint, a lock file | ingest, enable, disable, retention | stale-lock take-over, kills before the checkpoint, budgets and caps | nothing skipped or doubled; opting out holds; oldest evicted |
| Write actions (`write_engine.py`, `write_actions.py`, `write_action_handlers.py`) | SQLite database, backups, audit | register, apply, index | backup before lock, captured ids, fan-out, name collisions in a second | whole runs only; the backup undoes |
| Design blocks (`side_panel_blocks.py`, `side_panel_design_*.py`) | block records, artifacts, evidence, viewers | generate, verify, register, promote, deprecate | check-then-copy of an editable artifact, copies in place, records rewritten whole | only verified designs shown; one approval, one activation; deprecate restores |
| Sheet sync (`outbound_*.py`, `daily_*.py`) | the Google sheet, the outbound ledger, plan files | `outbound daily-management sync`, `outbound daily-lesson-homework sync` | a person edits between read and write; plan files shared by processes | what people typed survives; own writes are recognised |
| Friend messages (`kakao_send.py`, `kakao_plan.py`) | checkpoint of part indexes, quota | send, fail, resume | indexes outlive the message, parts arrive before they are recorded | an approval buys a whole message; the quota never runs ahead |
| Chat history and quota (`kakao_core.py`, `kakao_quota.py`, `kakao_media.py`) | `chats.json`, media files, `quota.json` | pull, reply | histories rewritten by overlapping commands, media before messages and in place | what is stored happened, and has its pictures |
| ClassCard uploads (`classcard.py`, `classcard_*`) | manifest, checkpoint, run row, the site's sets | prepare, execute, recover, direct-upload, verify | a plan made anew from a database that moved on | completed means in the class |
| ClassCard study results (`classcard_study.py`) | sessions, items, word totals | import, due | lookups before the lock, repeated imports | totals are what the sessions list |
| Agent tools (`agent_tool_lifecycle.py`, `tool_store.py`, ...) | tool records in three stores | scaffold, register, promote, deprecate | ledgers rewritten from older copies | usable means reviewed, in this version |
| Profile memory (`memory_handlers.py`, ...) | `memory.json`, archive, compact copy, draft | upsert, draft, edit, apply, archive, compact, verify | two files per archive | nothing is lost quietly |
| Goals (`goal_state.py`) | goals, evidence files | evidence, verify, status | verify writes over evidence it did not see | PASS covers the evidence |
| Anomaly log and counters (`self_qa.py`, `usage_telemetry.py`) | a log, counters | the hooks | counters rewritten, rotation measured first | no use is invented, the log stays bounded |
| Pre-tool gate (`pre_tool_gate.py`) | traces of refusals | decide | the first rule that applies decides | doing more is never treated more leniently |
| Write-action templates (`write_actions.py`, `write_engine.py`) | template files | load, validate, compile, expand | two passes over one template, tied by position | every reference gets its captured id, and only those |
| Roster and gaps (`write_action_handlers.py`) | enrollments, sessions, records | roster, session-gaps, index | several SELECTs while others edit | a report adds up, and what is missing can be filled |
| Journal cells (`daily_management_outbound.py`, `daily_lesson_homework_db.py`) | lessons, timetable | build items | one day is looked up in the timetable, another among the lessons | homework that is announced comes due |
| Prompt routes (`route_packs.py`, `prompt_route*.py`) | route packs | match, catalog, section | three budgets, eviction | a budget hides no rule that would have fitted |
| Redaction and offloads (`privacy.py`, `journal.py`, `context_v4.py`) | `privacy.json`, the reverse map, texts | scrub, restore, offload | the map rewritten by every command, texts cut first | the owner reads what was said, nobody else does |
| Google access (`gws_auth.py`, `gws_api.py`, `gws_setup.py`) | token file, client file | setup, refresh, request | a refresh writes over a new consent, all through one temporary file | a readable token is one consent's |
| Schedule (`schedule*.py`) | plans, log of runs | plan, register, run-now | digests of arguments; a log cut in place | what is scheduled was approved |
| Host context, hook entry points, parsers, shortcuts, doctors, side-panel viewer, browser automation, installation | see section 8 | | | |

`PROJECT.json` lists every component with the files that belong to it, and under
`hazards` each line of the code at which one of the hard behaviours bites, with
the properties that would show it going wrong.

## 2 Conventions

* **One variable, one file.**  A JSON ledger is a function or a record; a
  database is a function from rows to who wrote them; text is a model value.
* **One action, one access.**  Within a command, each read or write of shared
  state is an action, so every interleaving of commands and every kill between
  two accesses is explored.  What the code does between two accesses is part of
  the action of the second.
* **Histories** are variables no action of the code reads (`granted`, `used`,
  `overlap`, `slipped`, `setback`, ...); each is marked `history` where it is
  declared.  Several properties hold only of behaviours without an overlap of
  commands, or without a kill at one place.  Such a condition is in the
  property, and the corresponding behaviours are still in the run: with them
  other properties are checked, and the condition shows how far the code's own
  promise goes.
* **Bounds** are constants named `Max...`, used in guards only.
* **Bugs to be caught.**  An operator commented `A bug to be caught` is a
  variant of the action after it, as a plausible mistake would make it.  No
  specification uses it; `PROJECT.json`, under `mutants`, pairs it with the
  property that fails when it replaces the action.
* The files of the code are accessed with ordinary reads and `Path.replace`;
  a rename is atomic, a write is not.  A file written in place is opened, which
  empties it, and filled in two actions, so a kill can leave it torn and a reader
  find it so.

## 3 Modules and the code

```
ApprovalLedger  <--INSTANCE--  ApprovalStore   (the files implement it)
                <--INSTANCE--  OutwardSend     (its operations on the ledger)
                <--INSTANCE--  AcademyImport   (its operations on the ledger)
Academy   --EXTENDS-->  AcademyImport  WriteAction
SessionCloseout   SessionLedger   DesignPromotion   SheetSync

Profile  --EXTENDS-->  ApprovalLedger
         --INSTANCE->  ToolRegistry ProfileMemory GoalLedger ToolGate HookLedgers
                       FriendSend ChatHistory ClassCardUpload StudyResults
                       WriteTemplates RoutePacks Workspace Privacy ClassRoster
                       Schedule LessonJournal
         these use     Collections
```

Each `MC...` module only gives constants their values and a symmetry set
(`SessionLedger` needs none, nor does the run of `AcademyImport` alone); in
`MCProfile` the two interchangeable values `Pair` stand for the processes, the
teachers or the students of a part.  The
definitions' source lines are in `PROJECT.json` under `map`.

**ApprovalLedger** is the abstract specification: `approvals.json` as a function
from ids to records, and one atomic action per function of `approvals.py`
(`EnsureRequest`, `Approve`, `Deny`, `Clear` for `approval_is_approved`,
`Consume`).  `IdOf` is `approval_id_for`, a slug of the plan id, so two plans may
share an id.  The `...In` operators are the functions on a ledger value.

**ApprovalStore** is the same ledger as it is stored: a command loads the file,
checks, opens `approvals.json.tmp`, writes, renames.  Any two processes share the
temporary name; a rename moves a file another process may still be writing;
`ReplaceWhileOpen` says whether the platform allows that (POSIX) or fails the
command (Windows).  A kill may leave a torn temporary file.

**OutwardSend** is the gate of `integration_modules.py` and the two senders:
`CheckUnavailable`, `CheckApproved`, `Ensure`, then `SendArrives`, `SendFails` or
`AnswerLost`, then `Consume`; `Crash` anywhere; the teacher's `Decide` between any
two steps.

**AcademyImport** is `import plan` and `import apply`: check the approval, persist the
plan, ensure or go on, back up in place (`BackUp` or the command `CreateBackup`, then
`FillBackup`), read the store, write it merged, mark the plan, consume.  Every import
has the same plan id, `import_plan_latest`.

**SessionCloseout** has one process per session.  `Stop` starts the hook, which reads
the approvals, the plans and (only if no gate is open) the memory obligations, reads and
writes the counter for that reason (`ReadCounter`, `BumpCounter`), and answers or
escalates at the third.  A session that goes on after a block may stop with
`stop_hook_active` and passes at once (`StopResumed`).  `DirOf` is
`_sanitize_session_id`: sessions without an id share the directory `default`; `Groups`
bounds which sessions run together.
`Compact`, `ReadMarker`, `Claim` and `Inject` are the recovery after a compaction.
Other sessions and the teacher change the ledgers by `Open` and `Resolve`.

**SessionLedger** has one process per ingest: lock, retry after removing a stale
lock, load the checkpoint, read one rollout after another up to a budget of lines,
prune logs over the limit, commit the checkpoint, release.  The host writes,
archives and restores rollouts; the owner's enable and disable commands read and
write the checkpoint in two steps.

**WriteAction** compiles the two templates the repository ships into their
statements and runs them: copy the database, begin, execute one statement after
another, commit or abort, write the audit record.  `Intended` is the reference: what
one run should change.

**Academy** puts these two side by side.  Imports extend a JSON store, write actions change
the SQLite database, and they share no file, approval or process; a behaviour follows
the commands on one of them, chosen in the initial state by `part`.

**DesignPromotion** has one process per command: `generate` writes a draft's record
and then its artifact, in place; a lifecycle verb reads all block records,
passes the gate, backs up the viewer, copies the artifact onto it (`CopyArtifact`
empties it, `Fill` completes it, as after `Restore`), records the installation,
consumes the approval, writes all records back.  Verification reads the artifact,
checks it and records evidence in three steps.

**SheetSync** is one sync after another or at once: read the sheet, decide cell by
cell, stop on a conflict, write one batch, read again, record every cell.  The
journal flow keeps the plan in memory, the homework flow in files of an output
directory that a second sync replaces.  A person types at any time.

**Profile** puts seventeen parts side by side: the approval ledger and sixteen
components that share no file with one another.  What such a part takes from
another is in the part (an approval that may come and go in `ToolGate`, `FriendSend`,
`ChatHistory`, `Schedule`); how a gate goes about the ledger is `OutwardSend`.  Since
steps of different parts commute, a behaviour of `Profile` exercises one part,
chosen in the initial state by `part`, while the others rest.

**ToolRegistry**: `scaffold`, register, promote, deprecate and the `tool` commands,
each loading a file whole and saving it whole; `UsableTools` is what `tool_store.py`
merges from the registry in the code and two files.

**ProfileMemory**: `Upsert`, drafts, `TakeOut` and `PutAway` (the two files of an
archive, with `Kill` in between), `Compact`.  Commands of the owner take turns here; the kill is
the hazard.

**GoalLedger**: evidence is written to a file and then to the ledger; `LoadVerify` and
`SaveVerify` are the two ends of a verification, which others may overlap.

**ToolGate** is `evaluate_tool_call` over tiers and the marks its patterns find, in the
order of its rules.

**HookLedgers**: the counters and the anomaly log that hooks of several sessions
rewrite, rotate and clear, with the owner's consent.

**FriendSend**: one run sends the parts its checkpoint file does not list; `FailPart`
saves the checkpoint, `Kill` does not.

**ChatHistory**: the server, the history by contact, the media files, the usage.
A pull downloads everything, then reads the history, writes the media (`OpenMedia`,
`FillMedia`) and writes the history once per thread;
a reply sends, consumes, stores its own copy and counts.

**ClassCardUpload**: the database's words, the manifest, the checkpoint (which a
kill may tear), the run row and the sets of the site; each command plans anew.

**StudyResults**: an import looks words up, takes the database's lock with its
first write, adds sessions, items and totals, and commits.  `DueWords` are those of
the lessons or of any session, answered or not.

**WriteTemplates** checks `write_actions.py`'s compilation against `write_engine.py`'s
metadata on every template of up to three steps: `Compiled` and `Metadata` are two passes
over the same steps, `EveryReferenceIsReplaced` what they must agree on.

**RoutePacks** is the route of a prompt and three budgets: `CommandIndex` folds
`IndexEntry` over the packs, `RoutePacksSection` and `Catalog` cut lists.

**Workspace**: a token is a client, scopes, an access token and perhaps a refresh
token, each of one grant; `WriteToken` and `SaveRefreshed` (which writes back what was
loaded) go through `Open`, `Fill` and `Replace` of the one temporary file, where a writer
may be writing to what another has renamed.

**Privacy**: a text is a sequence of words; entries hide names reversibly, one-way
or by a pattern; the reverse map is read and rewritten by every command.  An offload
keeps its text unredacted; what is told of it is a summary of its beginning.

**ClassRoster**: the SELECTs of `roster` and `session-gaps`, each at its own time, around
the effects of `record-class` on sessions and records.

**Schedule**: what is approved is a digest of arguments (`PlanOf`), what is registered
a command line (`Register`), and the run log is cut to its last characters; the
runs it lists are the positions where its lines begin (`Runs`), if all of it can be parsed.

**LessonJournal**: `JournalItems` of the lessons recorded so far, with homework taken from the
lessons and the day it is due from the timetable.

**Collections** has the few operators of `SequencesExt` and `FiniteSetsExt` that seven of these
parts need.  With those two modules in seven instances the provers would be given some
hundreds of definitions more with every obligation, and the proofs about the profile would take more than
twice as long.

## 4 Runs, bounds and what they show

Every run is exhaustive within its bounds; symmetry is used for interchangeable
processes and cells only, and never in a run with a liveness property.
The largest are `design_promotion` (3.1 million distinct states, 2 minutes), `session_closeout`
(2.1 million), `academy` (1.7 million) and `profile` (1.1 million, 3 minutes).

| Run | Instance | Checked | What it shows |
|---|---|---|---|
| `profile` | part by part, see below | eighteen properties, see below | each part keeps its promise under overlap, kills, failures and edits |
| `approval_store` | 2 processes at once, 5 commands, 2 plans, POSIX rename | `ImplementsLedger`, `UsedOnlyIfTyped` | without an overlap the files refine `ApprovalLedger` through any kill; with one, no approval is made up |
| `approval_lost_update` | the same, Windows rename | `ConsumedStaysConsumed` (violated) | a lost update brings a spent approval back |
| `outward_send` | 2 commands at once, 4 runs, 1 death; 3 sends, 3 plans, 2 ids | `SentOnlyIfGranted`, `UsesAccountedFor` | sends are granted, approvals are spent by sends, and a second use is a death between the two or an overlap |
| `outward_send_reuse` | the same | `SingleUse` (violated) | such a death is enough for a second send |
| `academy` | imports: 2 at once, 4 runs, 1 kill, 2 sources; write actions: 3 runs on 1 class, 2 students (1 enrolled), 2 seconds, 1 kill or failure | `AppliedMeansMerged`, `BackupOneImportOld`, `MergesAccountedFor`; `WholeRunsOnly`, `BackupUndoes` | the order of the five files, kill by kill, with a backup that a kill tears; captured ids and fan-out add up to the payload, the backup is the state before |
| `academy_import_stuck` | 1 import at a time | `BlockCanBeResolved` (violated) | a second import blocks the session and cannot be approved |
| `session_closeout` | 2 sessions at once, on one directory or with one each; 1 approval and 1 memory record, 2 openings or compactions, 1 kill | `LetGoOnlyWithCause`, `DirectoryToldTwice`, `RecoveryNotLost` | three reads without a lock still give a clean pass; who is let go otherwise was told, on a shared counter one of its sessions was; claims lose no recovery |
| `session_closeout_release` | 2 sessions on one directory, 1 opening or compaction, 1 kill | `NoEndlessBlock` | the escalation ends every block, also on a shared counter |
| `session_ledger` | 2 sessions, 2 ingests, 3 lines, budget 1, cap 2, room for 1 log, 1 setback | `EachLineOnce`, `StaysOff`, `EvictsTheOldest`, `CatchesUp` | lock, checkpoint and limits under a kill, a stolen lock, or the owner's switch |
| `design_promotion` | 2 blocks on 1 view, 4 designs and a torn file, 2 processes, 1 trouble | `OnlyVerifiedIsInstalled`, `ActivatedOnce`, `DeprecateRestores` | what a view may show, and what deprecating brings back |
| `sheet_sync` | 2 syncs, 2 cells, blank and 2 texts, both flows, 2 troubles | `ManualSurvives`, `OwnWritesRecognised` | a typed value is overwritten only in the window after the read; conflicts are about people |

The run `profile`, part by part:

| Part | Instance | Property |
|---|---|---|
| approvals | 3 plans on 2 ids, 2 teachers | `OnlyAsGranted`, `TerminalIsFinal`: nothing is used that was not granted, for another plan, or again |
| tools | 2 processes, 1 id, 2 complete versions and an incomplete one | `UsableWasReviewed` |
| memory | 2 keys, 1 text, 2 changes that share an obligation, 1 kill | `NothingLostQuietly` |
| goals | 2 processes, 1 goal, 2 pieces of evidence, one of them a test run | `PassCoversTheEvidence` |
| gate | all calls over 3 or 6 marks, 2 traces | `GateIsMonotone` |
| hooks | 2 processes, 2 surfaces, a log of 3 lines, 2 uses, 1 kill | `HookLedgersHold` |
| friends | messages of 2 and 3 parts under a cap of 2, 2 checkpoint files, 4 sends | `SpentMeansDelivered` |
| chats | 2 processes, 2 chats under one name, 2 messages, ceilings 0 to 2 | `HistoryIsBacked` |
| classcard | 2 words, spans 1 and 2, 3 sets | `CompletedIsInTheClass` |
| study | 2 processes, 2 files, one naming a word twice, one a word nobody knows; 3 sessions | `TotalsExplained` |
| templates | every template of up to 3 of 7 steps, arrays of 0 to 2 | `EveryReferenceIsReplaced` |
| routes | 2 shipped packs and every choice of profile packs for the ids 1, 2 and 4 | `RulesSurviveTheBudget` |
| workspace | 2 processes, 2 grants of 2 clients, 3 access tokens, the folders of one owner (`Followed`) | `TokenIsOneGrant` |
| privacy | 2 processes, texts of 4 words, cut at 3, two lists of entries | `RevealedIsWhatWasSaid` |
| roster | 2 students, 3 periods, 2 sessions, 3 edits | `GapsCanBeFilled` |
| schedule | 2 processes, 6 requests, 2 folders, 3 runs, a log of 4 | `ScheduledIsApproved` |
| journal | 2 weekdays, 6 days, 3 lessons, 3 timetables, 1 cancelled day | `HomeworkComesDue` |

Why the bounds are enough to be interesting: every hazard is a conflict of at most
two processes over one record, cell, row, log or view, and of one process with
its own earlier life after one kill.  So there are always two processes and one
thing they fight over, a second thing wherever a wrong index, id or name could
send one to the other, and at least one kill.  Limits are set so that they are
hit: a budget of one line with three to read, room for one log with two sessions,
two seconds for three runs' backup names, a cap of two parts with messages of two
and three, an index budget that not all packs fit.  Four or five commands allow
request, grant, use and a repetition.  What the bounds do not cover is three
processes at once (three-way races on the temporary file, for instance) and two
deaths in one history; where a theorem exists (section 6) it has no such bound.

The runs of `ApprovalStore`, `OutwardSend`, `Academy`, `AcademyImport`, `SessionLedger`
and `DesignPromotion` say `CHECK_DEADLOCK FALSE`: their commands, lines,
seconds or records are bounded, so a behaviour ends when the bound is used up
and every block, approval or row is in its last state.  The others keep the
check: there is always a next request, command, hook or sync.

## 5 Fairness

Only two specifications have fairness, because only they have something the code
promises for the end.

* `SessionCloseout`: weak fairness of the hook's own steps (a hook that was started runs
  on: the host waits for it with a timeout, and a killed one is the action `KillHook`)
  and of claiming and injecting; strong fairness of `Stop` or `StopResumed` (an agent
  whose turn was blocked tries to stop again, whatever other sessions do in between;
  whether the host then passes `stop_hook_active` is left open).  Nothing is assumed
  about the teacher: `Open` and `Resolve` are unfair, and `NoEndlessBlock` assumes only
  that the ledgers stop changing.
* `SessionLedger`: weak fairness of every step of a running ingest, of starting
  one (every turn end and every session start triggers one, `hooks/hooks.json`),
  of the second half of a switch command, and of time: an abandoned lock grows
  120 seconds old.  Nothing is assumed about the host, kills or the owner;
  `CatchesUp` assumes that the ledger stays on.

All other properties are safety properties and need none.

## 6 Proofs

Every theorem below holds for all values of the constants that satisfy the
module's `ASSUME`s and what the theorem itself assumes; TLC evaluates the `ASSUME`s on
every instance.

| Theorem | States | Argument |
|---|---|---|
| `ProfileProofs!GrantSafety`, `Finality` | `OnlyAsGranted`; `TerminalIsFinal` | `LedgerInv` |
| `ApprovalStoreProofs!TypeCorrect`, `NothingIsMadeUp` | `TypeOK`; `UsedOnlyIfTyped` | `Shape`; every list anywhere is `Typed` |
| `ApprovalStoreProofs!StoreImplementsLedger` | `ImplementsLedger` | `Alone`, step simulation |
| `OutwardSendProofs!NoSendWithoutGrant` | `SentOnlyIfGranted` | `SentCleared`; `LedgerInv`, kept by every step of the ledger |
| `OutwardSendProofs!UsesAreAccountedFor` | `UsesAccountedFor` | `UseInv`: what may still send, per plan; `Limited`: uses, senders and consumers of a plan, counted |
| `AcademyProofs!AppliedIsInTheStore`, `ImportsCanBeUndone`, `MergesAreAccountedFor` | `AppliedMeansMerged`; `BackupOneImportOld`; `MergesAccountedFor` | `Gated`, `Alone` |
| `AcademyProofs!RunsAreWhole`, `BackupsUndo` | `WholeRunsOnly`; `BackupUndoes` | `SoFar`, `KnowsItsRows`, `BackedUp` |
| `SessionProofs!CloseoutTypeCorrect`, `LetGoForCause` | `CloseoutTypeOK`; `LetGoOnlyWithCause` | `ReadsMeanIt`, `CounterIsBacked` |
| `SessionProofs!EscalatedAfterTelling` | `DirectoryToldTwice` | `CountersSupported`: every copy of a counter |
| `SessionProofs!RecoveryHolds` | `RecoveryNotLost` | the marker goes from file to hand |
| `SessionProofs!OptOutHolds`, `LinesAreRecordedOnce`, `OldestIsEvicted` | `StaysOff`; `EachLineOnce`; `EvictsTheOldest` | `SoundInv`, `Locked`, `Orderly` |
| `DesignPromotionProofs!ViewsShowVerified`, `ActivatesOnce`, `DeprecationRestores` | `OnlyVerifiedIsInstalled`; `ActivatedOnce`; `DeprecateRestores` | `Verified`, `Alone`, `Restorable` |
| `SheetSyncProofs!TypeCorrect`, `TypedValuesSurvive` | `TypeOK`; `ManualSurvives` | `SeenOK`, `FilesSafe`, `MemorySafe` |
| `SheetSyncProofs!OwnWritesAreRecognised` | `OwnWritesRecognised` | `Undisturbed`, `NoSetback` |
| `ProfileProofs!NothingIsLost` | `NothingLostQuietly` | `MemoryInv` |
| `ProfileProofs!ToolsHold` | `UsableWasReviewed` | the copies commands hold are reviewed too |
| `ProfileProofs!GoalsHold` | `PassCoversTheEvidence` | `CopiesCovered` |
| `ProfileProofs!MessagesHold` | `SpentMeansDelivered` | `Credited`, `DoneIsBacked`, `UnitsAreSent` |
| `ProfileProofs!HistoryHolds` | `HistoryIsBacked` | `WhatIsBackedStays`, `ChatQuotaOK`, two entries for a reply |
| `ProfileProofs!UploadsHold` | `CompletedIsInTheClass` | `CardPlanOK`, `CardPartOK` |
| `ProfileProofs!TokensHold` | `TokenIsOneGrant` | tokens in memory are one grant's, `FewFolders` |
| `ProfileProofs!HooksHold` | `HookLedgersHold` | `HookCountsOK`, `HookLogOK` |
| `ProfileProofs!GapsHold` | `GapsCanBeFilled` | `EveryoneHasARecord`, `ReportCounts` |
| `ProfileProofs!ScheduleHolds` | `ScheduledIsApproved` | `JobsOK`, `LogOK`, `QuietOK` |
| `ProfileProofs!HomeworkHolds` | `HomeworkComesDue` | `DueIsTheLast`, `AnnouncedIsAhead`, `InTheWeekAhead` |
| `ProfileDataProofs!TotalsHold` | `TotalsExplained` | `WordsAtHand`, `Explained`, sums over finite sets |
| `ProfileDataProofs!ReferencesHold` | `EveryReferenceIsReplaced` | two joined lists are `Alike` place by place |
| `ProfileDataProofs!PrivacyHolds` | `RevealedIsWhatWasSaid` | `Faithful`, `MapIsAtHand`, `OffloadsAreWritten` |
| `ProfileDataProofs!RulesAreKept` | `RulesSurviveTheBudget` | `IndexOK` at every place of the fold; places in an order are ranks |
| `ProfileProofs!GateHolds` | `GateIsMonotone` | `RulesAreMonotone`, no invariant needed |

**The approval ledger.**  `OnlyAsGranted` is `UsedOnlyIfGranted` and
`ClearedForItsOwnPlan`.  The first is not inductive: `Consume` is
allowed to whoever was let through, so it needs `ClearedForItsOwnPlan`, which in
turn needs that a record which exists keeps its plan (`AbsentHasNoPlan`).  The
conjunction `LedgerInv` is inductive.  `Finality` is a property of steps and follows
from what one command may do to one record (`StepOf`).  Assumed: ids are a
function of plans, the agent is not a teacher.

**The approval store.**  A command writes back a list it loaded, over a temporary
file another one may be writing.  So `Typed` is claimed of every list there is:
the file, the temporary file, what a handle still points at, and what each
command has loaded or is about to write; a torn file parses as none and claims
nothing.  `NothingIsMadeUp` needs no assumption on overlaps.  The refinement does: while no two
commands have overlapped, the one at work holds `Change(p)`, what the ledger's own
operator makes of the file as it is, so the rename is a step of `ApprovalLedger` and
everything before it a stutter; a kill is a stutter as well, whatever it leaves
in the temporary file, because the next command truncates it.

**Outward sends.**  Every step of a sender is a step of the ledger or leaves it be, so
`LedgerInv` holds here.  The other steps need invariants of their own: a process that
has passed the gate holds an id that was cleared for its own plan (`PastGate`), and what
was sent was cleared (`SentCleared`).  For `UsesAreAccountedFor`: a consumed record is
for a plan that was sent (`SpentBySends`); and without overlap a plan was used at most
as often as runs died after sending it, or once more if its record is spent or a run is
about to spend it; a spent record stays spent (`StepOf`).  With overlap several runs may
be past the gate on one approval.  `Limited` counts them: the uses of a plan beyond the
runs that died or lost their answer are runs that have yet to consume; or its record is
spent, and these uses and the runs that may still send are together at most the commands
that run at once, for no run joins them any more.  The number
of processes, runs, deaths and overlaps is arbitrary.

**Imports.**  That nothing is merged without a grant holds through any overlap (`Gated`).
The three other promises are about commands that do not overlap; `Alone` follows the one
that runs from step to step: the plan on file is its own until it is
marked (`PlanIsItsOwn`), the backup it filled is whole and is the store it reads
(`StoreIsBackedUp`), a torn one has its cause (`TornForCause`), and it
comes to merge only if every earlier merge that did not spend the approval was
killed (`FirstMerge`, `MergesCounted`).

**Write actions.**  `SoFar`: at every statement the transaction holds what the earlier statements
of this run make of the database it began with, and the lock keeps that one as
it was; so at the commit the database changes by the whole run or, at an abort,
not at all.  A statement that uses a captured id needs to know whose id that is (`KnowsItsRows`):
the class and the session of the run itself.
`BackedUp`: the copy of a run is the database before it unless the run crossed
another one, which is the exception the property makes.  Runs, payloads, overlaps and
failures are arbitrary.

**Closeout.**  The ledgers are read one by one while others change them. `ReadsMeanIt`:
as long as nothing excuses the session, something is open that was open when its hook
began, and it is in none of the ledgers already found empty; so the last read finds it.
`CounterIsBacked`: the counter of a directory that one session has to itself is ahead of
what this session was told by the block about to be answered and by the hooks killed, or
the session was told twice already; `LetGoForCause` claims that of
such sessions only, and everything else of all.  Sessions without an id share a directory and
overwrite each other's count from copies they hold. For them `CountersSupported` says of
the file and of every copy that what it counts was told to one of them, is about to be,
or was cut off by a kill (`Evidence`), or that two tellings are there already; a telling
in the making moves from one side of that sum to the other (`EvidenceMoves`).
`RecoveryNotLost` is inductive as it stands.

**The transcript ledger.**  `Sound`: what a checkpoint counts as read is recorded, unless it was
cut or evicted, and this is claimed of every copy: on disk, with an ingest, and with
a command of the owner between its read and its write.  `Locked`: until a kill, a stolen lock
or an overlapping switch command (a setback), one ingest is past the lock.  `Orderly`
then says that this ingest's checkpoint is the one that goes with the
logs (`Knows`), so a line it takes is not there yet, and the log that retention removes
is the oldest.  Greatest elements of sets of numbers come from the library's
well-founded induction on the natural numbers (`HasLeast`, `MaxLemma`).

**Designs.**  `Verified`: evidence is only of good designs, a promotion past its gate
has evidence for what it installs, and all that is shown or kept to be put back is the
former viewer or verified, the very content that was put into an artifact under a
command (`slipped`), or a torn file for which a kill or an overlap is on record
(`Rightful`); a file being copied is torn in between.  `Alone`: while commands do not
overlap, the one command's copy of the records is what is on disk, it promotes a block
that was never active, and the approval of a block once activated is spent or denied.
`Restorable`: the record of viewers keeps, for an active block, what its promotion
found.

**Sheet sync.**  `ManualSurvives` speaks of the moment of the batch; the
invariant follows a cell from the read to that moment.  `SeenOK`: while a sync is
between read and plan, a cell a person typed, and did not type since, holds what
the sync saw.  `FilesSafe` and `MemorySafe`: a plan that may still be executed, in the
files (homework) or in a process (journal), overwrites no such cell unless the
ledger knew the value.  Every step other than `Read`, `Plan` and `Edit` is
*quiet* (`Quiet`): it changes no cell that still counts as typed, nor a plan not
yet written, so one lemma (`QuietStep`) serves eight actions.  The other way round,
`OwnWritesRecognised` follows what a sync wrote to the ledger that must know it:
a sync alone since its read is `Undisturbed`, its batch and its records bring the ledger
up to the sheet, and without a setback in between (`NoSetback`) every cell nobody typed is
blank or known.  The number of syncs and
cells is arbitrary; in particular any number of syncs may share the output
directory.

**The profile.**  Each part starts in the profile as it does alone, and every step of
the profile is a step of the part or leaves its variables be (`PartsRun`), so an
invariant of a part's own steps is one of `ProfileSpec`.  `ProfileProofs` has the parts
whose promise is about who wrote what when, `ProfileDataProofs`, which builds on it,
those that compute something: study results, templates, privacy and routes.

* *Ledgers written back whole.*  In the tool registry and the goal ledger a command
  saves a copy it loaded earlier, so what is true of the file must be true of every
  copy a command holds: the inductive invariants speak of `proc[p].seen` as of the
  file.  For goals the verdict about to be written is covered as well.
* *Friend messages.*  `Credited`: every index of a checkpoint stands for a part of some
  message that arrived.  `DoneIsBacked`: what a run counts as done is in its checkpoint
  or was sent by it.  Together they give `SpentMeansDelivered`, whose exception (an index
  another message left in the file) is exactly what `Credited` cannot exclude.
  `UnitsAreSent` counts: units plus the parts of the run never exceed the sends.
* *Chats.*  The server's messages only grow, and so do the media files that were whole
  once, some of them opened again since (`spoilt`); so what is backed by them stays so
  (`WhatIsBackedStays`), for the stored history as for the ones commands have loaded.
  Usage plus the commands that have sent and not yet counted never exceed the replies
  sent.  A reply is in the history at most as its own copy and as the server's message
  (`TwoForAReply`).  Assumed: every chat has a name and every name a chat.
* *Uploads.*  A command's plan is the one its checkpoint was made for, or the
  two are `Mixed` and the property says nothing.  `CardPlanOK` and `CardPartOK` say what a
  command has done relative to its plan: parts below its index are sets in the class
  or were checkpointed as such; the set just made is not in the class before it is moved.
* *Google access.*  A token held by a command will be written, so the tokens that are
  one grant's must contain those too, and all that the token file and the temporary one
  hold, also one over the other: such a mixture cannot be read.  `FewFolders` adds, for
  every owner, the folders there are and the commands that found none and are about to
  make one: a command joins them only while there is no folder.
* *Hook ledgers.*  No copy of the counters counts a use nobody made (`HookCountsOK`); the
  size a hook read before it rotates is at most twice the limit, so that the half it
  keeps is within it (`HookCommandOK`), and the lines never exceed the limit by more than
  the hooks killed or yet to measure (`HookLogOK`).  Assumed: the log has room for a line
  of every hook that runs or dies at once (`HooksAssumption`); with less room a rotation
  keeps more lines than the bound allows.
* *Gaps.*  Everybody enrolled when a session was made has a record (`EveryoneHasARecord`);
  the numbers a report has read so far are those of the database unless it was written
  since (`ReportCounts`).
* *The schedule.*  A plan stands in the ledger with the command line it was made of, and an
  approved one is granted (`JobsOK`).  Of the log: its pieces are in the order they were made, in the
  file and in every process (`LogOK`); without kills and overlaps, each run between two
  pieces begins there and the last piece ends the latest run (`QuietOK`).  That
  survives a cut at any character (`Excerpt`) and a further line (`LineAdded`).
* *The journal.*  The lesson a homework is due from is the greatest of a set of days and the
  one it is announced for the least; a day of the same weekday is within any week ahead
  (`InTheWeekAhead`).  Assumed: the lookup goes ahead at least a week (it goes 120 days).
* *Study results.*  The totals are sums over the sessions on record, so the proof needs
  what sums do: a fold over a finite set takes a value (`FoldExists`, by taking the
  least number of elements at which it would not) and one more element adds its summand (`SumAdds`).
  `Explained` says it of every student and word; `WordsAtHand` carries from the lookup
  before the lock to the save that a word listed is in the word list or about to be,
  although other imports are killed or save in between.  Assumed: a file has finitely
  many records, and counts are not negative (`StudyAssumption`; the code takes the maximum with 0).
* *Templates.*  The statements and the metadata are joined, each from its own list of
  lists, by two functions that do not know one another.  They are alike place by
  place (`AlikeJoined`, `AlikeFlattened`) if each step of the template repeats both
  as often.  It does, except where an array is left to a default of another length
  than one: for a run the property makes that exception, a preview has fewer or more
  items than statements then (`LongerFlattened`) and does not go by them.
  Assumed: steps and the shipped template are what `_parse_step` and `_param_schema` accept
  (`TemplateAssumption`).
* *Privacy.*  A text goes through the entries of a list one after the other, in no
  known order.  One entry puts marks where its names are and changes nothing else
  (`Masks`), so a chain of entries does, from the first place of the fold to its last
  (`ApplyMasks`, `PseudonymsHold`).  `Faithful`: a word of a finished text is the one said in
  its place, and a mark there restores to what was said or to nothing.  `MapIsAtHand`: unless commands
  overlapped, one at most is about to save the map, its copy is the file with what it added, and
  the marks of finished texts are in the file.  `OffloadsAreWritten`: a text names an
  offload only after that file was written.  Assumed: nobody says a mark, and a mark
  belongs to one name (`PrivacyAssumption`).
* *Routes.*  Packs are told apart by their order, so a sorted list is what the ranks of
  its packs say (`Ranks`, `OrderedList`).  The index is a fold over that list, and
  `IndexOK` holds of what was kept and dropped at each of its places: within the budget,
  all of the packs seen, and a pack with rules dropped only if it does not fit next to
  those with rules before it. An eviction keeps it because only packs without rules make
  way, the last first (`MakesWay`, `Evicts`): a pack with rules, once kept, stays, so
  one that did not fit next to those before it never will.  Section and catalog show
  beginnings of lists, which are within the budget by the choice of their lengths
  (`BegunIsWithin`, `CutFits`).  Assumed: finitely many shipped packs, of which no two
  have the same id, and sizes and budgets that are natural numbers (`RoutesAssumption`).
* *The memory* assumes that `NoEntry` is not an entry.  *The gate* needs no
  invariant: each of its rules applies to a call that does more if it applies to one
  that does less, and the final rules come before those an approval opens.

Assumed throughout: finitely many commands, and for the gaps finitely many students.

**Model-checked only.**

* Liveness (`NoEndlessBlock`, `CatchesUp`) is out of this prover's reach, as is
  everything that depends on `ENABLED`.

Every other property a run of this project finds to hold is a theorem above.

## 7 Where the code and its documentation disagree

Three runs end in a counterexample on purpose.

1. `approval_lost_update`.  The ledger is loaded whole, changed and renamed into
   place without a lock (`approvals.py:247`).  A command that loaded it before
   another consumed an approval saves it back as approved.
   `plans/codex-desktop-transition-ready-harness-v3-plan.md:156` asks for "a shared
   profile-state lock"; `docs/architecture.md:64` calls approvals "single-use".
2. `outward_send_reuse`.  The approval is consumed after the send returned
   (`gws_handlers.py:373`); a process that dies in between, or a lost answer, leaves
   it approved.  `docs/external-integration-contract.md:20`: "A mistyped recipient or
   a re-run can never reuse an approval."
3. `academy_import_stuck`.  Every import has one plan id and so one approval record,
   which the first import spends.  A plan filed later blocks the closeout, whose
   instruction (`session_closeout.py:153`) then cannot be followed.

The conditions of other properties name weaker promises of the code that no
document contradicts: a backup that misses a run that committed between copy and
lock (`crossed`), a viewer replaced by what was put into an artifact while it was
verified or installed (`slipped`) or torn by a killed copy (`cut`), a backup torn by a
kill (`BackupOneImportOld`), a checkpoint overwritten by an older one of the enable command
(`rolled`), a log that counts lines twice after a kill (`setbacks`), an import merged
twice after a kill (`MergesAccountedFor`), a sync whose own text blocks the next one
after a failure (`setback`).

Other points at which code, comments and documents disagree, or which are worth a
look, met while modelling; no run is about them.

* Registry: `docs/architecture.md:68` calls deprecated terminal; `scaffold_tool` makes a
  draft of any id, deprecated or not (`ScaffoldIn`).
* Approvals: an import's approval covers no particular file, its plan id being
  constant; texts are told apart by their first 60 characters
  (`kakao_handlers.py:325`); a request may be answered with the record of another
  plan of the same slug (`approvals.py:39`).
* Hooks: a stop that passes leaves the block counter as it is (`session_closeout.py:86`), so
  blocks before and after it add up and the first after it may escalate, with the message
  that the reason stood "3회 연속" (three times in a row, `session_closeout.py:98`); in
  `SessionCloseout` only another reason resets the count.  Sessions whose ids agree, or that have none, share one block counter
  (`state.py:189`); a stop blocked for a change of the tool registry is not counted
  (`hook_handlers.py:63`); the transcript's offset is counted on re-encoded text
  (`session_ledger.py:285`).
* Routes: the recovery hint of a truncated index names a command that does not exist
  (`route_packs.py:28`); `_compact_command_index_entry` empties a list that is empty
  already.
* Templates: the engine's metadata looks at the payload as given, the compiled
  statements at the payload with defaults: they part when an array has a default of
  a length other than one.  A template of the profile with the id of a shipped one
  rides on that one's registration.
* Google access: no request checks what scopes a consent left out.
* Redaction: record keys and memory keys are not scrubbed, an entry that is a
  pattern restores to the pattern, half a name at the 4000-character cut stays.
* Schedule: the backend forgets its jobs with the process, so `schedule list`, `status`
  and `remove` find nothing; the log of runs, once cut within a line, reads as empty
  ever after; the job prefix of profile `a` is one of `a_b` too.
* Roster: `session-gaps` looks at the first session of a date only, and the advice
  in `routes/record-class.json:16`, to fill in the missing and apply again, cannot
  help a student enrolled after the session.  A roster without a date leaves out enrollments
  that end in the future and includes those that begin there.
* Journal: the next lesson of a subject is looked up without regard to cancelled
  days, the next lesson of the class with it; labels are compared in one
  place, names in another; a class with no active day ahead announces no homework.
* Outbound plans: the idempotency key contains the month of the start date only.

## 8 What is not modelled

* **Abstracted in modelled components**: wording and rendering, JSON and SQL
  syntax, the patterns of the gate and of redaction, read-only commands (list, show,
  explain, doctor).  Fields no decision depends on are left out.
* **Left out of components that are modelled in part**: generated chat summaries
  and imports of exported chat files, the months of the quota, the live report of
  study results and their intervals in days, the browser scripts, audio and repair of
  direct uploads, what Google does with a request other than a folder, the discovery
  of blocks in the homework sheet and the texts on vocabulary, listening and
  curriculum.  The command line's own `kakao send-friend` stops at the login;
  `FriendSend` models the sequence it would run.
* **Overlap not modelled**: `ProfileMemory` and `ClassCardUpload` take one command at a
  time; what two writers of one JSON file do to one another is in `ApprovalStore`,
  `ToolRegistry`, `GoalLedger` and `ChatHistory`.  The temporary file two writers share
  is modelled in `ApprovalStore` and, for the token, in `Workspace`.
* **No state of their own**: argument parsers, dispatch, doctors, the host context
  (its routes section is in `RoutePacks`, its redaction in `Privacy`), skills, shortcuts.
* **State elsewhere**: browser automation of KakaoTalk and ClassCard and the Google
  requests live in third parties' pages and services; they appear as sends that
  arrive, fail or lose their answer, and as a sheet that takes a batch whole.
* **Side-panel viewer and design tools**: serving, linting and rendering of pages; the
  files they handle are the artifacts of `DesignPromotion`.
* **Installation and hook wiring**: a script that writes files once.
* **Time**: seconds matter in backup names (`WriteAction`) and in the age of a lock
  (`SessionLedger`), and are modelled there; clocks that run backwards are not.

## 9 Plan

Written so far, in the order of importance: what reaches other people or cannot
be undone first (approvals, sends, imports, database writes, sheets), then what
could block or lose the agent's work (closeout, transcript), then the designs, then
the smaller ledgers and side effects (`Profile`).

Next steps:

1. *Compositions.*  `ProfileMemory` as a refinement of the memories `SessionCloseout`
   opens and resolves; `WriteTemplates` feeding `WriteAction`; `LessonJournal` feeding the
   records of `SheetSync`.
2. *Parts under a checkpoint.*  `FriendSend` and `ClassCardUpload` are one algorithm; an
   abstract specification "every part once, of one plan" both implement where
   checkpoint and plan belong together.
3. *Overlap* of two uploads and of two memory commands.
4. *Vocabulary and listening* in the homework sheet, and the months of the quota.

Next theorems: what goes with these steps.  A refinement (1, 2) would be proved as
that of `ApprovalStore` is, by mapping each step; the liveness properties wait
for a prover of `ENABLED`.
