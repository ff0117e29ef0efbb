---------------------------- MODULE AcademyImport ----------------------------
(***************************************************************************)
(* `academy-db import plan/apply` (academy_db_imports.py).  Every import   *)
(* has one and the same plan id and so one approval.  An apply refuses a   *)
(* denied or spent approval, files its plan, asks for the approval or, if  *)
(* it has it, backs the store up, appends the rows to the store, marks the *)
(* plan applied and consumes the approval: one file after another, in a    *)
(* process that may be killed between any two, and within the backup,      *)
(* which is written in place; the other files are replaced by a rename.    *)
(*                                                                         *)
(* A source stands for the rows it holds; merging appends them whether     *)
(* they are there or not, so the store counts how often each was merged.   *)
(***************************************************************************)
EXTENDS Naturals, FiniteSets

CONSTANTS
  Sources,     \* files with rows to import
  ImportPlan,  \* IMPORT_PLAN_ID
  ImportId,    \* approval_id_for(IMPORT_PLAN_ID)
  Teachers, Agent, NoPlan, Nobody,
  Procs,       \* agent processes
  MaxActive,   \* agent commands that run at the same time
  MaxRuns,     \* bound: imports started in all
  MaxKills,    \* bound: imports killed
  NoSource

ASSUME ImportAssumption ==
  /\ Agent \notin Teachers /\ Nobody \notin Teachers /\ NoPlan # ImportPlan
  /\ NoSource \notin Sources
  /\ MaxActive \in Nat /\ MaxRuns \in Nat /\ MaxKills \in Nat

VARIABLES
  ledger, cleared, granted,  \* as in ApprovalLedger
  plan,      \* import-plans.json: its one plan
  store,     \* academy-store.json: how often each source was merged
  backup,    \* backups/latest.json: is it whole, what is it a copy of
  pc, job,   \* per process: what it does next, the source it imports
  given,     \* per process: was the approval id passed
  snapshot,  \* per process: the store it read, to copy or to extend
  runs, kills,
  merges,    \* history: merges written
  overlap    \* history: two commands ran at the same time

ledgerVars == <<ledger, cleared, granted>>
vars == <<ledgerVars, plan, store, backup, pc, job, given, snapshot, runs, kills, merges, overlap>>

L == INSTANCE ApprovalLedger
       WITH Plans <- {ImportPlan}, ApprovalIds <- {ImportId}, IdOf <- [x \in {ImportPlan} |-> ImportId]

NoImportPlan == [status |-> "NONE", source |-> NoSource]
Stores == [Sources -> 0..MaxRuns]
EmptyStore == [s \in Sources |-> 0]
Active == {p \in Procs : pc[p] # "idle"}
Goto(p, step) == pc' = [pc EXCEPT ![p] = step]
Status(status) == L!HasStatus(ledger, ImportId, ImportPlan, status)

-----------------------------------------------------------------------------
Init ==
  /\ L!Init
  /\ plan = NoImportPlan
  /\ store = EmptyStore /\ backup = [whole |-> FALSE, of |-> EmptyStore]
  /\ pc = [p \in Procs |-> "idle"]
  /\ job = [p \in Procs |-> NoSource]
  /\ given = [p \in Procs |-> FALSE]
  /\ snapshot = [p \in Procs |-> EmptyStore]
  /\ runs = 0 /\ kills = 0 /\ merges = 0
  /\ overlap = FALSE

\* `import plan`: files the plan and does not look at the approval.
PlanImport(s) ==
  /\ Cardinality(Active) < MaxActive
  /\ plan' = [status |-> "NEEDS_APPROVAL", source |-> s]
  /\ overlap' = (overlap \/ Active # {})
  /\ UNCHANGED <<ledgerVars, store, backup, pc, job, given, snapshot, runs, kills, merges>>

\* `backup create`, a command without a source.
CreateBackup(p) ==
  /\ pc[p] = "idle" /\ Cardinality(Active) < MaxActive
  /\ Goto(p, "backup")
  /\ job' = [job EXCEPT ![p] = NoSource]
  /\ overlap' = (overlap \/ Active # {})
  /\ UNCHANGED <<ledgerVars, plan, store, backup, given, snapshot, runs, kills, merges>>

StartApply(p, s, withId) ==
  /\ pc[p] = "idle" /\ Cardinality(Active) < MaxActive /\ runs < MaxRuns
  /\ Goto(p, "unavailable?")
  /\ job' = [job EXCEPT ![p] = s]
  /\ given' = [given EXCEPT ![p] = withId]
  /\ runs' = runs + 1
  /\ overlap' = (overlap \/ Active # {})
  /\ UNCHANGED <<ledgerVars, plan, store, backup, snapshot, kills, merges>>

Unavailable(p) == Status("denied") \/ Status("consumed")

CheckUnavailable(p) ==
  /\ pc[p] = "unavailable?"
  /\ Goto(p, IF Unavailable(p) THEN "idle" ELSE "persist")
  /\ UNCHANGED <<ledgerVars, plan, store, backup, job, given, snapshot, runs, kills, merges, overlap>>

\* A bug to be caught: the plan on file stays that of an earlier source.
PersistFirst(p) ==
  /\ pc[p] = "persist"
  /\ plan' = [status |-> "NEEDS_APPROVAL",
              source |-> IF plan = NoImportPlan THEN job[p] ELSE plan.source]
  /\ Goto(p, "approved?")
  /\ UNCHANGED <<ledgerVars, store, backup, job, given, snapshot, runs, kills, merges, overlap>>

Persist(p) ==
  /\ pc[p] = "persist"
  /\ plan' = [status |-> "NEEDS_APPROVAL", source |-> job[p]]
  /\ Goto(p, "approved?")
  /\ UNCHANGED <<ledgerVars, store, backup, job, given, snapshot, runs, kills, merges, overlap>>

CheckApproved(p) ==
  /\ pc[p] = "approved?"
  /\ IF given[p] /\ Status("approved")
     THEN L!Clear(ImportId, ImportPlan) /\ Goto(p, "backup")
     ELSE Goto(p, "ensure") /\ UNCHANGED ledgerVars
  /\ UNCHANGED <<plan, store, backup, job, given, snapshot, runs, kills, merges, overlap>>

\* NEEDS_APPROVAL; what the trace and the audit record say is left out.
Ensure(p) ==
  /\ pc[p] = "ensure"
  /\ L!EnsureRequest(ImportPlan)
  /\ Goto(p, "idle")
  /\ UNCHANGED <<plan, store, backup, job, given, snapshot, runs, kills, merges, overlap>>

\* A bug to be caught: a backup that is there is kept.
BackUpOnce(p) ==
  /\ pc[p] = "backup"
  /\ snapshot' = [snapshot EXCEPT ![p] = store]
  /\ Goto(p, IF backup.whole THEN "read" ELSE "copy")
  /\ UNCHANGED <<ledgerVars, plan, store, backup, job, given, runs, kills, merges, overlap>>

\* write_text(read_text()): the store is read, and opening the old backup for
\* writing empties it.
BackUp(p) ==
  /\ pc[p] = "backup"
  /\ snapshot' = [snapshot EXCEPT ![p] = store]
  /\ backup' = [backup EXCEPT !.whole = FALSE]
  /\ Goto(p, "copy")
  /\ UNCHANGED <<ledgerVars, plan, store, job, given, runs, kills, merges, overlap>>

\* If another command has completed its copy meanwhile, a longer one, its end
\* stays behind this one's.
FillBackup(p) ==
  /\ pc[p] = "copy"
  /\ \E whole \in {TRUE, ~backup.whole} : backup' = [whole |-> whole, of |-> snapshot[p]]
  /\ Goto(p, IF job[p] = NoSource THEN "idle" ELSE "read")
  /\ UNCHANGED <<ledgerVars, plan, store, job, given, snapshot, runs, kills, merges, overlap>>

ReadStore(p) ==
  /\ pc[p] = "read"
  /\ snapshot' = [snapshot EXCEPT ![p] = store]
  /\ Goto(p, "merge")
  /\ UNCHANGED <<ledgerVars, plan, store, backup, job, given, runs, kills, merges, overlap>>

\* The extended lists replace the file, whatever it holds by now.
Merge(p) ==
  /\ pc[p] = "merge"
  /\ store' = [snapshot[p] EXCEPT ![job[p]] = @ + 1]
  /\ merges' = merges + 1
  /\ Goto(p, "mark")
  /\ UNCHANGED <<ledgerVars, plan, backup, job, given, snapshot, runs, kills, overlap>>

\* _mark_import_plan_applied marks the plan on file, which has the same id.
Mark(p) ==
  /\ pc[p] = "mark"
  /\ plan' = [plan EXCEPT !.status = "APPLIED"]
  /\ Goto(p, "consume")
  /\ UNCHANGED <<ledgerVars, store, backup, job, given, snapshot, runs, kills, merges, overlap>>

\* A bug to be caught: the approval is not consumed.
ConsumeForgotten(p) ==
  /\ pc[p] = "consume"
  /\ Goto(p, "idle")
  /\ UNCHANGED <<ledgerVars, plan, store, backup, job, given, snapshot, runs, kills, merges, overlap>>

Consume(p) ==
  /\ pc[p] = "consume"
  /\ L!Consume(ImportId, ImportPlan)
  /\ Goto(p, "idle")
  /\ UNCHANGED <<plan, store, backup, job, given, snapshot, runs, kills, merges, overlap>>

Kill(p) ==
  /\ pc[p] # "idle" /\ kills < MaxKills
  /\ kills' = kills + 1
  /\ Goto(p, "idle")
  /\ UNCHANGED <<ledgerVars, plan, store, backup, job, given, snapshot, runs, merges, overlap>>

Decide(actor) ==
  /\ L!Approve(ImportId, actor) \/ L!Deny(ImportId, actor)
  /\ UNCHANGED <<plan, store, backup, pc, job, given, snapshot, runs, kills, merges, overlap>>

Next ==
  \/ \E s \in Sources : PlanImport(s)
  \/ \E p \in Procs :
       \/ \E s \in Sources, withId \in BOOLEAN : StartApply(p, s, withId)
       \/ CheckUnavailable(p) \/ Persist(p) \/ CheckApproved(p) \/ Ensure(p)
       \/ CreateBackup(p) \/ BackUp(p) \/ FillBackup(p) \/ ReadStore(p) \/ Merge(p) \/ Mark(p) \/ Consume(p) \/ Kill(p)
  \/ \E actor \in L!Actors : Decide(actor)

Spec == Init /\ [][Next]_vars

-----------------------------------------------------------------------------
\* unapplied_import_plan_ids: what session closeout blocks on.
Unapplied == plan.status = "NEEDS_APPROVAL" /\ ~Status("denied")

(* The files, the processes and what they did so far.                      *)
TypeOK ==
  /\ L!TypeOK
  /\ plan \in [status : {"NONE", "NEEDS_APPROVAL", "APPLIED"}, source : Sources \cup {NoSource}]
  /\ store \in Stores /\ backup \in [whole : BOOLEAN, of : Stores]
  /\ pc \in [Procs -> {"idle", "unavailable?", "persist", "approved?", "ensure",
                       "backup", "copy", "read", "merge", "mark", "consume"}]
  /\ job \in [Procs -> Sources \cup {NoSource}] /\ given \in [Procs -> BOOLEAN]
  /\ snapshot \in [Procs -> Stores]
  /\ runs \in 0..MaxRuns /\ kills \in 0..MaxKills /\ merges \in 0..MaxRuns
  /\ overlap \in BOOLEAN

(* As long as no two commands overlap, a plan on file as APPLIED, which no *)
(* longer blocks the session, is one whose own rows are in the store,      *)
(* though every plan has the same id (_mark_import_plan_applied).          *)
AppliedMeansMerged == ~overlap /\ plan.status = "APPLIED" => store[plan.source] > 0

\* What a process that has made its backup did to the store since.
Since(p) ==
  IF pc[p] \in {"read", "merge"} THEN store = backup.of
  ELSE store = [backup.of EXCEPT ![job[p]] = @ + 1]

(* As long as no two commands overlap, what an import does to the store    *)
(* can be undone when it is killed: from before it merges until it is      *)
(* done the backup is whole and lacks its rows only.  A whole backup is    *)
(* never more than one import old.  There is none, once something was      *)
(* merged, only while one is written or after a kill: it is written over   *)
(* the last one in place (create_backup).                                  *)
BackupOneImportOld ==
  ~overlap =>
    /\ \A p \in Procs :
         pc[p] \in {"read", "merge", "mark", "consume"} => backup.whole /\ Since(p)
    /\ backup.whole =>
         store = backup.of \/ \E s \in Sources : store = [backup.of EXCEPT ![s] = @ + 1]
    /\ ~backup.whole => merges = 0 \/ kills > 0 \/ \E p \in Procs : pc[p] = "copy"

(* No learner, class or lesson gets into the store without a teacher's     *)
(* grant, whatever runs beside the import; and as long as no two commands  *)
(* overlap, one approval is one merge, and one more for each import killed *)
(* between merging and consuming: that is how rows get into the store      *)
(* twice (PRD.md: approvals are single-use).                               *)
MergesAccountedFor ==
  /\ merges > 0 => ImportId \in granted
  /\ ~overlap => merges <= kills + 1

(* The reply of the closeout: approve, then `academy-db import apply`; so  *)
(* while a plan blocks, its approval must still be possible.               *)
BlockCanBeResolved == Unapplied => ~Status("consumed")
=============================================================================
