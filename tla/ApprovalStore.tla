---------------------------- MODULE ApprovalStore ----------------------------
(***************************************************************************)
(* How the approval ledger is kept: every CLI command is a process of its  *)
(* own that reads approvals.json into memory, changes the list, writes the *)
(* whole list to approvals.json.tmp and renames that file over             *)
(* approvals.json (_load_records, _save_records in approvals.py).  There   *)
(* is no lock and the temporary name is the same for every process.        *)
(*                                                                         *)
(* A file's contents is a ledger value, Torn (opened for writing, not yet  *)
(* written) or Missing.  A rename moves the file itself: a process that    *)
(* still has it open then writes to approvals.json directly.  Windows      *)
(* refuses to rename a file another process has open, POSIX does not.      *)
(***************************************************************************)
EXTENDS Naturals, FiniteSets

CONSTANTS
  Plans, ApprovalIds, IdOf, Teachers, Agent, NoPlan, Nobody,
  Procs,             \* operating-system processes
  MaxActive,         \* commands that run at the same time
  MaxCommands,       \* bound: commands started in all
  ReplaceWhileOpen,  \* the platform renames a file that is open elsewhere
  Torn, Missing, NoCommand

ASSUME StoreAssumption ==
  /\ IdOf \in [Plans -> ApprovalIds]
  /\ MaxActive \in Nat /\ MaxCommands \in Nat
  /\ ReplaceWhileOpen \in BOOLEAN

VARIABLES
  file,     \* approvals.json
  tmp,      \* approvals.json.tmp
  pc,       \* per process: what it does next
  cmd,      \* per process: the command it runs
  snap,     \* per process: the list in memory
  handle,   \* per process: the file it holds open for writing
  started,  \* commands started so far
  overlap,  \* history: two commands ran at the same time
  typed,    \* history: ids a teacher typed into an accepted approve
  cleared,  \* history: <<id, plan>> pairs some command read as approved
  granted   \* history: ids whose approval reached the disk

vars == <<file, tmp, pc, cmd, snap, handle, started, overlap, typed, cleared, granted>>

Parsed(contents) ==
  IF contents \in {Torn, Missing}
  THEN [id \in ApprovalIds |-> [status |-> "absent", plan |-> NoPlan, by |-> Nobody]]
  ELSE contents

L == INSTANCE ApprovalLedger WITH ledger <- Parsed(file)

ASSUME FileAssumption == Torn \notin L!Ledger /\ Missing \notin L!Ledger

Command ==
  [op : {"ensure", "approve", "deny", "check", "consume"},
   id : ApprovalIds, plan : Plans, actor : L!Actors]

\* The commands that make sense of their four fields.  An approval is only
\* consumed by a command that read it as approved.
Runnable ==
  {c \in Command :
     /\ c.op = "ensure" => c.id = IdOf[c.plan]
     /\ c.op \in {"ensure", "check", "consume"} => c.actor = Agent
     /\ c.op \in {"approve", "deny"} => c.plan = CHOOSE plan \in Plans : TRUE
     /\ c.op = "consume" => <<c.id, c.plan>> \in cleared}

Active == {p \in Procs : pc[p] # "idle"}

-----------------------------------------------------------------------------
Init ==
  /\ file = Missing /\ tmp = Missing
  /\ pc = [p \in Procs |-> "idle"]
  /\ cmd = [p \in Procs |-> NoCommand]
  /\ snap = [p \in Procs |-> Missing]
  /\ handle = [p \in Procs |-> "none"]
  /\ started = 0 /\ overlap = FALSE
  /\ typed = {} /\ cleared = {} /\ granted = {}

\* Process p exits: normally, with an error reply, or killed.
Exits(p) ==
  /\ pc' = [pc EXCEPT ![p] = "idle"]
  /\ cmd' = [cmd EXCEPT ![p] = NoCommand]
  /\ snap' = [snap EXCEPT ![p] = Missing]

Start(p) ==
  /\ pc[p] = "idle"
  /\ Cardinality(Active) < MaxActive
  /\ started < MaxCommands
  /\ \E c \in Runnable : cmd' = [cmd EXCEPT ![p] = c]
  /\ pc' = [pc EXCEPT ![p] = "load"]
  /\ started' = started + 1
  /\ overlap' = (overlap \/ Active # {})
  /\ UNCHANGED <<file, tmp, snap, handle, typed, cleared, granted>>

TypedBy(c) == IF c.op = "approve" /\ c.actor \in Teachers THEN {c.id} ELSE {}

\* A bug to be caught: the agent is not turned away.
AcceptsAnyActor(recs, c) ==
  CASE c.op = "approve" -> L!Exists(recs, c.id) /\ recs[c.id].status # "consumed"
    [] c.op = "deny" -> L!Exists(recs, c.id)
    [] OTHER -> TRUE

\* The command found what it needs in the records it loaded.
Accepts(recs, c) ==
  CASE c.op = "approve" -> L!MayApprove(recs, c.id, c.actor)
    [] c.op = "deny" -> L!Exists(recs, c.id)
    [] OTHER -> TRUE

Updated(recs, c) ==
  CASE c.op = "ensure" -> L!EnsureIn(recs, c.plan)
    [] c.op = "approve" -> L!ApproveIn(recs, c.id, c.actor)
    [] c.op = "deny" -> L!DenyIn(recs, c.id, c.actor)
    [] c.op = "consume" -> L!ConsumeIn(recs, c.id, c.plan)

\* approval_is_approved: a read, and the gated command goes on if it holds.
Check(p) ==
  /\ pc[p] = "load" /\ cmd[p].op = "check"
  /\ cleared' = IF L!HasStatus(Parsed(file), cmd[p].id, cmd[p].plan, "approved")
                THEN cleared \cup {<<cmd[p].id, cmd[p].plan>>}
                ELSE cleared
  /\ Exits(p)
  /\ UNCHANGED <<file, tmp, handle, started, overlap, typed, granted>>

\* _load_records and the change to the list; error replies save nothing.
Load(p) ==
  /\ pc[p] = "load" /\ cmd[p].op # "check"
  /\ IF Accepts(Parsed(file), cmd[p])
     THEN /\ snap' = [snap EXCEPT ![p] = Updated(Parsed(file), cmd[p])]
          /\ pc' = [pc EXCEPT ![p] = "open"]
          /\ typed' = typed \cup TypedBy(cmd[p])
          /\ UNCHANGED cmd
     ELSE Exits(p) /\ UNCHANGED typed
  /\ UNCHANGED <<file, tmp, handle, started, overlap, cleared, granted>>

\* A bug to be caught: approvals.json itself is opened and rewritten.
OpenInPlace(p) ==
  /\ pc[p] = "open"
  /\ file' = Torn
  /\ handle' = [handle EXCEPT ![p] = "file"]
  /\ pc' = [pc EXCEPT ![p] = "write"]
  /\ UNCHANGED <<tmp, cmd, snap, started, overlap, typed, cleared, granted>>

\* write_text opens the temporary file, which truncates it ...
OpenTmp(p) ==
  /\ pc[p] = "open"
  /\ tmp' = Torn
  /\ handle' = [handle EXCEPT ![p] = "tmp"]
  /\ pc' = [pc EXCEPT ![p] = "write"]
  /\ UNCHANGED <<file, cmd, snap, started, overlap, typed, cleared, granted>>

\* ... and writes the list to the file it opened, wherever that is now.
WriteTmp(p) ==
  /\ pc[p] = "write"
  /\ tmp' = IF handle[p] = "tmp" THEN snap[p] ELSE tmp
  /\ file' = IF handle[p] = "file" THEN snap[p] ELSE file
  /\ handle' = [handle EXCEPT ![p] = "none"]
  /\ pc' = [pc EXCEPT ![p] = "replace"]
  /\ UNCHANGED <<cmd, snap, started, overlap, typed, cleared, granted>>

CanReplace ==
  /\ tmp # Missing
  /\ ReplaceWhileOpen \/ \A q \in Procs : handle[q] # "tmp"

\* The rename; if the temporary file is gone or busy the command dies of it.
Replace(p) ==
  /\ pc[p] = "replace"
  /\ IF CanReplace
     THEN /\ file' = tmp
          /\ tmp' = Missing
          /\ handle' = [q \in Procs |-> CASE handle[q] = "tmp" -> "file"
                                          [] handle[q] = "file" -> "orphan"
                                          [] OTHER -> handle[q]]
          /\ granted' = granted \cup TypedBy(cmd[p])
     ELSE UNCHANGED <<file, tmp, handle, granted>>
  /\ Exits(p)
  /\ UNCHANGED <<started, overlap, typed, cleared>>

\* The process is killed, or its machine stops, between two steps.
Crash(p) ==
  /\ pc[p] # "idle"
  /\ handle' = [handle EXCEPT ![p] = "none"]
  /\ Exits(p)
  /\ UNCHANGED <<file, tmp, started, overlap, typed, cleared, granted>>

Next ==
  \E p \in Procs :
    \/ Start(p) \/ Check(p) \/ Load(p)
    \/ OpenTmp(p) \/ WriteTmp(p) \/ Replace(p)
    \/ Crash(p)

Spec == Init /\ [][Next]_vars

-----------------------------------------------------------------------------
Contents == L!Ledger \cup {Torn, Missing}

(* Files hold a ledger or nothing readable; processes are between the      *)
(* steps of _save_records.                                                 *)
TypeOK ==
  /\ file \in Contents /\ tmp \in Contents
  /\ pc \in [Procs -> {"idle", "load", "open", "write", "replace"}]
  /\ \A p \in Procs : cmd[p] = NoCommand \/ cmd[p] \in Command
  /\ snap \in [Procs -> Contents]
  /\ handle \in [Procs -> {"none", "tmp", "file", "orphan"}]
  /\ started \in 0..MaxCommands /\ overlap \in BOOLEAN
  /\ cleared \subseteq ApprovalIds \X Plans
  /\ typed \subseteq ApprovalIds /\ granted \subseteq ApprovalIds

(* As long as no two commands overlap, the files implement the atomic      *)
(* ledger, whenever a process is killed: a command's change is on the disk *)
(* in full or not at all (tmp_path.replace).                               *)
ImplementsLedger == L!Init /\ [][L!Next \/ overlap']_(L!vars)

(* No overlap of commands makes up an approval: what is approved or        *)
(* consumed on the disk, a teacher typed (approve_request).                *)
UsedOnlyIfTyped ==
  \A id \in ApprovalIds : Parsed(file)[id].status \in {"approved", "consumed"} => id \in typed

(* A spent approval stays spent.  architecture.md: "single-use".           *)
ConsumedStaysConsumed ==
  [][\A id \in ApprovalIds :
       Parsed(file)[id].status = "consumed" => Parsed(file')[id].status # "approved"]_vars
=============================================================================
