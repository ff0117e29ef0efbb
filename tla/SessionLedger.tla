---------------------------- MODULE SessionLedger ----------------------------
(***************************************************************************)
(* The session transcript ledger (session_ledger.py).  The host appends    *)
(* lines to one rollout file per session; ingest processes, started at the *)
(* end of every turn and at every session start, copy the new lines into   *)
(* one log per session and then write the checkpoint of all of them.  They *)
(* exclude each other by a lock file; one that is 120 seconds old counts   *)
(* as left behind.  The owner may opt out and in again at any time.        *)
(*                                                                         *)
(* Lines are numbered by the time the host wrote them: the t-th line of    *)
(* all belongs to the session lines[t].  A checkpoint is the number of the *)
(* last line read, and so is the time of a session's last activity.        *)
(***************************************************************************)
EXTENDS Naturals, Sequences, FiniteSets, FiniteSetsExt

CONSTANTS
  Sessions,   \* sessions of the host, one rollout and one log each
  Ingests,    \* ingest processes that may run at the same time
  LineBudget, \* INGEST_MAX_LINES_PER_RUN
  FileCap,    \* SESSION_FILE_MAX_BYTES, in lines
  FileLimit,  \* MAX_SESSION_FILES
  MaxLines, MaxTrouble  \* bounds: lines; setbacks and commands of the owner

ASSUME LedgerAssumption ==
  /\ LineBudget \in Nat \ {0} /\ FileCap \in Nat \ {0} /\ FileLimit \in Nat \ {0}
  /\ MaxLines \in Nat /\ MaxTrouble \in Nat

VARIABLES
  lines,    \* the rollouts, merged in the order of writing
  archived, \* sessions whose rollout the host has moved away
  copies,   \* per line, how often it stands in its session's log
  disk,     \* _ingest-state.json: on, offset, last activity, truncated
  lock,     \* _ingest.lock: "none", "fresh" or "stale"
  pc, mem, todo, budget,  \* per ingest: its next step, its copy of the
                          \* checkpoint, the rollouts to read with the
                          \* times they are sorted by, lines left
  toggle,   \* the enable or disable command under way and what it read
  setbacks, toggles,
  evicted,  \* history: sessions whose log retention has removed
  wish,     \* history: what the owner last asked for
  crossed,  \* history: an ingest was under way when the owner asked
  rolled    \* history: that command wrote over a newer checkpoint

local == <<pc, mem, todo, budget>>
history == <<evicted, wish, crossed, rolled>>
vars == <<lines, archived, copies, disk, lock, local, toggle, setbacks, toggles, history>>

Times == 1..MaxLines
LinesOf(s) == {t \in DOMAIN lines : lines[t] = s}
LogOf(s) == {t \in LinesOf(s) : copies[t] > 0}
LastLine(s) == IF LinesOf(s) = {} THEN 0 ELSE Max(LinesOf(s))
IsFull(s) == FoldSet(LAMBDA t, n : n + copies[t], 0, LinesOf(s)) >= FileCap
Present == {s \in Sessions \ archived : LinesOf(s) # {}}
Checkpoints == [on : BOOLEAN, at : [Sessions -> 0..MaxLines],
                last : [Sessions -> 0..MaxLines], cut : [Sessions -> BOOLEAN]]
Empty == [on |-> TRUE, at |-> [s \in Sessions |-> 0],
          last |-> [s \in Sessions |-> 0], cut |-> [s \in Sessions |-> FALSE]]
None == [wants |-> FALSE, read |-> Empty, open |-> FALSE]
Inside(p) == pc[p] \in {"load", "files", "commit", "release"}
Running(p) == pc[p] # "idle"

-----------------------------------------------------------------------------
Init ==
  /\ lines = <<>> /\ archived = {} /\ copies = [t \in Times |-> 0]
  /\ disk = Empty /\ lock = "none" /\ toggle = None
  /\ pc = [p \in Ingests |-> "idle"] /\ mem = [p \in Ingests |-> Empty]
  /\ todo = [p \in Ingests |-> {}] /\ budget = [p \in Ingests |-> 0]
  /\ setbacks = 0 /\ toggles = 0
  /\ evicted = {} /\ wish = TRUE /\ crossed = FALSE /\ rolled = FALSE

\* The host completes a line.
HostWrites(s) ==
  /\ s \notin archived /\ Len(lines) < MaxLines
  /\ lines' = Append(lines, s)
  /\ UNCHANGED <<archived, copies, disk, lock, local, toggle, setbacks, toggles, history>>

\* The host moves a rollout out of the sessions directory, or back.
HostArchives(s) ==
  /\ s \in Present /\ setbacks + toggles < MaxTrouble
  /\ archived' = archived \cup {s} /\ setbacks' = setbacks + 1
  /\ UNCHANGED <<lines, copies, disk, lock, local, toggle, toggles, history>>
HostRestores(s) ==
  /\ s \in archived
  /\ archived' = archived \ {s}
  /\ UNCHANGED <<lines, copies, disk, lock, local, toggle, setbacks, toggles, history>>

\* set_enabled reads the whole checkpoint, and writes all of it back.
ToggleReads(on) ==
  /\ ~toggle.open /\ setbacks + toggles < MaxTrouble
  /\ toggle' = [wants |-> on, read |-> disk, open |-> TRUE]
  /\ toggles' = toggles + 1
  /\ crossed' = \E p \in Ingests : Running(p)
  /\ UNCHANGED <<lines, archived, copies, disk, lock, local, setbacks, evicted, wish, rolled>>
ToggleWrites ==
  /\ toggle.open
  /\ disk' = [toggle.read EXCEPT !.on = toggle.wants]
  /\ toggle' = None
  /\ wish' = toggle.wants
  /\ crossed' = (crossed \/ \E p \in Ingests : Running(p))
  /\ rolled' = (rolled \/ disk # toggle.read)
  /\ UNCHANGED <<lines, archived, copies, lock, local, setbacks, toggles, evicted>>

-----------------------------------------------------------------------------
Goto(p, step) == pc' = [pc EXCEPT ![p] = step]
Forget(p) ==
  /\ mem' = [mem EXCEPT ![p] = Empty]
  /\ todo' = [todo EXCEPT ![p] = {}] /\ budget' = [budget EXCEPT ![p] = 0]
Leave(p) == Goto(p, "idle") /\ Forget(p)

\* A bug to be caught: the switch is not looked at.
StartAlways(p) ==
  /\ pc[p] = "idle"
  /\ Goto(p, "lock")
  /\ crossed' = (crossed \/ toggle.open)
  /\ UNCHANGED <<lines, archived, copies, disk, lock, mem, todo, budget, toggle,
                 setbacks, toggles, evicted, wish, rolled>>

\* A trigger fires: is_enabled is looked at before the lock is taken.
Start(p) ==
  /\ pc[p] = "idle" /\ disk.on
  /\ Goto(p, "lock")
  /\ crossed' = (crossed \/ toggle.open)
  /\ UNCHANGED <<lines, archived, copies, disk, lock, mem, todo, budget, toggle,
                 setbacks, toggles, evicted, wish, rolled>>

\* A bug to be caught: an existing lock does not keep the process out.
TryLockAlways(p) ==
  /\ pc[p] = "lock"
  /\ lock' = "fresh" /\ Goto(p, "load") /\ UNCHANGED <<mem, todo, budget>>
  /\ UNCHANGED <<lines, archived, copies, disk, toggle, setbacks, toggles, history>>

\* A bug to be caught: a lock that was left behind stays.
TryLockPlain(p) ==
  /\ pc[p] = "lock"
  /\ \/ lock = "none" /\ lock' = "fresh" /\ Goto(p, "load") /\ UNCHANGED <<mem, todo, budget>>
     \/ lock # "none" /\ Leave(p) /\ UNCHANGED lock
  /\ UNCHANGED <<lines, archived, copies, disk, toggle, setbacks, toggles, history>>

\* _acquire_lock: exclusive create; a stale lock is removed and tried again.
TryLock(p) ==
  /\ pc[p] = "lock"
  /\ \/ lock = "none" /\ lock' = "fresh" /\ Goto(p, "load") /\ UNCHANGED <<mem, todo, budget>>
     \/ lock = "fresh" /\ Leave(p) /\ UNCHANGED lock
     \/ lock = "stale" /\ Goto(p, "unlink") /\ UNCHANGED <<lock, mem, todo, budget>>
  /\ UNCHANGED <<lines, archived, copies, disk, toggle, setbacks, toggles, history>>
Unlink(p) ==
  /\ pc[p] = "unlink"
  /\ lock' = "none" /\ Goto(p, "retry")
  /\ UNCHANGED <<lines, archived, copies, disk, mem, todo, budget, toggle, setbacks, toggles, history>>
Retry(p) ==
  /\ pc[p] = "retry"
  /\ IF lock = "none"
     THEN lock' = "fresh" /\ Goto(p, "load") /\ UNCHANGED <<mem, todo, budget>>
     ELSE Leave(p) /\ UNCHANGED lock
  /\ UNCHANGED <<lines, archived, copies, disk, toggle, setbacks, toggles, history>>

\* The checkpoint is read; offsets of rollouts that are gone are dropped.
Load(p) ==
  /\ pc[p] = "load"
  /\ mem' = [mem EXCEPT ![p] =
       [disk EXCEPT !.at = [s \in Sessions |-> IF s \in Present THEN disk.at[s] ELSE 0]]]
  /\ todo' = [todo EXCEPT ![p] = {<<s, LastLine(s)>> : s \in Present}]
  /\ budget' = [budget EXCEPT ![p] = LineBudget]
  /\ Goto(p, "files")
  /\ UNCHANGED <<lines, archived, copies, disk, lock, toggle, setbacks, toggles, history>>

\* The rollout that was the newest of those left when they were sorted.
Newest(files) == {f \in files : \A g \in files : g[2] <= f[2]}
NewLines(s, at) == {t \in LinesOf(s) : t > at}
FirstLines(T, n) ==
  {F \in SUBSET T : /\ Cardinality(F) = Min({n, Cardinality(T)})
                    /\ \A t \in F, u \in T \ F : t < u}

\* A bug to be caught: the first activity ranks a session.
ObserveFirst(m, s, took) ==
  IF took = {} THEN m
  ELSE [on |-> m.on, at |-> [m.at EXCEPT ![s] = Max(took)],
        last |-> [m.last EXCEPT ![s] = IF @ = 0 THEN Min(took) ELSE @],
        cut |-> [m.cut EXCEPT ![s] = @ \/ IsFull(s)]]

\* The session's new offset, last activity and truncation.
Observe(m, s, took) ==
  IF took = {} THEN m
  ELSE [on |-> m.on, at |-> [m.at EXCEPT ![s] = Max(took)],
        last |-> [m.last EXCEPT ![s] = Max(took)],
        cut |-> [m.cut EXCEPT ![s] = @ \/ IsFull(s)]]

\* _ingest_one_file: a full log takes no more, and its lines count as read.
IngestFile(p) ==
  /\ pc[p] = "files" /\ todo[p] # {} /\ budget[p] > 0
  /\ \E file \in Newest(todo[p]) :
     LET s == file[1] IN
     \E took \in FirstLines(NewLines(s, mem[p].at[s]), budget[p]) :
       /\ copies' = IF IsFull(s) THEN copies
                    ELSE [t \in Times |-> IF t \in took THEN copies[t] + 1 ELSE copies[t]]
       /\ mem' = [mem EXCEPT ![p] = Observe(@, s, took)]
       /\ budget' = [budget EXCEPT ![p] = @ - Cardinality(took)]
       /\ todo' = [todo EXCEPT ![p] = @ \ {file}]
  /\ UNCHANGED <<lines, archived, disk, lock, pc, toggle, setbacks, toggles, history>>

\* A log or the rollout cannot be accessed: the run ends without a checkpoint.
IngestFails(p) ==
  /\ pc[p] = "files" /\ todo[p] # {} /\ budget[p] > 0 /\ setbacks + toggles < MaxTrouble
  /\ setbacks' = setbacks + 1
  /\ Goto(p, "release") /\ Forget(p)
  /\ UNCHANGED <<lines, archived, copies, disk, lock, toggle, toggles, history>>

\* Sessions whose logs retention may remove: the least recently active ones.
Surplus(m) ==
  LET logs == {s \in Sessions : LogOf(s) # {}} IN
  {gone \in SUBSET logs :
     /\ Cardinality(logs \ gone) = Min({Cardinality(logs), FileLimit})
     /\ \A g \in gone, k \in logs \ gone : m.last[g] <= m.last[k]}

\* _prune_retention, after the last rollout the budget allows.
Prune(p) ==
  /\ pc[p] = "files" /\ (todo[p] = {} \/ budget[p] = 0)
  /\ \E gone \in Surplus(mem[p]) :
       /\ copies' = [t \in Times |->
            IF t \in DOMAIN lines /\ lines[t] \in gone THEN 0 ELSE copies[t]]
       /\ mem' = [mem EXCEPT ![p] =
            [on |-> @.on, at |-> @.at,
             last |-> [s \in Sessions |-> IF s \in gone THEN 0 ELSE @.last[s]],
             cut |-> [s \in Sessions |-> s \notin gone /\ @.cut[s]]]]
       /\ evicted' = evicted \cup gone
  /\ todo' = [todo EXCEPT ![p] = {}] /\ budget' = [budget EXCEPT ![p] = 0]
  /\ Goto(p, "commit")
  /\ UNCHANGED <<lines, archived, disk, lock, toggle, setbacks, toggles, wish, crossed, rolled>>

\* The checkpoint is written, and the ledger is on.
Commit(p) ==
  /\ pc[p] = "commit"
  /\ disk' = [mem[p] EXCEPT !.on = TRUE]
  /\ Goto(p, "release") /\ Forget(p)
  /\ UNCHANGED <<lines, archived, copies, lock, toggle, setbacks, toggles, history>>

\* _release_lock removes whatever lock is there.
Release(p) ==
  /\ pc[p] = "release"
  /\ lock' = "none"
  /\ Goto(p, "idle")
  /\ UNCHANGED <<lines, archived, copies, disk, mem, todo, budget, toggle, setbacks, toggles, history>>

\* A process is killed; 120 seconds pass, whether its owner lives or not.
Kill(p) ==
  /\ Running(p) /\ setbacks + toggles < MaxTrouble
  /\ setbacks' = setbacks + 1
  /\ Leave(p)
  /\ UNCHANGED <<lines, archived, copies, disk, lock, toggle, toggles, history>>
Abandoned == lock = "fresh" /\ \A p \in Ingests : ~Inside(p)
GrowsStale ==
  /\ lock = "fresh" /\ (Abandoned \/ setbacks + toggles < MaxTrouble)
  /\ lock' = "stale"
  /\ setbacks' = IF Abandoned THEN setbacks ELSE setbacks + 1
  /\ UNCHANGED <<lines, archived, copies, disk, local, toggle, toggles, history>>

Step(p) ==
  \/ TryLock(p) \/ Unlink(p) \/ Retry(p) \/ Load(p) \/ IngestFile(p)
  \/ Prune(p) \/ Commit(p) \/ Release(p)

Next ==
  \/ \E s \in Sessions : HostWrites(s) \/ HostArchives(s) \/ HostRestores(s)
  \/ \E on \in BOOLEAN : ToggleReads(on)
  \/ ToggleWrites
  \/ \E p \in Ingests : Start(p) \/ Step(p) \/ IngestFails(p) \/ Kill(p)
  \/ GrowsStale

\* The host's triggers keep coming, and time passes.
Fairness ==
  /\ \A p \in Ingests : WF_vars(Start(p)) /\ WF_vars(Step(p))
  /\ WF_vars(ToggleWrites) /\ WF_vars(Abandoned /\ GrowsStale)

Spec == Init /\ [][Next]_vars /\ Fairness

-----------------------------------------------------------------------------
(* The rollouts, the logs, the checkpoint and the processes.               *)
TypeOK ==
  /\ lines \in Seq(Sessions) /\ Len(lines) <= MaxLines /\ archived \subseteq Sessions
  /\ copies \in [Times -> Nat] /\ disk \in Checkpoints
  /\ lock \in {"none", "fresh", "stale"}
  /\ pc \in [Ingests -> {"idle", "lock", "unlink", "retry", "load", "files", "commit", "release"}]
  /\ mem \in [Ingests -> Checkpoints]
  /\ todo \in [Ingests -> SUBSET (Sessions \X Times)] /\ budget \in [Ingests -> 0..LineBudget]
  /\ toggle \in [wants : BOOLEAN, read : Checkpoints, open : BOOLEAN]
  /\ setbacks + toggles \in 0..MaxTrouble
  /\ evicted \subseteq Sessions /\ wish \in BOOLEAN /\ crossed \in BOOLEAN /\ rolled \in BOOLEAN

(* Triggers may fire twice or at once: a line is in the log once, as long  *)
(* as no run was cut short, no rollout came back and no enable or disable  *)
(* wrote over a newer checkpoint (_ingest_locked, _acquire_lock).          *)
RecordedOnce ==
  setbacks = 0 /\ ~rolled => \A t \in DOMAIN lines : copies[t] <= 1

(* A checkpoint never runs ahead of the logs, whatever dies, steals a lock *)
(* or writes over it: a line that counts as read is in its log, unless the *)
(* log is marked as truncated or retention has removed it.                 *)
NothingSkipped ==
  \A t \in DOMAIN lines :
    LET s == lines[t] IN
    t <= disk.at[s] /\ s \notin evicted => copies[t] > 0 \/ disk.cut[s]

(* Each line of a rollout that counts as read is in its log, and as long   *)
(* as nothing was cut short it is there once, whatever triggers overlap    *)
(* (_ingest_locked, _acquire_lock, _read_new_complete_lines).              *)
EachLineOnce == RecordedOnce /\ NothingSkipped

(* Once the owner has opted out no ingest turns the ledger on again, if    *)
(* none was under way at that moment (set_enabled, is_enabled).            *)
StaysOff ==
  ~wish /\ ~crossed /\ ~toggle.open => ~disk.on

(* Retention removes the log of no session that was active after one whose *)
(* log it keeps, however late the older one was read (_retention_key).     *)
EvictsTheOldest ==
  [][\A g, k \in Sessions :
       setbacks = 0 /\ ~rolled /\ LogOf(g) # {} /\ LogOf(g)' = {} /\ LogOf(k)' # {} =>
         \/ Max(LogOf(g)) < Max(LogOf(k))
         \/ \E p \in Ingests : mem[p].cut[k]]_vars

(* While the ledger is on, every line of a rollout that is there is read   *)
(* in the end, a lock that was left behind or a used-up budget             *)
(* notwithstanding (_lock_is_stale, INGEST_MAX_LINES_PER_RUN).             *)
CatchesUp ==
  <>[]disk.on => <>[](\A s \in Present : disk.at[s] = LastLine(s))
=============================================================================
