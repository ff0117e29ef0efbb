--------------------------- MODULE SessionCloseout ---------------------------
(***************************************************************************)
(* The Stop and PostCompact hooks (session_closeout.py).  A session that   *)
(* stops is blocked while a pending approval, an unapplied import plan or  *)
(* a missing memory record is open, and let go at the third block for the  *)
(* same reason; and let go at once when the host says that it goes on      *)
(* after a block.  After the host compacted a session's context, the next  *)
(* SessionStart or UserPromptSubmit hook of any session on the profile     *)
(* claims the recovery marker and injects what is open once more.          *)
(*                                                                         *)
(* compute_closeout reads one ledger after the other, and looks at the     *)
(* memory only if no gate is open, while other sessions and the teacher go *)
(* on working.                                                             *)
(***************************************************************************)
EXTENDS Naturals, FiniteSets

CONSTANTS
  HostSessions,  \* sessions of the host on one profile
  Dirs,          \* session directories under .chat-lms-state
  DirOf,         \* _sanitize_session_id; sessions without an id share one
  Approvals, Plans,  \* requests for an approval, import plans
  Memories,  \* memory records that may be required
  Groups,    \* bound: which sessions are followed together
  MaxEvents, MaxKills  \* bounds: openings and compactions; hooks killed

ASSUME CloseoutAssumption ==
  /\ DirOf \in [HostSessions -> Dirs]
  /\ IsFiniteSet(HostSessions) /\ Groups \subseteq SUBSET HostSessions
  /\ MaxEvents \in Nat /\ MaxKills \in Nat

Threshold == 3  \* ESCALATION_THRESHOLD

VARIABLES
  running,  \* the sessions the host runs
  open,     \* what the ledgers hold that blocks a closeout
  counter,  \* sessions/<dir>/counters.json: the last reason and its count
  marker,   \* compact-recovery.json
  hookAt,   \* per session: what its hook does next
  seen,     \* per session: the blockers its stop hook has read
  counted,  \* per session: the counter its stop hook has read
  verdict,  \* per session: how its last closeout let it go, if it did
  resumed,  \* per session: it goes on because its stop was blocked
  compacted, \* a session was compacted
  events, kills,
  told,     \* history: per session the last blocked reason, and how often it was
            \* told without another
  toldIn,   \* history: per directory, how often a reason was told, up to Threshold
  excused,  \* history: nothing was open at some time of this stop hook, or
            \* another session opened something during it
  owed      \* history: a compaction no hook has injected a recovery for

host == <<running, compacted, events, kills>>
hooks == <<hookAt, seen, counted, verdict, resumed>>
answers == <<told, toldIn, excused, owed>>
closeoutVars == <<open, counter, marker, hooks, host, answers>>

Blockers == Approvals \cup Plans \cup Memories
Reasons == (SUBSET (Approvals \cup Plans)) \cup (SUBSET Memories)
Uncounted == [reason |-> {}, count |-> 0]
Reading(s) == hookAt[s] \in {"approvals", "plans", "memory"}
Claiming(s) == hookAt[s] \in {"claim", "inject"}
HookGoesTo(s, step) == hookAt' = [hookAt EXCEPT ![s] = step]

-----------------------------------------------------------------------------
CloseoutInit ==
  /\ running \in Groups
  /\ open = {} /\ marker = FALSE
  /\ counter = [d \in Dirs |-> Uncounted]
  /\ hookAt = [s \in HostSessions |-> "working"]
  /\ seen = [s \in HostSessions |-> {}]
  /\ counted = [s \in HostSessions |-> Uncounted]
  /\ verdict = [s \in HostSessions |-> "none"]
  /\ resumed = [s \in HostSessions |-> FALSE]
  /\ compacted = FALSE /\ events = 0 /\ kills = 0
  /\ told = [s \in HostSessions |-> Uncounted]
  /\ toldIn = [d \in Dirs |-> [r \in Reasons |-> 0]]
  /\ excused = [s \in HostSessions |-> FALSE]
  /\ owed = FALSE

\* A command of a session asks for an approval, files a plan, needs a record.
Open(s, b) ==
  /\ s \in running /\ hookAt[s] = "working" /\ b \notin open /\ events < MaxEvents
  /\ open' = open \cup {b}
  /\ events' = events + 1
  /\ excused' = [t \in HostSessions |-> excused[t] \/ Reading(t)]
  /\ UNCHANGED <<counter, marker, hooks, running, compacted, kills, told, toldIn, owed>>

\* The teacher decides, a plan is applied, the record is written.
Resolve(b) ==
  /\ b \in open
  /\ open' = open \ {b}
  /\ excused' = [s \in HostSessions |-> excused[s] \/ (Reading(s) /\ open' = {})]
  /\ UNCHANGED <<counter, marker, hooks, host, told, toldIn, owed>>

\* The host runs the Stop hook at the end of a turn.  After a registry change
\* without --memory-updated the hook blocks before it comes to the closeout.
Stop(s) ==
  /\ s \in running /\ hookAt[s] = "working"
  /\ verdict' = [verdict EXCEPT ![s] = "none"]
  /\ resumed' = [resumed EXCEPT ![s] = FALSE]
  /\ HookGoesTo(s, "approvals")
  /\ excused' = [excused EXCEPT ![s] = open = {}]
  /\ seen' = [seen EXCEPT ![s] = {}]
  /\ UNCHANGED <<open, counter, marker, counted, host, told, toldIn, owed>>

\* With stop_hook_active, which the host passes on the stop of a session that
\* goes on after a block, it passes at once, whatever is open.
StopResumed(s) ==
  /\ s \in running /\ hookAt[s] = "working" /\ resumed[s]
  /\ verdict' = [verdict EXCEPT ![s] = "RESUMED"]
  /\ resumed' = [resumed EXCEPT ![s] = FALSE]
  /\ UNCHANGED <<open, counter, marker, hookAt, seen, counted, host, answers>>

\* pending_approval_ids
ReadApprovals(s) ==
  /\ hookAt[s] = "approvals"
  /\ seen' = [seen EXCEPT ![s] = open \cap Approvals]
  /\ HookGoesTo(s, "plans")
  /\ UNCHANGED <<open, counter, marker, counted, verdict, resumed, host, answers>>

\* With nothing open the session may stop.
Pass(s) ==
  /\ verdict' = [verdict EXCEPT ![s] = "PASS"]
  /\ HookGoesTo(s, "working")

\* A bug to be caught: the memory is not looked at.
ReadPlansOnly(s) ==
  LET gates == seen[s] \cup (open \cap Plans) IN
  /\ hookAt[s] = "plans"
  /\ seen' = [seen EXCEPT ![s] = gates]
  /\ IF gates = {} THEN Pass(s) ELSE HookGoesTo(s, "bump") /\ UNCHANGED verdict
  /\ UNCHANGED <<open, counter, marker, counted, resumed, host, answers>>

\* unapplied_import_plan_ids
ReadPlans(s) ==
  LET gates == seen[s] \cup (open \cap Plans) IN
  /\ hookAt[s] = "plans"
  /\ seen' = [seen EXCEPT ![s] = gates]
  /\ HookGoesTo(s, IF gates = {} THEN "memory" ELSE "bump")
  /\ excused' = [excused EXCEPT ![s] = @ /\ gates = {}]
  /\ UNCHANGED <<open, counter, marker, counted, verdict, resumed, host, told, toldIn, owed>>

\* _missing_memory
ReadMemory(s) ==
  LET missing == open \cap Memories IN
  /\ hookAt[s] = "memory"
  /\ seen' = [seen EXCEPT ![s] = missing]
  /\ IF missing = {} THEN Pass(s) ELSE HookGoesTo(s, "bump") /\ UNCHANGED verdict
  /\ excused' = [excused EXCEPT ![s] = @ /\ missing = {}]
  /\ UNCHANGED <<open, counter, marker, counted, resumed, host, told, toldIn, owed>>

\* Bugs to be caught: every block counts from one; or goes on counting for
\* whatever reason.
BumpFromOne(was, reason) == [reason |-> reason, count |-> 1]
BumpAnyReason(was, reason) ==
  [reason |-> reason, count |-> IF was.count = Threshold THEN Threshold ELSE was.count + 1]

\* bump_consecutive_marker; a count above the threshold is as good as it.
Bump(was, reason) ==
  [reason |-> reason,
   count |-> IF was.reason # reason THEN 1
             ELSE IF was.count = Threshold THEN Threshold ELSE was.count + 1]

\* counters.json is read and written without a lock.  A hook that finds nothing
\* open does not come here: a clean stop does not reset the counter.
ReadCounter(s) ==
  /\ hookAt[s] = "bump"
  /\ counted' = [counted EXCEPT ![s] = counter[DirOf[s]]]
  /\ HookGoesTo(s, "count")
  /\ UNCHANGED <<open, counter, marker, seen, verdict, resumed, host, answers>>

BumpCounter(s) ==
  LET next == Bump(counted[s], seen[s]) IN
  /\ hookAt[s] = "count"
  /\ counter' = [counter EXCEPT ![DirOf[s]] = next]
  /\ counted' = [counted EXCEPT ![s] = Uncounted]
  /\ HookGoesTo(s, IF next.count >= Threshold THEN "escalate" ELSE "answer")
  /\ UNCHANGED <<open, marker, seen, verdict, resumed, host, answers>>

\* The block, with the commands that resolve it, is handed to the host, which
\* lets the session go on.
Answer(s) ==
  LET d == DirOf[s] IN
  /\ hookAt[s] = "answer"
  /\ told' = [told EXCEPT ![s] = Bump(@, seen[s])]
  /\ toldIn' = [toldIn EXCEPT ![d][seen[s]] = IF @ = Threshold THEN Threshold ELSE @ + 1]
  /\ resumed' = [resumed EXCEPT ![s] = TRUE]
  /\ HookGoesTo(s, "working") /\ seen' = [seen EXCEPT ![s] = {}]
  /\ UNCHANGED <<open, counter, marker, counted, verdict, host, excused, owed>>

Escalate(s) ==
  /\ hookAt[s] = "escalate"
  /\ verdict' = [verdict EXCEPT ![s] = "ESCALATED"]
  /\ HookGoesTo(s, "working")
  /\ UNCHANGED <<open, counter, marker, seen, counted, resumed, host, answers>>

\* PostCompact.
Compact(s) ==
  /\ s \in running /\ hookAt[s] = "working" /\ events < MaxEvents
  /\ marker' = TRUE /\ owed' = TRUE
  /\ compacted' = TRUE /\ events' = events + 1
  /\ UNCHANGED <<open, counter, hooks, running, kills, told, toldIn, excused>>

\* SessionStart or UserPromptSubmit; a start after a compaction claims always.
ReadMarker(s, fromCompact) ==
  /\ s \in running /\ hookAt[s] = "working" /\ (marker \/ (fromCompact /\ compacted))
  /\ HookGoesTo(s, "claim")
  /\ UNCHANGED <<open, counter, marker, seen, counted, verdict, resumed, host, answers>>

\* A bug to be caught: an unclaimed marker counts as claimed by a start that
\* is not after a compaction.
ClaimWithoutInjecting(s) ==
  /\ hookAt[s] = "claim"
  /\ marker' = FALSE
  /\ HookGoesTo(s, IF marker THEN "working" ELSE "inject")
  /\ UNCHANGED <<open, counter, seen, counted, verdict, resumed, host, answers>>

Claim(s) ==
  /\ hookAt[s] = "claim"
  /\ marker' = FALSE
  /\ HookGoesTo(s, "inject")
  /\ UNCHANGED <<open, counter, seen, counted, verdict, resumed, host, answers>>

\* The context with the recovery is computed and handed to the host.
Inject(s) ==
  /\ hookAt[s] = "inject"
  /\ owed' = FALSE
  /\ HookGoesTo(s, "working")
  /\ UNCHANGED <<open, counter, marker, seen, counted, verdict, resumed, host, told, toldIn,
                 excused>>

\* The host kills a hook that takes too long, and goes on.
KillHook(s) ==
  /\ hookAt[s] # "working" /\ kills < MaxKills
  /\ kills' = kills + 1
  /\ HookGoesTo(s, "working")
  /\ seen' = [seen EXCEPT ![s] = IF Claiming(s) THEN @ ELSE {}]
  /\ counted' = [counted EXCEPT ![s] = Uncounted]
  /\ excused' = [excused EXCEPT ![s] = @ /\ Claiming(s)]
  /\ UNCHANGED <<open, counter, marker, verdict, resumed, running, compacted, events, told, toldIn,
                 owed>>

StopHook(s) ==
  \/ ReadApprovals(s) \/ ReadPlans(s) \/ ReadMemory(s)
  \/ ReadCounter(s) \/ BumpCounter(s) \/ Answer(s) \/ Escalate(s)

CloseoutNext ==
  \/ \E s \in HostSessions :
       \/ \E b \in Blockers : Open(s, b)
       \/ Stop(s) \/ StopResumed(s) \/ StopHook(s)
       \/ Compact(s)
       \/ \E fromCompact \in BOOLEAN : ReadMarker(s, fromCompact)
       \/ Claim(s) \/ Inject(s)
       \/ KillHook(s)
  \/ \E b \in Blockers : Resolve(b)

\* The host stops a session at the end of each turn and waits for its hooks.
CloseoutFairness ==
  \A s \in HostSessions :
    /\ SF_closeoutVars(Stop(s) \/ StopResumed(s)) /\ WF_closeoutVars(StopHook(s))
    /\ WF_closeoutVars(Claim(s) \/ Inject(s))

CloseoutSpec == CloseoutInit /\ [][CloseoutNext]_closeoutVars /\ CloseoutFairness

-----------------------------------------------------------------------------
Counts == [reason : Reasons, count : 0..Threshold]

(* The ledgers, the hooks and what they answered.                          *)
CloseoutTypeOK ==
  /\ running \in Groups /\ open \subseteq Blockers /\ marker \in BOOLEAN /\ owed \in BOOLEAN
  /\ counter \in [Dirs -> Counts] /\ counted \in [HostSessions -> Counts]
  /\ hookAt \in [HostSessions -> {"working", "approvals", "plans", "memory", "bump", "count",
                                  "answer", "escalate", "claim", "inject"}]
  /\ seen \in [HostSessions -> Reasons]
  /\ verdict \in [HostSessions -> {"none", "PASS", "RESUMED", "ESCALATED"}]
  /\ resumed \in [HostSessions -> BOOLEAN]
  /\ compacted \in BOOLEAN /\ events \in 0..MaxEvents /\ kills \in 0..MaxKills
  /\ told \in [HostSessions -> Counts]
  /\ toldIn \in [Dirs -> [Reasons -> 0..Threshold]]
  /\ excused \in [HostSessions -> BOOLEAN]

OwnDirectory(s) == \A t \in HostSessions : DirOf[t] = DirOf[s] => t = s

(* The agent was told twice what is open, with the commands that resolve   *)
(* it and with no other reason in between, before its session may stop all *)
(* the same, whatever other sessions are told meanwhile; if it has a       *)
(* directory of its own, as every session with an id has.  A hook killed   *)
(* between counting the block and answering counts as told; a clean stop   *)
(* in between is not noticed (write_stop_closeout).                        *)
ToldTwiceBeforeEscalation ==
  \A s \in HostSessions :
    OwnDirectory(s) /\ verdict[s] = "ESCALATED" =>
      (IF told[s].reason = seen[s] THEN told[s].count ELSE 0) + kills >= Threshold - 1

(* A session that stops cleanly stopped at a time when nothing was open,   *)
(* although the ledgers are read one after the other; unless another       *)
(* session opened a blocker in between (compute_closeout).                 *)
PassedWhenClean ==
  \A s \in HostSessions : verdict[s] = "PASS" => excused[s]

(* A session is let go for cause only: nothing was open, or it was told    *)
(* twice what is, or it goes on after a block, and then whatever is open   *)
(* by now, told or not (compute_closeout, write_stop_closeout).            *)
LetGoOnlyWithCause ==
  /\ PassedWhenClean /\ ToldTwiceBeforeEscalation
  /\ \A s \in HostSessions : verdict[s] = "RESUMED" => told[s].count > 0

\* Sessions of the directory whose hooks have counted this reason and are
\* about to tell it.
AboutToTell(d, reason) ==
  {s \in HostSessions : DirOf[s] = d /\ hookAt[s] = "answer" /\ seen[s] = reason}

(* Sessions that share a directory, as those without an id do, may be let  *)
(* go for what the others were told, and their hooks may overwrite each    *)
(* other's count; but two of them were told, or are about to be, or were   *)
(* not because their hook was killed (bump_consecutive_marker).            *)
DirectoryToldTwice ==
  \A s \in HostSessions :
    verdict[s] = "ESCALATED" =>
      toldIn[DirOf[s]][seen[s]] + Cardinality(AboutToTell(DirOf[s], seen[s])) + kills
        >= Threshold - 1

(* A compacted context is owed its recovery until a hook has the marker in *)
(* its hands, whatever other hooks claim at the same time; only a hook     *)
(* killed in between loses it (claim_compact_recovery).                    *)
RecoveryNotLost ==
  owed /\ kills = 0 => marker \/ \E s \in HostSessions : Claiming(s)

(* No session is kept from stopping for ever: once no ledger changes any   *)
(* more it is let go, again and again, whether or not the host ever passes *)
(* stop_hook_active (ESCALATION_THRESHOLD).                                *)
NoEndlessBlock ==
  \A s \in HostSessions :
    s \in running /\ <>[][FALSE]_open => []<>(verdict[s] # "none")
=============================================================================
