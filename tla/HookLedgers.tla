---------------------------- MODULE HookLedgers -----------------------------
(***************************************************************************)
(* Two small ledgers the hooks write besides the closeout and the session  *)
(* log (hook_handlers.py): usage-telemetry.json counts the uses of prompt  *)
(* routes, catalogued routes and promoted blocks, and qa-ledger.jsonl, if  *)
(* the teacher agreed to it, gets a line for every hook payload that could *)
(* not be read.  Every hook is a process of its own, hooks of several      *)
(* sessions run at once, and any of them may be killed.  The anomaly log   *)
(* is counted in lines.                                                    *)
(***************************************************************************)
EXTENDS Naturals, FiniteSets

CONSTANTS
  Procs,
  Surfaces,    \* routes and blocks whose uses are counted
  MaxLines,    \* QA_LEDGER_MAX_BYTES, in lines
  MaxUses,     \* bound on uses of a surface
  MaxKills     \* bound on kills

VARIABLES
  consent,  \* qa-consent.json
  lines,    \* lines of qa-ledger.jsonl
  counts,   \* usage-telemetry.json
  uses,     \* history: true number of uses, by surface
  proc,
  kills,    \* how many hooks have been killed
  unrotated \* history: lines of hooks killed before they looked at the size

vars == <<consent, lines, counts, uses, proc, kills, unrotated>>

-----------------------------------------------------------------------------
Idle == [cmd |-> "none"]
Start(p, step) == proc[p] = Idle /\ proc' = [proc EXCEPT ![p] = step]
End(p) == proc' = [proc EXCEPT ![p] = Idle]

Init ==
  /\ consent = "unset" /\ lines = 0
  /\ counts = [s \in Surfaces |-> 0] /\ uses = [s \in Surfaces |-> 0]
  /\ proc = [p \in Procs |-> Idle]
  /\ kills = 0 /\ unrotated = 0

\* `harness qa consent --grant | --deny`, `harness qa clear`.
SetConsent(state) ==
  /\ consent' = state
  /\ UNCHANGED <<lines, counts, uses, proc, kills, unrotated>>

ClearQa ==
  /\ lines' = 0
  /\ UNCHANGED <<consent, counts, uses, proc, kills, unrotated>>

\* handle_hook on a payload that is too large or no JSON object.
InvalidPayload(p) ==
  /\ consent = "granted"
  /\ Start(p, [cmd |-> "append"])
  /\ UNCHANGED <<consent, lines, counts, uses, kills, unrotated>>

\* append_qa_record, then _rotate_if_needed in two steps: the lines are
\* read, and the newer half of what was read replaces the file.
AppendQa(p) ==
  /\ proc[p].cmd = "append"
  /\ lines' = lines + 1
  /\ proc' = [proc EXCEPT ![p] = [cmd |-> "measure"]]
  /\ UNCHANGED <<consent, counts, uses, kills, unrotated>>

MeasureQa(p) ==
  /\ proc[p].cmd = "measure"
  /\ IF lines > MaxLines
     THEN proc' = [proc EXCEPT ![p] = [cmd |-> "rotate", seen |-> lines]]
     ELSE End(p)
  /\ UNCHANGED <<consent, lines, counts, uses, kills, unrotated>>

RotateQa(p) ==
  /\ proc[p].cmd = "rotate"
  /\ lines' = proc[p].seen - proc[p].seen \div 2
  /\ unrotated' = 0
  /\ End(p)
  /\ UNCHANGED <<consent, counts, uses, kills>>

\* record_surface_use: the counts are loaded, and written back with one more.
LoadCounts(p, s) ==
  /\ uses[s] < MaxUses
  /\ Start(p, [cmd |-> "count", surface |-> s, seen |-> counts])
  /\ UNCHANGED <<consent, lines, counts, uses, kills, unrotated>>

\* A bug to be caught: every known surface is counted.
SaveCountsOfAll(p) ==
  /\ proc[p].cmd = "count" /\ uses[proc[p].surface] < MaxUses
  /\ counts' = [s \in Surfaces |-> proc[p].seen[s] + 1]
  /\ uses' = [uses EXCEPT ![proc[p].surface] = @ + 1]
  /\ End(p)
  /\ UNCHANGED <<consent, lines, kills, unrotated>>

SaveCounts(p) ==
  /\ proc[p].cmd = "count" /\ uses[proc[p].surface] < MaxUses
  /\ counts' = [proc[p].seen EXCEPT ![proc[p].surface] = @ + 1]
  /\ uses' = [uses EXCEPT ![proc[p].surface] = @ + 1]
  /\ End(p)
  /\ UNCHANGED <<consent, lines, kills, unrotated>>

Kill(p) ==
  /\ proc[p] # Idle /\ kills < MaxKills
  /\ kills' = kills + 1
  /\ unrotated' = IF proc[p].cmd \in {"measure", "rotate"} THEN unrotated + 1 ELSE unrotated
  /\ End(p)
  /\ UNCHANGED <<consent, lines, counts, uses>>

Next ==
  \/ ClearQa
  \/ \E state \in {"granted", "denied"} : SetConsent(state)
  \/ \E p \in Procs :
       \/ InvalidPayload(p) \/ AppendQa(p) \/ MeasureQa(p) \/ RotateQa(p)
       \/ SaveCounts(p) \/ Kill(p)
       \/ \E s \in Surfaces : LoadCounts(p, s)

Spec == Init /\ [][Next]_vars

-----------------------------------------------------------------------------
(* Usage counts feed the suggestions what to promote: overlapping hooks and*)
(* kills may lose uses but never invent one (record_surface_use).          *)
CountsAreEarned == \A s \in Surfaces : counts[s] <= uses[s]

(* The anomaly log stays bounded although nobody locks it: at most one line*)
(* too many for every hook that has yet to look at its size, or was killed *)
(* before it could (append_qa_record, _rotate_if_needed).                  *)
QaLogBounded ==
  lines <= MaxLines + unrotated + Cardinality({p \in Procs : proc[p].cmd \in {"measure", "rotate"}})
=============================================================================
