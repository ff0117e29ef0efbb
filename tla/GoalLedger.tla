----------------------------- MODULE GoalLedger -----------------------------
(***************************************************************************)
(* The goal ledger (goal_state.py): `goal evidence add` copies a file under*)
(* the digest of its content and refers the goal to it, `goal verify`      *)
(* passes a goal when one of its evidence files holds a marker of a real   *)
(* test run, `goal status` shows the ledger and creates it.                *)
(*                                                                         *)
(* Commands load goals.json and rename a new one over it without a lock,   *)
(* may overlap, and may be killed between any two of their steps; evidence *)
(* is written in place.                                                    *)
(***************************************************************************)
CONSTANTS
  Procs,
  Goals,     \* goal ids
  GoalDefault, \* the one of the default ledger
  Evidence,  \* contents, each stored under its digest
  Marked     \* those with one of VALID_EVIDENCE_MARKERS

VARIABLES
  goals,   \* goals.json
  files,   \* evidence files: "absent", "partial" while written, "whole"
  proc,    \* the commands under way
  passed   \* history: <<goal, refs>> a verification has passed

vars == <<goals, files, proc, passed>>

\* A goal the file does not mention is as good as the default goal.
DefaultGoal == [refs |-> {}, status |-> "PENDING", listed |-> FALSE]

Idle == [cmd |-> "none"]

Init ==
  /\ goals = [g \in Goals |-> DefaultGoal]
  /\ files = [e \in Evidence |-> "absent"]
  /\ proc = [p \in Procs |-> Idle]
  /\ passed = {}

\* add_goal_evidence first writes the content; the file is truncated first.
StartEvidence(p, g, e) ==
  /\ proc[p] = Idle
  /\ files' = [files EXCEPT ![e] = "partial"]
  /\ proc' = [proc EXCEPT ![p] = [cmd |-> "write", goal |-> g, ev |-> e]]
  /\ UNCHANGED <<goals, passed>>

FinishEvidence(p) ==
  LET c == proc[p] IN
  /\ c.cmd = "write"
  /\ files' = [files EXCEPT ![c.ev] = "whole"]
  /\ proc' = [proc EXCEPT ![p] = [cmd |-> "add", goal |-> c.goal, ev |-> c.ev, seen |-> goals]]
  /\ UNCHANGED <<goals, passed>>

\* A bug to be caught: new evidence leaves the verdict as it was.
AddEvidenceInKeepingVerdict(recs, g, e) ==
  [recs EXCEPT ![g] = [refs |-> @.refs \cup {e}, status |-> @.status, listed |-> TRUE]]

AddEvidenceIn(recs, g, e) ==
  [recs EXCEPT ![g] = [refs |-> @.refs \cup {e}, status |-> "PENDING", listed |-> TRUE]]

SaveEvidence(p) ==
  LET c == proc[p] IN
  /\ c.cmd = "add"
  /\ goals' = AddEvidenceIn(c.seen, c.goal, c.ev)
  /\ proc' = [proc EXCEPT ![p] = Idle]
  /\ UNCHANGED <<files, passed>>

\* _valid_evidence_refs: the evidence that reads as a test run now.
ValidRefs(refs) == {e \in refs : files[e] = "whole" /\ e \in Marked}

\* verify_goal: a goal without evidence is answered with nothing written.
LoadVerify(p, g) ==
  LET refs == goals[g].refs
      verdict == IF ValidRefs(refs) = {} THEN "BLOCKED" ELSE "PASS" IN
  /\ proc[p] = Idle
  /\ refs # {}
  /\ proc' = [proc EXCEPT ![p] = [cmd |-> "verify", goal |-> g, verdict |-> verdict, seen |-> goals]]
  /\ passed' = IF verdict = "PASS" THEN passed \cup {<<g, refs>>} ELSE passed
  /\ UNCHANGED <<goals, files>>

SaveVerify(p) ==
  LET c == proc[p] IN
  /\ c.cmd = "verify"
  /\ goals' = [c.seen EXCEPT ![c.goal] = [refs |-> @.refs, status |-> c.verdict, listed |-> TRUE]]
  /\ proc' = [proc EXCEPT ![p] = Idle]
  /\ UNCHANGED <<files, passed>>

\* goal_status writes the default ledger when there is none.
GoalStatus ==
  /\ \A g \in Goals : ~goals[g].listed
  /\ goals' = [goals EXCEPT ![GoalDefault].listed = TRUE]
  /\ UNCHANGED <<files, proc, passed>>

Kill(p) ==
  /\ proc[p] # Idle
  /\ proc' = [proc EXCEPT ![p] = Idle]
  /\ UNCHANGED <<goals, files, passed>>

Next ==
  \/ \E p \in Procs, g \in Goals :
       LoadVerify(p, g) \/ \E e \in Evidence : StartEvidence(p, g, e)
  \/ \E p \in Procs : FinishEvidence(p) \/ SaveEvidence(p) \/ SaveVerify(p) \/ Kill(p)
  \/ GoalStatus

Spec == Init /\ [][Next]_vars

-----------------------------------------------------------------------------
(* A goal that stands as passed was verified over the very evidence it     *)
(* refers to, one piece of which is a test run: evidence added later, by a *)
(* command that overlaps the verification or writes an older ledger back,  *)
(* never inherits the verdict (add_goal_evidence, verify_goal).            *)
PassCoversTheEvidence ==
  \A g \in Goals : goals[g].status = "PASS" =>
    /\ <<g, goals[g].refs>> \in passed
    /\ goals[g].refs \cap Marked # {}
=============================================================================
