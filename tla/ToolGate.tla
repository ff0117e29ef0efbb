------------------------------ MODULE ToolGate ------------------------------
(***************************************************************************)
(* The gate before every tool call of the agent: the pre-tool-use hook of  *)
(* hook_handlers.py asks pre_tool_gate.py, which allows the call, has the  *)
(* teacher asked, or refuses it, and a refusal is journaled.               *)
(*                                                                         *)
(* The texts of a call are abstracted to the marks the gate's patterns     *)
(* find in them; the ledger of approvals to whether it holds one that is   *)
(* approved and not consumed, which may change between two calls.          *)
(***************************************************************************)
EXTENDS Naturals

CONSTANT MaxTraces   \* bound on journaled refusals

VARIABLES
  approved, \* an approval is at hand (has_unconsumed_approved)
  call,     \* the last call the gate was asked about
  traces    \* how many refusals the journal holds

vars == <<approved, call, traces>>

\* What can be found in a command line, and in the path and content of a write.
ExecMarks == {"state_dir", "private", "destructive", "redirect", "database", "sql_change"}
WriteMarks == {"state_path", "repo_path", "private_text"}
Calls == [tier : {"unknown", "read"}, marks : {{}}]
           \cup [tier : {"write"}, marks : SUBSET WriteMarks]
           \cup [tier : {"exec"}, marks : SUBSET ExecMarks]

Mutates(marks) == marks \cap {"destructive", "redirect"} # {}

\* _runtime_owned_state_decision: the ledgers are changed by commands only.
RuntimeOwned(c) ==
  \/ c.tier = "write" /\ "state_path" \in c.marks
  \/ c.tier = "exec" /\ "state_dir" \in c.marks /\ Mutates(c.marks)

PublicWrite(c) == c.tier = "write" /\ {"repo_path", "private_text"} \subseteq c.marks

RawDbMutation(c) == c.tier = "exec" /\ {"database", "sql_change"} \subseteq c.marks

DestructiveOnPrivate(c) ==
  /\ c.tier = "exec" /\ "destructive" \in c.marks
  /\ c.marks \cap {"private", "state_dir"} # {}

\* A bug to be caught: an approval is looked at before the ledgers' protection.
EvaluateApprovalFirst(c, granted) ==
  CASE c.tier = "unknown" -> "ask"
    [] c.tier = "read" -> "allow"
    [] RawDbMutation(c) \/ DestructiveOnPrivate(c) -> IF granted THEN "allow" ELSE "deny"
    [] RuntimeOwned(c) \/ PublicWrite(c) -> "deny"
    [] OTHER -> "allow"

\* evaluate_tool_call: the first rule that applies.
EvaluateToolCall(c, granted) ==
  IF c.tier = "unknown" THEN "ask"
  ELSE IF c.tier = "read" THEN "allow"
  ELSE IF RuntimeOwned(c) \/ PublicWrite(c) THEN "deny"
  ELSE IF RawDbMutation(c) \/ DestructiveOnPrivate(c)
       THEN IF granted THEN "allow" ELSE "deny"
  ELSE "allow"

-----------------------------------------------------------------------------
Init ==
  /\ approved = FALSE
  /\ call = [tier |-> "read", marks |-> {}]
  /\ traces = 0

\* An approval is given, or the last one is spent.
ApprovalsChange ==
  /\ approved' = ~approved
  /\ UNCHANGED <<call, traces>>

\* write_trace: one record more in the journal.
WriteTrace == traces < MaxTraces /\ traces' = traces + 1

\* _hook_pre_tool_use: a refusal leaves one trace record.
PreToolUse(c) ==
  /\ call' = c
  /\ IF EvaluateToolCall(c, approved) = "deny" THEN WriteTrace ELSE UNCHANGED traces
  /\ UNCHANGED approved

Next == ApprovalsChange \/ \E c \in Calls : PreToolUse(c)

Spec == Init /\ [][Next]_vars

-----------------------------------------------------------------------------
(* The gate is monotone: a call that does more than another of its kind is *)
(* never treated more leniently, with or without an approval at hand; in   *)
(* particular no addition to a command opens the runtime's own ledgers     *)
(* (evaluate_tool_call, the order of its rules).                           *)
GateIsMonotone ==
  \A c \in Calls :
    /\ c.tier = call.tier /\ call.marks \subseteq c.marks
    /\ EvaluateToolCall(call, approved) = "deny"
    => EvaluateToolCall(c, approved) = "deny"
=============================================================================
