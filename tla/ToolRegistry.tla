---------------------------- MODULE ToolRegistry ----------------------------
(***************************************************************************)
(* The tools an agent may use: the registry in the code, tools.json (the   *)
(* `tool` commands) and agent-tool-lifecycle.json (`agent-tools scaffold`, *)
(* register, promote, deprecate), read together by tool_store.py whenever  *)
(* the reuse gate asks whether a tool for the job exists already.          *)
(*                                                                         *)
(* Every command loads a whole file and later renames a new one over it;   *)
(* nothing is locked, so commands overlap, and one may die in between.     *)
(* (The temporary file they share is modelled in ApprovalStore.)           *)
(***************************************************************************)
EXTENDS Naturals, FiniteSets

CONSTANTS
  Procs,      \* command processes
  Tools,      \* ids of tools a profile adds
  Proposals,  \* proposal files
  Complete,   \* those with an id, a summary and the five contracts
  NoProposal  \* no file: a tool that is not there

VARIABLES
  records,  \* agent-tool-lifecycle.json, by tool id
  legacy,   \* tools.json, by tool name: a status or "absent"
  proc,     \* the commands under way, each with the file it has loaded
  review    \* history: <<id, proposal, step>> a command has been through

vars == <<records, legacy, proc, review>>

States == {"absent", "draft", "registered", "active", "deprecated"}
NoTool == [state |-> "absent", of |-> NoProposal, evidence |-> FALSE]
Record == [state : States, of : Proposals \cup {NoProposal}, evidence : BOOLEAN]

StaticTools == {"side-panel", "write-action", "classcard", "gws", "outbound-sync", "kakao"}

AllowedTransitions(state) ==
  {to \in States : <<state, to>> \in
     {<<"draft", "registered">>, <<"registered", "active">>, <<"draft", "deprecated">>,
      <<"registered", "deprecated">>, <<"active", "deprecated">>}}

\* A bug to be caught: a proposal for a known id keeps the state it had.
ScaffoldKeepingState(recs, id, proposal) ==
  [recs EXCEPT ![id] = [state |-> IF @.state = "absent" THEN "draft" ELSE @.state,
                        of |-> proposal, evidence |-> @.evidence]]

\* scaffold_tool: a draft replaces whatever the id stood for, deprecated or not.
ScaffoldIn(recs, id, proposal) ==
  [recs EXCEPT ![id] = [state |-> "draft", of |-> proposal, evidence |-> FALSE]]

MaySet(recs, id, state, evidence) ==
  /\ state \in AllowedTransitions(recs[id].state)
  /\ state = "active" => evidence

SetLifecycleState(recs, id, state) ==
  [recs EXCEPT ![id] = [state |-> state, of |-> @.of,
                        evidence |-> @.evidence \/ state = "active"]]

Idle == [cmd |-> "none"]
Init ==
  /\ records = [id \in Tools |-> NoTool]
  /\ legacy = [id \in Tools |-> "absent"]
  /\ proc = [p \in Procs |-> Idle]
  /\ review = {}

\* The command has loaded the file; an incomplete proposal or a transition
\* that is not allowed ends it here, with nothing written.
Begin(p, command) ==
  /\ proc[p] = Idle
  /\ proc' = [proc EXCEPT ![p] = command]
  /\ UNCHANGED <<records, legacy, review>>

LoadScaffold(p, id, proposal) ==
  /\ proposal \in Complete
  /\ Begin(p, [cmd |-> "scaffold", id |-> id, of |-> proposal, seen |-> records])

LoadChange(p, id, state, evidence) ==
  /\ MaySet(records, id, state, evidence)
  /\ Begin(p, [cmd |-> "set", id |-> id, state |-> state, seen |-> records])

\* `tool draft`, activate and deprecate: from any status to any other.
LoadTool(p, name, status) ==
  /\ status # "draft" => legacy[name] # "absent"
  /\ Begin(p, [cmd |-> "tool", id |-> name, status |-> status, seen |-> legacy])

\* _write_records renames the new ledger over the old one.
SaveScaffold(p) ==
  LET c == proc[p] IN
  /\ c.cmd = "scaffold"
  /\ records' = ScaffoldIn(c.seen, c.id, c.of)
  /\ proc' = [proc EXCEPT ![p] = Idle]
  /\ UNCHANGED <<legacy, review>>

SaveChange(p) ==
  LET c == proc[p] IN
  /\ c.cmd = "set"
  /\ records' = SetLifecycleState(c.seen, c.id, c.state)
  /\ review' = review \cup {<<c.id, c.seen[c.id].of, c.state>>}
  /\ proc' = [proc EXCEPT ![p] = Idle]
  /\ UNCHANGED <<legacy>>

SaveTool(p) ==
  LET c == proc[p] IN
  /\ c.cmd = "tool"
  /\ legacy' = [c.seen EXCEPT ![c.id] = c.status]
  /\ proc' = [proc EXCEPT ![p] = Idle]
  /\ UNCHANGED <<records, review>>

Kill(p) ==
  /\ proc[p] # Idle
  /\ proc' = [proc EXCEPT ![p] = Idle]
  /\ UNCHANGED <<records, legacy, review>>

\* composed_tools and usable_tools: a static tool whatever its status, a tool
\* of the two profile stores when it is active.
UsableTools ==
  (StaticTools \X {"static"})
    \cup {<<id, "legacy">> : id \in {i \in Tools : legacy[i] = "active"}}
    \cup {<<id, "lifecycle">> : id \in {i \in Tools : records[i].state = "active"}}

Next ==
  \/ \E p \in Procs, id \in Tools :
       \/ \E proposal \in Proposals : LoadScaffold(p, id, proposal)
       \/ \E state \in States, evidence \in BOOLEAN : LoadChange(p, id, state, evidence)
       \/ \E status \in {"draft", "active", "deprecated"} : LoadTool(p, id, status)
  \/ \E p \in Procs : SaveScaffold(p) \/ SaveChange(p) \/ SaveTool(p) \/ Kill(p)

Spec == Init /\ [][Next]_vars

-----------------------------------------------------------------------------
(* The reuse gate and the context only ever tell an agent to use a tool of *)
(* the lifecycle ledger in the very version that was registered and then   *)
(* promoted with evidence: neither a proposal filed again under the id nor *)
(* a ledger written back from an older copy rides on the review of another *)
(* version (scaffold_tool, set_lifecycle_state, usable_tools).             *)
UsableWasReviewed ==
  \A t \in UsableTools : t[2] = "lifecycle" =>
    {<<t[1], records[t[1]].of, "registered">>, <<t[1], records[t[1]].of, "active">>}
      \subseteq review
=============================================================================
