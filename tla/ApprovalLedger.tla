--------------------------- MODULE ApprovalLedger ---------------------------
(***************************************************************************)
(* The teacher-approval ledger of chat-lms-agent (approvals.py), with each *)
(* ledger function as one atomic step.  An agent command asks for an       *)
(* approval, the teacher approves or denies it from another terminal, the  *)
(* command is run again, finds the approval, acts, and consumes it.        *)
(*                                                                         *)
(* The ledger is a JSON list of records with one record per approval id;   *)
(* here it is a function from ids to records, NoRecord where the list has  *)
(* none.  The *In operators are the functions themselves, on a ledger      *)
(* value, so that ApprovalStore can apply them to a snapshot of the file.  *)
(***************************************************************************)
CONSTANTS
  Plans,        \* plan ids: what an approval is for
  ApprovalIds,  \* approval ids: what the teacher types
  IdOf,         \* approval_id_for: a slug, so two plans may share an id
  Teachers,     \* human actors
  Agent,        \* AGENT_ACTOR of the active host
  NoPlan, Nobody

ASSUME IdOfAssumption == IdOf \in [Plans -> ApprovalIds]
ASSUME ActorAssumption == Agent \notin Teachers /\ Nobody \notin Teachers
ASSUME NoPlanAssumption == NoPlan \notin Plans

VARIABLES
  ledger,   \* approvals.json
  cleared,  \* <<id, plan>> pairs some command has read as approved
  granted   \* history: ids a teacher has approved in a terminal

vars == <<ledger, cleared, granted>>

Actors == Teachers \cup {Agent}
Statuses == {"absent", "planned", "approved", "denied", "consumed"}
Record == [status : Statuses, plan : Plans \cup {NoPlan}, by : Actors \cup {Nobody}]
NoRecord == [status |-> "absent", plan |-> NoPlan, by |-> Nobody]
Ledger == [ApprovalIds -> Record]
EmptyLedger == [id \in ApprovalIds |-> NoRecord]

-----------------------------------------------------------------------------
(* The functions of approvals.py on a ledger value.                        *)

Exists(recs, id) == recs[id].status # "absent"

\* A bug to be caught: any plan goes with the id.
HasStatusOfId(recs, id, plan, status) == recs[id].status = status

HasStatus(recs, id, plan, status) == recs[id].plan = plan /\ recs[id].status = status
PendingIds(recs) == {id \in ApprovalIds : recs[id].status = "planned"}
HasUnconsumedApproved(recs) == \E id \in ApprovalIds : recs[id].status = "approved"

\* A record already filed under the id is returned as it is, whatever its plan.
EnsureIn(recs, plan) ==
  IF Exists(recs, IdOf[plan])
  THEN recs
  ELSE [recs EXCEPT ![IdOf[plan]] = [status |-> "planned", plan |-> plan, by |-> Nobody]]

\* A bug to be caught: a denial is not terminal.
MayApproveDenied(recs, id, actor) ==
  actor # Agent /\ Exists(recs, id) /\ recs[id].status # "consumed"

\* approve_request succeeds: not the agent, and the record is not terminal.
MayApprove(recs, id, actor) ==
  /\ actor # Agent
  /\ Exists(recs, id)
  /\ recs[id].status \notin {"consumed", "denied"}

ApproveIn(recs, id, actor) ==
  [recs EXCEPT ![id] = [status |-> "approved", plan |-> recs[id].plan, by |-> actor]]

\* deny_request looks neither at the status nor at who denies.
DenyIn(recs, id, actor) ==
  [recs EXCEPT ![id] = [status |-> "denied", plan |-> recs[id].plan, by |-> actor]]

ConsumeIn(recs, id, plan) ==
  IF recs[id].plan = plan
  THEN [recs EXCEPT ![id] = [status |-> "consumed", plan |-> plan, by |-> recs[id].by]]
  ELSE recs

-----------------------------------------------------------------------------
Init ==
  /\ ledger = EmptyLedger
  /\ cleared = {}
  /\ granted = {}

\* An agent command asks for the approval of plan.
EnsureRequest(plan) ==
  /\ ledger' = EnsureIn(ledger, plan)
  /\ UNCHANGED <<cleared, granted>>

\* `approval approve`: typed in a real terminal by actor.
Approve(id, actor) ==
  /\ MayApprove(ledger, id, actor)
  /\ ledger' = ApproveIn(ledger, id, actor)
  /\ granted' = IF actor \in Teachers THEN granted \cup {id} ELSE granted
  /\ UNCHANGED cleared

\* `approval deny`, which any actor may run.
Deny(id, actor) ==
  /\ Exists(ledger, id)
  /\ ledger' = DenyIn(ledger, id, actor)
  /\ UNCHANGED <<cleared, granted>>

\* A gated command reads approval_is_approved(id, plan) as true and goes on.
Clear(id, plan) ==
  /\ HasStatus(ledger, id, plan, "approved")
  /\ cleared' = cleared \cup {<<id, plan>>}
  /\ UNCHANGED <<ledger, granted>>

\* The command that went on has acted and consumes the approval.
Consume(id, plan) ==
  /\ <<id, plan>> \in cleared
  /\ ledger' = ConsumeIn(ledger, id, plan)
  /\ UNCHANGED <<cleared, granted>>

Next ==
  \/ \E plan \in Plans : EnsureRequest(plan)
  \/ \E id \in ApprovalIds, actor \in Actors : Approve(id, actor) \/ Deny(id, actor)
  \/ \E id \in ApprovalIds, plan \in Plans : Clear(id, plan) \/ Consume(id, plan)

Spec == Init /\ [][Next]_vars

-----------------------------------------------------------------------------
(* The ledger holds records, one per approval id (_load_records).          *)
TypeOK ==
  /\ ledger \in Ledger
  /\ cleared \subseteq ApprovalIds \X Plans
  /\ granted \subseteq ApprovalIds

(* The agent cannot approve itself: whatever is approved or was used up    *)
(* was approved by a teacher, through every deny and re-run in between     *)
(* (approve_request, consume_approval).                                    *)
UsedOnlyIfGranted ==
  \A id \in ApprovalIds : ledger[id].status \in {"approved", "consumed"} => id \in granted

(* An approval authorizes one plan only: a command that was let through    *)
(* holds an id whose record is for that very plan and that a teacher       *)
(* approved, though two plans may share the id (approval_is_approved).     *)
ClearedForItsOwnPlan ==
  \A id \in ApprovalIds, plan \in Plans :
    <<id, plan>> \in cleared => id \in granted /\ ledger[id].plan = plan

(* What a command is let through for was granted, for that very plan, and  *)
(* so was all that is approved or used up: neither of the two holds        *)
(* without the other (approve_request, approval_is_approved).              *)
OnlyAsGranted == UsedOnlyIfGranted /\ ClearedForItsOwnPlan

(* A spent or refused approval is never usable again: no sequence of       *)
(* ensure, approve and deny brings a consumed or denied record back to     *)
(* planned or approved, and its plan is never rebound.                     *)
TerminalIsFinal ==
  [][\A id \in ApprovalIds :
       /\ ledger[id].status \in {"consumed", "denied"}
            => ledger'[id].status \in {"consumed", "denied"}
       /\ Exists(ledger, id) => Exists(ledger, id)' /\ ledger'[id].plan = ledger[id].plan]_vars
=============================================================================
