----------------------------- MODULE OutwardSend -----------------------------
(***************************************************************************)
(* Commands that reach another person: `gws gmail send` (gws_handlers.py)  *)
(* and `kakao chats reply` (kakao_handlers.py), which share one gate       *)
(* (integration_modules.py).  A command asks the ledger whether its send   *)
(* is refused or spent, whether the id it was given approves it, and       *)
(* otherwise files a request; once let through it sends, then consumes the *)
(* approval.  Each question and each change is a separate access to the    *)
(* ledger, and the teacher's commands run between them.                    *)
(*                                                                         *)
(* The approval is for a plan id made of the recipient and of the subject  *)
(* or the first 60 characters of the text, so PlanOf may send two messages *)
(* to one plan.  The network may lose the answer to a send that arrived.   *)
(***************************************************************************)
EXTENDS Naturals, FiniteSets

CONSTANTS
  Sends,      \* messages to a recipient
  PlanOf,     \* the plan id the gate makes of a send
  Plans, ApprovalIds, IdOf, Teachers, Agent, NoPlan, Nobody,
  Procs,      \* agent processes
  MaxActive,  \* commands that run at the same time
  MaxRuns,    \* bound: commands started in all
  MaxDeaths,  \* bound: commands killed, or left without an answer
  NoSend, NoId

ASSUME LedgerAssumption ==
  /\ IdOf \in [Plans -> ApprovalIds]
  /\ Agent \notin Teachers /\ Nobody \notin Teachers
  /\ NoPlan \notin Plans
ASSUME SendAssumption ==
  /\ PlanOf \in [Sends -> Plans] /\ NoSend \notin Sends /\ NoId \notin ApprovalIds
  /\ MaxActive \in Nat /\ MaxRuns \in Nat /\ MaxDeaths \in Nat

VARIABLES
  ledger, cleared, granted,  \* as in ApprovalLedger
  pc,         \* per process: what it does next
  job,        \* per process: the send it is for
  given,      \* per process: the id passed with --approval-id
  reply,      \* per process: the id its NEEDS_APPROVAL reply names
  runs,
  sent,       \* history: sends that reached their recipient
  used,       \* history: per plan, how often one did
  died,       \* history: per plan, runs that sent and did not consume
  deaths,
  overlap     \* history: two commands ran at the same time

ledgerVars == <<ledger, cleared, granted>>
worldVars == <<sent, used, died, deaths, overlap>>
vars == <<ledgerVars, pc, job, given, reply, runs, worldVars>>

L == INSTANCE ApprovalLedger

Plan(p) == PlanOf[job[p]]
Active == {p \in Procs : pc[p] # "idle"}
Goto(p, step) == pc' = [pc EXCEPT ![p] = step]

-----------------------------------------------------------------------------
Init ==
  /\ L!Init
  /\ pc = [p \in Procs |-> "idle"]
  /\ job = [p \in Procs |-> NoSend]
  /\ given = [p \in Procs |-> NoId]
  /\ reply = [p \in Procs |-> NoId]
  /\ runs = 0 /\ deaths = 0
  /\ sent = {}
  /\ used = [plan \in Plans |-> 0]
  /\ died = [plan \in Plans |-> 0]
  /\ overlap = FALSE

Start(p, s, id) ==
  /\ pc[p] = "idle" /\ Cardinality(Active) < MaxActive /\ runs < MaxRuns
  /\ Goto(p, "unavailable?")
  /\ job' = [job EXCEPT ![p] = s]
  /\ given' = [given EXCEPT ![p] = id]
  /\ reply' = [reply EXCEPT ![p] = NoId]
  /\ runs' = runs + 1
  /\ overlap' = (overlap \/ Active # {})
  /\ UNCHANGED <<ledgerVars, sent, used, died, deaths>>

\* Refused or used before, under the id this plan has.
Unavailable(p) ==
  \E status \in {"denied", "consumed"} :
    L!HasStatus(ledger, IdOf[Plan(p)], Plan(p), status)

CheckUnavailable(p) ==
  /\ pc[p] = "unavailable?"
  /\ Goto(p, IF Unavailable(p) THEN "idle" ELSE "approved?")
  /\ UNCHANGED <<ledgerVars, job, given, reply, runs, worldVars>>

Approved(p) == given[p] # NoId /\ L!HasStatus(ledger, given[p], Plan(p), "approved")

CheckApproved(p) ==
  /\ pc[p] = "approved?"
  /\ IF Approved(p)
     THEN L!Clear(given[p], Plan(p)) /\ Goto(p, "send")
     ELSE Goto(p, "ensure") /\ UNCHANGED ledgerVars
  /\ UNCHANGED <<job, given, reply, runs, worldVars>>

\* A bug to be caught: the command goes on after filing its request.
EnsureAndGoOn(p) ==
  /\ pc[p] = "ensure"
  /\ L!EnsureRequest(Plan(p))
  /\ Goto(p, "send")
  /\ UNCHANGED <<job, given, reply, runs, worldVars>>

\* NEEDS_APPROVAL, with the id of the request.
Ensure(p) ==
  LET id == IdOf[Plan(p)] IN
  /\ pc[p] = "ensure"
  /\ L!EnsureRequest(Plan(p))
  /\ reply' = [reply EXCEPT ![p] = id]
  /\ Goto(p, "idle")
  /\ UNCHANGED <<job, given, runs, worldVars>>

\* gmail_send or page.send_chat_reply returns.
SendArrives(p) ==
  /\ pc[p] = "send"
  /\ sent' = sent \cup {job[p]}
  /\ used' = [used EXCEPT ![Plan(p)] = @ + 1]
  /\ Goto(p, "consume")
  /\ UNCHANGED <<ledgerVars, job, given, reply, runs, died, deaths, overlap>>

\* It raises, and the message was not sent ...
SendFails(p) ==
  /\ pc[p] = "send"
  /\ Goto(p, "idle")
  /\ UNCHANGED <<ledgerVars, job, given, reply, runs, worldVars>>

\* ... or it was, and the answer got lost.
AnswerLost(p) ==
  /\ pc[p] = "send" /\ deaths < MaxDeaths
  /\ sent' = sent \cup {job[p]}
  /\ used' = [used EXCEPT ![Plan(p)] = @ + 1]
  /\ died' = [died EXCEPT ![Plan(p)] = @ + 1]
  /\ deaths' = deaths + 1
  /\ Goto(p, "idle")
  /\ UNCHANGED <<ledgerVars, job, given, reply, runs, overlap>>

\* A bug to be caught: the send is not followed by consume_outward_send.
ConsumeForgotten(p) ==
  /\ pc[p] = "consume"
  /\ Goto(p, "idle")
  /\ UNCHANGED <<ledgerVars, job, given, reply, runs, worldVars>>

Consume(p) ==
  /\ pc[p] = "consume"
  /\ L!Consume(given[p], Plan(p))
  /\ Goto(p, "idle")
  /\ UNCHANGED <<job, given, reply, runs, worldVars>>

\* The process is killed; between sending and consuming that matters.
Crash(p) ==
  /\ pc[p] # "idle" /\ deaths < MaxDeaths
  /\ died' = IF pc[p] = "consume" THEN [died EXCEPT ![Plan(p)] = @ + 1] ELSE died
  /\ deaths' = deaths + 1
  /\ Goto(p, "idle")
  /\ UNCHANGED <<ledgerVars, job, given, reply, runs, sent, used, overlap>>

\* The teacher, or for a denial the agent, in another process.
Decide(id, actor) ==
  /\ L!Approve(id, actor) \/ L!Deny(id, actor)
  /\ UNCHANGED <<pc, job, given, reply, runs, worldVars>>

Next ==
  \/ \E p \in Procs :
       \/ \E s \in Sends, id \in ApprovalIds \cup {NoId} : Start(p, s, id)
       \/ CheckUnavailable(p) \/ CheckApproved(p) \/ Ensure(p)
       \/ SendArrives(p) \/ SendFails(p) \/ AnswerLost(p)
       \/ Consume(p) \/ Crash(p)
  \/ \E id \in ApprovalIds, actor \in L!Actors : Decide(id, actor)

Spec == Init /\ [][Next]_vars

-----------------------------------------------------------------------------
(* The sends, the processes and what they did so far.                      *)
TypeOK ==
  /\ L!TypeOK
  /\ pc \in [Procs -> {"idle", "unavailable?", "approved?", "ensure", "send", "consume"}]
  /\ job \in [Procs -> Sends \cup {NoSend}]
  /\ given \in [Procs -> ApprovalIds \cup {NoId}]
  /\ reply \in [Procs -> ApprovalIds \cup {NoId}]
  /\ runs \in 0..MaxRuns /\ deaths \in 0..MaxDeaths
  /\ sent \subseteq Sends
  /\ used \in [Plans -> 0..MaxRuns] /\ died \in [Plans -> 0..MaxDeaths]
  /\ overlap \in BOOLEAN

(* Nothing reaches another person for which a teacher did not approve a    *)
(* record of the very plan, with any number of overlapping commands and    *)
(* deaths (evaluate_outward_send).                                         *)
SentOnlyIfGranted ==
  \A s \in sent : \E id \in ApprovalIds : id \in granted /\ ledger[id].plan = PlanOf[s]

(* An approval is spent by a send that happened, never by one that failed: *)
(* the teacher is not asked twice for nothing.  And as long as no two      *)
(* commands overlap, a plan is used once, and once more for each run that  *)
(* died, or lost the answer, after sending and before consuming.  Commands *)
(* that overlap may all find the plan approved before the first of them    *)
(* has consumed it; but it goes out no more often than commands ran at the *)
(* same time, and such deaths: who comes after the first to consume is     *)
(* turned away (evaluate_outward_send, consume_outward_send).              *)
UsesAccountedFor ==
  /\ \A id \in ApprovalIds :
       ledger[id].status = "consumed" => \E s \in sent : PlanOf[s] = ledger[id].plan
  /\ \A plan \in Plans : used[plan] <= died[plan] + (IF overlap THEN MaxActive ELSE 1)

(* external-integration-contract.md: a re-run can never reuse an approval. *)
SingleUse == \A plan \in Plans : used[plan] <= 1
=============================================================================
