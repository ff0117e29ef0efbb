-------------------------- MODULE OutwardSendProofs --------------------------
(***************************************************************************)
(* Every step of OutwardSend is a step of ApprovalLedger or leaves the     *)
(* ledger alone, for any number of overlapping commands, crashes and lost  *)
(* answers; so what the ledger keeps holds here, and with it that nothing  *)
(* is sent without a teacher's grant.  An approval is spent by a send, and *)
(* a plan is used again only after a run that died between the two, or by  *)
(* commands that ran at the same time.                                     *)
(***************************************************************************)
EXTENDS OutwardSend, FiniteSetTheorems, TLAPS

(* Ids the ledger has no record for carry no plan.                         *)
AbsentHasNoPlan ==
  \A id \in ApprovalIds : ledger[id].status = "absent" => ledger[id].plan = NoPlan

LedgerInv == L!TypeOK /\ L!UsedOnlyIfGranted /\ L!ClearedForItsOwnPlan /\ AbsentHasNoPlan

\* What one command may do to one record.
StepOf(id) ==
  /\ ledger[id].status \in {"consumed", "denied"}
       => ledger'[id].status \in {"consumed", "denied"}
  /\ L!Exists(ledger, id) => L!Exists(ledger', id) /\ ledger'[id].plan = ledger[id].plan

USE DEF L!Ledger, L!Record, L!Statuses, L!Actors, L!NoRecord, L!Exists

(* ensure_approval_request keeps a ledger a ledger and touches no record   *)
(* that exists.                                                            *)
LEMMA EnsureLemma ==
  ASSUME NEW recs \in L!Ledger, NEW plan \in Plans
  PROVE  /\ L!EnsureIn(recs, plan) \in L!Ledger
         /\ \A id \in ApprovalIds :
              L!Exists(recs, id) => L!EnsureIn(recs, plan)[id] = recs[id]
         /\ \A id \in ApprovalIds :
              ~L!Exists(recs, id) => L!EnsureIn(recs, plan)[id].status \in {"absent", "planned"}
  BY LedgerAssumption DEF L!EnsureIn

-----------------------------------------------------------------------------
LEMMA LedgerInit == L!Init => LedgerInv
  BY DEF L!Init, LedgerInv, L!TypeOK, L!UsedOnlyIfGranted, L!ClearedForItsOwnPlan,
     AbsentHasNoPlan, L!EmptyLedger

(* Every command keeps the invariant, and does to each record only what    *)
(* StepOf allows.                                                          *)
LEMMA LedgerKept ==
  LedgerInv /\ [L!Next]_(L!vars) => LedgerInv' /\ \A id \in ApprovalIds : StepOf(id)
  <1> SUFFICES ASSUME LedgerInv, [L!Next]_(L!vars)
               PROVE  LedgerInv' /\ \A id \in ApprovalIds : StepOf(id)
    OBVIOUS
  <1> USE DEF LedgerInv, L!TypeOK, L!UsedOnlyIfGranted, L!ClearedForItsOwnPlan,
              AbsentHasNoPlan, StepOf
  <1>1. ASSUME NEW plan \in Plans, L!EnsureRequest(plan)
        PROVE  LedgerInv' /\ \A id \in ApprovalIds : StepOf(id)
    <2>1. ASSUME NEW id \in ApprovalIds
          PROVE  \/ ledger'[id] = ledger[id]
                 \/ /\ ledger[id].status = "absent"
                    /\ ledger'[id].status = "planned"
      BY <1>1, LedgerAssumption DEF L!EnsureRequest, L!EnsureIn
    <2>2. L!TypeOK' /\ cleared' = cleared /\ granted' = granted
      BY <1>1, EnsureLemma DEF L!EnsureRequest
    <2>3. L!ClearedForItsOwnPlan'
      BY <2>1, <2>2, LedgerAssumption
    <2>4. L!UsedOnlyIfGranted' /\ AbsentHasNoPlan'
      BY <2>1, <2>2
    <2> QED
      BY <2>1, <2>2, <2>3, <2>4
  <1>2. ASSUME NEW id \in ApprovalIds, NEW actor \in L!Actors, L!Approve(id, actor)
        PROVE  LedgerInv' /\ \A i \in ApprovalIds : StepOf(i)
    <2>1. actor \in Teachers /\ ledger[id].status \notin {"absent", "consumed", "denied"}
      BY <1>2 DEF L!Approve, L!MayApprove
    <2>2. granted' = granted \cup {id} /\ cleared' = cleared
      BY <1>2, <2>1 DEF L!Approve
    <2>3. /\ ledger' \in L!Ledger
          /\ ledger'[id].status = "approved" /\ ledger'[id].plan = ledger[id].plan
          /\ \A i \in ApprovalIds \ {id} : ledger'[i] = ledger[i]
      BY <1>2 DEF L!Approve, L!ApproveIn
    <2> QED
      BY <2>1, <2>2, <2>3
  <1>3. ASSUME NEW id \in ApprovalIds, NEW actor \in L!Actors, L!Deny(id, actor)
        PROVE  LedgerInv' /\ \A i \in ApprovalIds : StepOf(i)
    <2>1. /\ ledger' \in L!Ledger
          /\ ledger'[id].status = "denied" /\ ledger'[id].plan = ledger[id].plan
          /\ \A i \in ApprovalIds \ {id} : ledger'[i] = ledger[i]
      BY <1>3 DEF L!Deny, L!DenyIn
    <2> QED
      BY <1>3, <2>1 DEF L!Deny
  <1>4. ASSUME NEW id \in ApprovalIds, NEW plan \in Plans, L!Clear(id, plan)
        PROVE  LedgerInv' /\ \A i \in ApprovalIds : StepOf(i)
    BY <1>4 DEF L!Clear, L!HasStatus
  <1>5. ASSUME NEW id \in ApprovalIds, NEW plan \in Plans, L!Consume(id, plan)
        PROVE  LedgerInv' /\ \A i \in ApprovalIds : StepOf(i)
    <2>1. id \in granted /\ ledger[id].plan = plan /\ ledger[id].status # "absent"
      BY <1>5, LedgerAssumption DEF L!Consume
    <2>2. /\ ledger' \in L!Ledger
          /\ ledger'[id].status = "consumed" /\ ledger'[id].plan = ledger[id].plan
          /\ \A i \in ApprovalIds \ {id} : ledger'[i] = ledger[i]
      BY <1>5, <2>1 DEF L!Consume, L!ConsumeIn
    <2> QED
      BY <1>5, <2>1, <2>2 DEF L!Consume
  <1>6. CASE UNCHANGED L!vars
    BY <1>6 DEF L!vars
  <1> QED
    BY <1>1, <1>2, <1>3, <1>4, <1>5, <1>6 DEF L!Next

HIDE DEF L!Ledger, L!Record, L!Statuses, L!Actors, L!NoRecord, L!Exists

-----------------------------------------------------------------------------
(* What the processes have to do with the ledger: a command past the gate  *)
(* was cleared for its own plan, and so was every send that happened.      *)
JobOK ==
  /\ pc \in [Procs -> {"idle", "unavailable?", "approved?", "ensure", "send", "consume"}]
  /\ job \in [Procs -> Sends \cup {NoSend}]
  /\ given \in [Procs -> ApprovalIds \cup {NoId}]
  /\ \A p \in Procs : pc[p] # "idle" => job[p] \in Sends

PastGate ==
  \A p \in Procs : pc[p] \in {"send", "consume"} =>
    given[p] \in ApprovalIds /\ <<given[p], Plan(p)>> \in cleared

SentCleared ==
  \A s \in sent : s \in Sends /\ \E id \in ApprovalIds : <<id, PlanOf[s]>> \in cleared

GateInv == JobOK /\ PastGate /\ SentCleared

LEMMA GateInit == Init => GateInv
  BY DEF Init, GateInv, JobOK, PastGate, SentCleared

-----------------------------------------------------------------------------
(* Every step is a ledger step or leaves the ledger alone.                 *)
LEMMA LedgerStep == GateInv /\ [Next]_vars => [L!Next]_(L!vars)
  <1> SUFFICES ASSUME GateInv, [Next]_vars
               PROVE  L!Next \/ UNCHANGED L!vars
    OBVIOUS
  <1> USE SendAssumption DEF GateInv, JobOK, PastGate, Plan, ledgerVars, L!vars
  <1>1. ASSUME NEW p \in Procs, CheckApproved(p)
        PROVE  L!Next \/ UNCHANGED L!vars
    <2>1. CASE ~Approved(p)
      BY <1>1, <2>1 DEF CheckApproved
    <2>2. CASE Approved(p)
      <3>1. given[p] \in ApprovalIds /\ Plan(p) \in Plans
        BY <1>1, <2>2 DEF CheckApproved, Approved
      <3>2. L!Clear(given[p], Plan(p))
        BY <1>1, <2>2 DEF CheckApproved, L!Clear, L!HasStatus
      <3> QED
        BY <3>1, <3>2 DEF L!Next
    <2> QED
      BY <2>1, <2>2
  <1>2. ASSUME NEW p \in Procs, Ensure(p)
        PROVE  L!Next \/ UNCHANGED L!vars
    <2>1. Plan(p) \in Plans
      BY <1>2 DEF Ensure
    <2>2. L!EnsureRequest(Plan(p))
      BY <1>2 DEF Ensure, L!EnsureRequest, L!EnsureIn,
         L!Exists
    <2> QED
      BY <2>1, <2>2 DEF L!Next
  <1>3. ASSUME NEW p \in Procs, Consume(p)
        PROVE  L!Next \/ UNCHANGED L!vars
    <2>1. given[p] \in ApprovalIds /\ Plan(p) \in Plans
      BY <1>3 DEF Consume
    <2>2. L!Consume(given[p], Plan(p))
      BY <1>3 DEF Consume, L!Consume, L!ConsumeIn
    <2> QED
      BY <2>1, <2>2 DEF L!Next
  <1>4. ASSUME NEW id \in ApprovalIds, NEW actor \in L!Actors, Decide(id, actor)
        PROVE  L!Next \/ UNCHANGED L!vars
    <2>1. L!Approve(id, actor) \/ L!Deny(id, actor)
      BY <1>4 DEF Decide, L!Approve, L!MayApprove,
         L!ApproveIn, L!Deny, L!DenyIn, L!Exists
    <2> QED
      BY <2>1 DEF L!Next
  <1>5. ASSUME NEW p \in Procs,
               \/ \E s \in Sends, id \in ApprovalIds \cup {NoId} : Start(p, s, id)
               \/ CheckUnavailable(p) \/ SendArrives(p) \/ SendFails(p)
               \/ AnswerLost(p) \/ Crash(p)
        PROVE  UNCHANGED L!vars
    BY <1>5 DEF Start, CheckUnavailable, SendArrives, SendFails, AnswerLost, Crash
  <1>6. CASE UNCHANGED vars
    BY <1>6 DEF vars
  <1> QED
    BY <1>1, <1>2, <1>3, <1>4, <1>5, <1>6 DEF Next

(* The gate: only CheckApproved lets a command through, and clearing is    *)
(* for good.                                                               *)
LEMMA GateStep == GateInv /\ [Next]_vars => GateInv'
  <1> SUFFICES ASSUME GateInv, [Next]_vars
               PROVE  GateInv'
    OBVIOUS
  <1> USE SendAssumption
      DEF GateInv, JobOK, PastGate, SentCleared, Plan, Goto, ledgerVars, worldVars
  <1>1. ASSUME NEW p \in Procs, NEW s \in Sends, NEW id \in ApprovalIds \cup {NoId},
               Start(p, s, id)
        PROVE  GateInv'
    BY <1>1 DEF Start
  <1>2. ASSUME NEW p \in Procs, CheckUnavailable(p)
        PROVE  GateInv'
    BY <1>2 DEF CheckUnavailable
  <1>3. ASSUME NEW p \in Procs, CheckApproved(p)
        PROVE  GateInv'
    <2>1. CASE Approved(p)
      <3>1. given[p] \in ApprovalIds
        BY <2>1 DEF Approved
      <3>2. cleared' = cleared \cup {<<given[p], Plan(p)>>}
        BY <1>3, <2>1 DEF CheckApproved, L!Clear
      <3> QED
        BY <1>3, <2>1, <3>1, <3>2 DEF CheckApproved
    <2>2. CASE ~Approved(p)
      BY <1>3, <2>2 DEF CheckApproved
    <2> QED
      BY <2>1, <2>2
  <1>4. ASSUME NEW p \in Procs, Ensure(p)
        PROVE  GateInv'
    BY <1>4 DEF Ensure, L!EnsureRequest
  <1>5. ASSUME NEW p \in Procs, SendArrives(p) \/ AnswerLost(p)
        PROVE  GateInv'
    BY <1>5 DEF SendArrives, AnswerLost
  <1>6. ASSUME NEW p \in Procs, SendFails(p) \/ Crash(p)
        PROVE  GateInv'
    BY <1>6 DEF SendFails, Crash
  <1>7. ASSUME NEW p \in Procs, Consume(p)
        PROVE  GateInv'
    BY <1>7 DEF Consume, L!Consume
  <1>8. ASSUME NEW id \in ApprovalIds, NEW actor \in L!Actors, Decide(id, actor)
        PROVE  GateInv'
    BY <1>8 DEF Decide, L!Approve, L!Deny
  <1>9. CASE UNCHANGED vars
    BY <1>9 DEF vars
  <1> QED
    BY <1>1, <1>2, <1>3, <1>4, <1>5, <1>6, <1>7, <1>8, <1>9 DEF Next

-----------------------------------------------------------------------------
(* How often a plan is used.  The record of a plan is filed under one id,  *)
(* and once it is used up or refused no command gets past its first        *)
(* question; so as long as commands do not overlap, the one send more than *)
(* there were deaths is the last.                                          *)

\* The record of the plan is used up or refused, which it stays.
Spent(plan) ==
  ledger[IdOf[plan]].plan = plan /\ ledger[IdOf[plan]].status \in {"consumed", "denied"}

FiledUnderItsId ==
  \A id \in ApprovalIds, plan \in Plans : ledger[id].plan = plan => IdOf[plan] = id

SpentBySends ==
  /\ \A p \in Procs : pc[p] = "consume" => job[p] \in sent
  /\ \A id \in ApprovalIds :
       ledger[id].status = "consumed" => \E s \in sent : PlanOf[s] = ledger[id].plan

\* What is left to a command past its first question, and to one that sent.
MaySend(p) == pc[p] \in {"approved?", "ensure", "send"} => used[Plan(p)] <= died[Plan(p)]
LastUse(plan) == Spent(plan) \/ \E p \in Procs : pc[p] = "consume" /\ Plan(p) = plan

Counted(plan) ==
  \/ used[plan] <= died[plan]
  \/ used[plan] = died[plan] + 1 /\ LastUse(plan)

UsesCounted ==
  /\ used \in [Plans -> Nat] /\ died \in [Plans -> Nat]
  /\ ~overlap =>
       /\ \A p, q \in Procs : pc[p] # "idle" /\ pc[q] # "idle" => p = q
       /\ \A p \in Procs : MaySend(p)
       /\ \A plan \in Plans : Counted(plan)

UseInv == FiledUnderItsId /\ SpentBySends /\ UsesCounted

LEMMA UseInit == Init => UseInv
  <1> SUFFICES ASSUME Init PROVE UseInv
    OBVIOUS
  <1>1. \A id \in ApprovalIds : ledger[id].status = "absent" /\ ledger[id].plan = NoPlan
    BY DEF Init, L!Init, L!EmptyLedger, L!NoRecord
  <1>2. FiledUnderItsId /\ SpentBySends
    BY <1>1, LedgerAssumption DEF Init, FiledUnderItsId, SpentBySends
  <1>3. UsesCounted
    BY DEF Init, UsesCounted, MaySend, Counted
  <1> QED
    BY <1>2, <1>3 DEF UseInv

(* What a step does to the ledger: nothing, or it files the plan of the    *)
(* command under its id, consumes what the command was given, or decides.  *)
LEMMA RecordsStep ==
  ASSUME LedgerInv, GateInv, FiledUnderItsId, [Next]_vars, NEW id \in ApprovalIds
  PROVE  /\ \A plan \in Plans : ledger'[id].plan = plan => IdOf[plan] = id
         /\ ledger'[id].status = "consumed" =>
              \/ ledger[id].status = "consumed" /\ ledger'[id].plan = ledger[id].plan
              \/ \E p \in Procs : /\ pc[p] = "consume" /\ sent' = sent
                                  /\ ledger'[id].plan = Plan(p)
  <1> USE DEF LedgerInv, L!TypeOK, L!Ledger, L!Record, L!Statuses, L!Actors
  <1>1. CASE ledger'[id] = ledger[id]
    BY <1>1 DEF FiledUnderItsId
  <1>2. ASSUME NEW p \in Procs, Ensure(p)
        PROVE  \/ ledger'[id] = ledger[id]
               \/ ledger'[id].status = "planned" /\ IdOf[Plan(p)] = id /\ ledger'[id].plan = Plan(p)
    <2>1. job[p] \in Sends
      BY <1>2 DEF GateInv, JobOK, Ensure
    <2>2. Plan(p) \in Plans /\ IdOf[Plan(p)] \in ApprovalIds
      BY <2>1, SendAssumption, LedgerAssumption DEF Plan
    <2>3. /\ ledger \in [ApprovalIds -> L!Record]
          /\ ledger' = L!EnsureIn(ledger, Plan(p))
      BY <1>2 DEF Ensure, L!EnsureRequest
    <2> HIDE DEF L!Record
    <2> QED
      BY <2>2, <2>3 DEF L!EnsureIn, L!Exists
  <1>3. ASSUME NEW p \in Procs, Consume(p)
        PROVE  \/ ledger'[id] = ledger[id]
               \/ ledger[id].plan = Plan(p) /\ ledger'[id].plan = Plan(p)
    <2>1. /\ ledger \in [ApprovalIds -> L!Record]
          /\ ledger' = L!ConsumeIn(ledger, given[p], Plan(p))
      BY <1>3 DEF Consume, L!Consume
    <2> HIDE DEF L!Record
    <2> QED
      BY <2>1 DEF L!ConsumeIn
  <1>4. ASSUME NEW other \in ApprovalIds, NEW actor \in L!Actors, Decide(other, actor)
        PROVE  /\ ledger'[id].plan = ledger[id].plan
               /\ ledger'[id] = ledger[id] \/ ledger'[id].status # "consumed"
    BY <1>4 DEF Decide, L!Approve, L!ApproveIn, L!Deny, L!DenyIn
  <1>5. ASSUME NEW p \in Procs, CheckApproved(p) PROVE ledger' = ledger
    BY <1>5 DEF CheckApproved, L!Clear, ledgerVars
  <1>6. ASSUME NEW p \in Procs,
               \/ \E s \in Sends, i \in ApprovalIds \cup {NoId} : Start(p, s, i)
               \/ CheckUnavailable(p) \/ SendArrives(p) \/ SendFails(p)
               \/ AnswerLost(p) \/ Crash(p)
        PROVE  ledger' = ledger
    BY <1>6 DEF Start, CheckUnavailable, SendArrives, SendFails, AnswerLost, Crash, ledgerVars
  <1>7. CASE UNCHANGED vars
    BY <1>1, <1>7 DEF vars, ledgerVars
  <1>8. ASSUME NEW p \in Procs, Ensure(p)
        PROVE  /\ \A plan \in Plans : ledger'[id].plan = plan => IdOf[plan] = id
               /\ ledger'[id].status = "consumed" =>
                    ledger[id].status = "consumed" /\ ledger'[id].plan = ledger[id].plan
    BY <1>1, <1>2, <1>8
  <1>9. ASSUME NEW p \in Procs, Consume(p)
        PROVE  /\ \A plan \in Plans : ledger'[id].plan = plan => IdOf[plan] = id
               /\ \/ ledger'[id] = ledger[id]
                  \/ pc[p] = "consume" /\ sent' = sent /\ ledger'[id].plan = Plan(p)
    <2>1. pc[p] = "consume" /\ sent' = sent
      BY <1>9 DEF Consume, worldVars
    <2> QED
      BY <2>1, <1>3, <1>9 DEF FiledUnderItsId
  <1>10. ASSUME NEW other \in ApprovalIds, NEW actor \in L!Actors, Decide(other, actor)
        PROVE  /\ \A plan \in Plans : ledger'[id].plan = plan => IdOf[plan] = id
               /\ ledger'[id].status = "consumed" =>
                    ledger[id].status = "consumed" /\ ledger'[id].plan = ledger[id].plan
    BY <1>4, <1>10 DEF FiledUnderItsId
  <1> QED
    BY <1>1, <1>5, <1>6, <1>7, <1>8, <1>9, <1>10 DEF Next

\* A plan whose record is used up or refused stays so.
LEMMA SpentStays ==
  ASSUME LedgerInv, GateInv, [Next]_vars, NEW plan \in Plans, Spent(plan)
  PROVE  Spent(plan)'
  <1>1. IdOf[plan] \in ApprovalIds
    BY LedgerAssumption
  <1>2. \A id \in ApprovalIds : StepOf(id)
    BY LedgerStep, LedgerKept
  <1> QED
    BY <1>1, <1>2 DEF Spent, StepOf, L!Exists

LEMMA BySendsStep ==
  ASSUME LedgerInv, GateInv, UseInv, [Next]_vars
  PROVE  SpentBySends'
  <1> USE DEF GateInv, JobOK, Goto, ledgerVars, worldVars
  <1>1. sent \subseteq sent' /\ \A p \in Procs : pc'[p] = "consume" => job'[p] \in sent'
    <2> USE DEF UseInv, SpentBySends
    <2>1. ASSUME NEW p \in Procs, NEW s \in Sends, NEW id \in ApprovalIds \cup {NoId}, Start(p, s, id)
          PROVE  sent \subseteq sent' /\ \A q \in Procs : pc'[q] = "consume" => job'[q] \in sent'
      BY <2>1 DEF Start
    <2>2. ASSUME NEW p \in Procs,
                 \/ CheckUnavailable(p) \/ CheckApproved(p) \/ Ensure(p) \/ SendFails(p)
                 \/ Consume(p) \/ Crash(p)
          PROVE  sent \subseteq sent' /\ \A q \in Procs : pc'[q] = "consume" => job'[q] \in sent'
      BY <2>2 DEF CheckUnavailable, CheckApproved, Ensure, SendFails, Consume, Crash
    <2>3. ASSUME NEW p \in Procs, SendArrives(p) \/ AnswerLost(p)
          PROVE  sent \subseteq sent' /\ \A q \in Procs : pc'[q] = "consume" => job'[q] \in sent'
      BY <2>3 DEF SendArrives, AnswerLost
    <2>4. ASSUME NEW id \in ApprovalIds, NEW actor \in L!Actors, Decide(id, actor)
          PROVE  sent \subseteq sent' /\ \A q \in Procs : pc'[q] = "consume" => job'[q] \in sent'
      BY <2>4 DEF Decide
    <2>5. CASE UNCHANGED vars
      BY <2>5 DEF vars
    <2> QED
      BY <2>1, <2>2, <2>3, <2>4, <2>5 DEF Next
  <1>2. ASSUME NEW id \in ApprovalIds, ledger'[id].status = "consumed"
        PROVE  \E s \in sent' : PlanOf[s] = ledger'[id].plan
    <2>1. CASE ledger[id].status = "consumed" /\ ledger'[id].plan = ledger[id].plan
      BY <1>1, <2>1 DEF UseInv, SpentBySends
    <2>2. ASSUME NEW p \in Procs, pc[p] = "consume", sent' = sent, ledger'[id].plan = Plan(p)
          PROVE  \E s \in sent' : PlanOf[s] = ledger'[id].plan
      BY <2>2 DEF UseInv, SpentBySends, Plan
    <2> QED
      BY <1>2, <2>1, <2>2, RecordsStep DEF UseInv
  <1> QED
    BY <1>1, <1>2 DEF SpentBySends

\* A command that ends, and counts a death if it ends having sent.
LEMMA EndingCounted ==
  ASSUME GateInv, UseInv, NEW p \in Procs, Goto(p, "idle"), job' = job,
         used' \in [Plans -> Nat], died' \in [Plans -> Nat], overlap' = overlap,
         \A plan \in Plans : Spent(plan) => Spent(plan)',
         pc[p] # "idle",
         ~overlap => \A plan \in Plans :
           \/ used'[plan] <= died'[plan]
           \/ /\ used'[plan] = used[plan] /\ died'[plan] = died[plan]
              /\ pc[p] = "consume" /\ plan = Plan(p) => Spent(plan)'
  PROVE  UsesCounted'
  <1> SUFFICES ASSUME ~overlap
               PROVE  /\ \A q, r \in Procs : pc'[q] # "idle" /\ pc'[r] # "idle" => q = r
                      /\ \A q \in Procs : MaySend(q)'
                      /\ \A plan \in Plans : Counted(plan)'
    BY DEF UsesCounted
  <1>1. \A q \in Procs : pc'[q] = "idle"
    BY DEF UseInv, UsesCounted, GateInv, JobOK, Goto
  <1>2. ASSUME NEW plan \in Plans
        PROVE  Counted(plan)'
    <2>1. LastUse(plan) => Spent(plan) \/ (pc[p] = "consume" /\ plan = Plan(p))
      BY DEF LastUse, UseInv, UsesCounted
    <2>2. Counted(plan)
      BY DEF UseInv, UsesCounted
    <2>3. Spent(plan)' => LastUse(plan)'
      BY DEF LastUse
    <2> QED
      BY <2>1, <2>2, <2>3 DEF Counted
  <1> QED
    BY <1>1, <1>2 DEF MaySend

\* A step of a command that goes on and has not sent yet.
LEMMA GoingOnCounted ==
  ASSUME GateInv, UseInv, NEW p \in Procs, NEW step \in {"unavailable?", "approved?", "ensure", "send"},
         Goto(p, step), \A q \in Procs \ {p} : job'[q] = job[q], job'[p] \in Sends,
         UNCHANGED <<used, died>>, overlap => overlap',
         \A plan \in Plans : Spent(plan) => Spent(plan)',
         pc[p] # "consume",
         ~overlap' => \A q \in Procs \ {p} : pc[q] = "idle",
         ~overlap' /\ step # "unavailable?" => used[PlanOf[job'[p]]] <= died[PlanOf[job'[p]]]
  PROVE  UsesCounted'
  <1> SUFFICES ASSUME ~overlap'
               PROVE  /\ \A q, r \in Procs : pc'[q] # "idle" /\ pc'[r] # "idle" => q = r
                      /\ \A q \in Procs : MaySend(q)'
                      /\ \A plan \in Plans : Counted(plan)'
    BY DEF UseInv, UsesCounted
  <1>1. pc' = [pc EXCEPT ![p] = step] /\ \A q \in Procs \ {p} : pc'[q] = "idle"
    BY DEF GateInv, JobOK, Goto
  <1>2. \A q \in Procs : MaySend(q)'
    BY <1>1 DEF MaySend, Plan, GateInv, JobOK
  <1>3. ASSUME NEW plan \in Plans
        PROVE  Counted(plan)'
    <2>1. LastUse(plan) \/ Spent(plan) => Spent(plan)'
      BY DEF LastUse, GateInv, JobOK
    <2>2. Counted(plan)
      BY DEF UseInv, UsesCounted
    <2>3. Spent(plan)' => LastUse(plan)'
      BY DEF LastUse
    <2> QED
      BY <2>1, <2>2, <2>3 DEF Counted
  <1> QED
    BY <1>1, <1>2, <1>3

LEMMA CountedStep ==
  ASSUME LedgerInv, GateInv, UseInv, [Next]_vars
  PROVE  UsesCounted'
  <1>a. \A plan \in Plans : Spent(plan) => Spent(plan)'
    BY SpentStays
  <1>b. \A p \in Procs : pc[p] # "idle" => job[p] \in Sends /\ Plan(p) \in Plans
    BY SendAssumption DEF GateInv, JobOK, Plan
  <1>c. /\ used \in [Plans -> Nat] /\ died \in [Plans -> Nat]
        /\ ~overlap => /\ \A p, q \in Procs : pc[p] # "idle" /\ pc[q] # "idle" => p = q
                       /\ \A p \in Procs : MaySend(p)
    BY DEF UseInv, UsesCounted
  <1>1. ASSUME NEW p \in Procs, NEW s \in Sends, NEW id \in ApprovalIds \cup {NoId}, Start(p, s, id)
        PROVE  UsesCounted'
    <2>1. /\ Goto(p, "unavailable?") /\ job' = [job EXCEPT ![p] = s] /\ UNCHANGED <<used, died>>
          /\ overlap' = (overlap \/ Active # {}) /\ pc[p] = "idle"
      BY <1>1 DEF Start
    <2>2. job'[p] \in Sends /\ \A q \in Procs \ {p} : job'[q] = job[q]
      BY <2>1 DEF GateInv, JobOK
    <2>3. ~overlap' => \A q \in Procs \ {p} : pc[q] = "idle"
      BY <2>1 DEF Active
    <2> QED
      BY <1>a, <2>1, <2>2, <2>3, GoingOnCounted
  <1>2. ASSUME NEW p \in Procs, CheckUnavailable(p)
        PROVE  UsesCounted'
    <2>1. pc[p] = "unavailable?" /\ UNCHANGED <<job, used, died, overlap>>
      BY <1>2 DEF CheckUnavailable, worldVars
    <2>2. CASE Unavailable(p)
      <3>1. Goto(p, "idle")
        BY <1>2, <2>2 DEF CheckUnavailable
      <3> QED
        BY <1>a, <1>c, <2>1, <3>1, EndingCounted
    <2>3. CASE ~Unavailable(p)
      <3>1. Goto(p, "approved?") /\ ~Spent(Plan(p))
        BY <1>2, <2>3 DEF CheckUnavailable, Unavailable, L!HasStatus, Spent
      <3>2. ~overlap => ~LastUse(Plan(p)) /\ \A q \in Procs \ {p} : pc[q] = "idle"
        BY <1>c, <2>1, <3>1 DEF LastUse
      <3>3. ~overlap => used[Plan(p)] <= died[Plan(p)]
        BY <1>b, <2>1, <3>2 DEF UseInv, UsesCounted, Counted
      <3> QED
        BY <1>a, <1>b, <2>1, <3>1, <3>2, <3>3, GoingOnCounted DEF Plan
    <2> QED
      BY <2>2, <2>3
  <1>3. ASSUME NEW p \in Procs, CheckApproved(p)
        PROVE  UsesCounted'
    <2>1. pc[p] = "approved?" /\ UNCHANGED <<job, used, died, overlap>>
      BY <1>3 DEF CheckApproved, worldVars
    <2>2. PICK step \in {"ensure", "send"} : Goto(p, step)
      BY <1>3 DEF CheckApproved
    <2>3. ~overlap => used[Plan(p)] <= died[Plan(p)] /\ \A q \in Procs \ {p} : pc[q] = "idle"
      BY <1>c, <2>1 DEF MaySend
    <2> QED
      BY <1>a, <1>b, <2>1, <2>2, <2>3, GoingOnCounted DEF Plan
  <1>4. ASSUME NEW p \in Procs, Ensure(p) \/ SendFails(p)
        PROVE  UsesCounted'
    <2>1. /\ pc[p] \in {"ensure", "send"} /\ UNCHANGED <<job, used, died, overlap>>
          /\ Goto(p, "idle")
      BY <1>4 DEF Ensure, SendFails, worldVars
    <2> QED
      BY <1>a, <1>c, <2>1, EndingCounted
  <1>5. ASSUME NEW p \in Procs, SendArrives(p)
        PROVE  UsesCounted'
    <2>1. /\ pc[p] = "send" /\ used' = [used EXCEPT ![Plan(p)] = @ + 1] /\ Goto(p, "consume")
          /\ UNCHANGED <<job, died, overlap>>
      BY <1>5 DEF SendArrives
    <2>2. /\ pc' = [pc EXCEPT ![p] = "consume"] /\ pc'[p] = "consume"
          /\ used' \in [Plans -> Nat] /\ Plan(p)' = Plan(p)
      BY <1>b, <1>c, <2>1 DEF Goto, Plan, GateInv, JobOK
    <2>3. ASSUME ~overlap
          PROVE  /\ \A q, r \in Procs : pc'[q] # "idle" /\ pc'[r] # "idle" => q = r
                 /\ \A q \in Procs : MaySend(q)'
      BY <1>c, <2>1, <2>2, <2>3 DEF MaySend, GateInv, JobOK
    <2>4. ASSUME ~overlap, NEW plan \in Plans
          PROVE  Counted(plan)'
      <3>1. used[Plan(p)] <= died[Plan(p)] /\ \A q \in Procs : pc[q] # "consume"
        BY <1>c, <2>1, <2>4 DEF MaySend
      <3>2. CASE plan = Plan(p)
        <4>1. LastUse(plan)'
          BY <2>2, <3>2 DEF LastUse
        <4>2. used'[plan] = used[plan] + 1 /\ died'[plan] = died[plan]
          BY <1>c, <2>1, <3>2
        <4> QED
          BY <1>c, <3>1, <3>2, <4>1, <4>2 DEF Counted
      <3>3. CASE plan # Plan(p)
        <4>1. used'[plan] = used[plan] /\ died'[plan] = died[plan]
          BY <1>c, <2>1, <3>3
        <4>2. LastUse(plan) => LastUse(plan)'
          BY <1>a, <3>1 DEF LastUse
        <4>3. Counted(plan)
          BY <2>4 DEF UseInv, UsesCounted
        <4> QED
          BY <4>1, <4>2, <4>3 DEF Counted
      <3> QED
        BY <3>2, <3>3
    <2> QED
      BY <1>c, <2>1, <2>2, <2>3, <2>4 DEF UsesCounted
  <1>6. ASSUME NEW p \in Procs, AnswerLost(p)
        PROVE  UsesCounted'
    <2>1. /\ pc[p] = "send" /\ used' = [used EXCEPT ![Plan(p)] = @ + 1] /\ Goto(p, "idle")
          /\ died' = [died EXCEPT ![Plan(p)] = @ + 1] /\ UNCHANGED <<job, overlap>>
      BY <1>6 DEF AnswerLost
    <2>2. used' \in [Plans -> Nat] /\ died' \in [Plans -> Nat]
      BY <1>b, <1>c, <2>1
    <2>3. ASSUME ~overlap, NEW plan \in Plans
          PROVE  \/ used'[plan] <= died'[plan]
                 \/ used'[plan] = used[plan] /\ died'[plan] = died[plan]
      BY <1>c, <2>1, <2>3 DEF MaySend
    <2> QED
      BY <1>a, <2>1, <2>2, <2>3, EndingCounted
  <1>7. ASSUME NEW p \in Procs, Consume(p)
        PROVE  UsesCounted'
    <2>1. /\ pc[p] = "consume" /\ UNCHANGED <<job, used, died, overlap>> /\ Goto(p, "idle")
          /\ ledger' = L!ConsumeIn(ledger, given[p], Plan(p))
      BY <1>7 DEF Consume, worldVars, L!Consume
    <2>2. Plan(p) \in Plans /\ given[p] \in ApprovalIds /\ ledger[given[p]].plan = Plan(p)
      BY <1>b, <2>1 DEF GateInv, PastGate, LedgerInv, L!ClearedForItsOwnPlan
    <2>3. IdOf[Plan(p)] = given[p]
      BY <2>2 DEF UseInv, FiledUnderItsId
    <2>4. Spent(Plan(p))'
      <3>1. ledger'[given[p]] = [status |-> "consumed", plan |-> Plan(p), by |-> ledger[given[p]].by]
        BY <2>1, <2>2 DEF L!ConsumeIn, LedgerInv, L!TypeOK, L!Ledger
      <3>2. Plan(p)' = Plan(p)
        BY <2>1 DEF Plan
      <3>3. ledger'[IdOf[Plan(p)]].plan = Plan(p) /\ ledger'[IdOf[Plan(p)]].status = "consumed"
        BY <2>3, <3>1
      <3> QED
        BY <3>2, <3>3 DEF Spent
    <2> QED
      BY <1>a, <1>c, <2>1, <2>4, EndingCounted DEF Plan
  <1>8. ASSUME NEW p \in Procs, Crash(p)
        PROVE  UsesCounted'
    <2>1. /\ pc[p] # "idle" /\ UNCHANGED <<job, used, overlap>> /\ Goto(p, "idle")
          /\ died' = IF pc[p] = "consume" THEN [died EXCEPT ![Plan(p)] = @ + 1] ELSE died
      BY <1>8 DEF Crash
    <2>2. died' \in [Plans -> Nat]
      BY <1>b, <1>c, <2>1
    <2>3. ASSUME ~overlap, NEW plan \in Plans
          PROVE  \/ used'[plan] <= died'[plan]
                 \/ /\ used'[plan] = used[plan] /\ died'[plan] = died[plan]
                    /\ pc[p] = "consume" => plan # Plan(p)
      BY <1>c, <2>1, <2>3 DEF UseInv, UsesCounted, Counted
    <2> QED
      BY <1>a, <1>c, <2>1, <2>2, <2>3, EndingCounted
  <1>9. CASE (\E id \in ApprovalIds, actor \in L!Actors : Decide(id, actor)) \/ UNCHANGED vars
    <2>1. UNCHANGED <<pc, job, used, died, overlap>>
      BY <1>9 DEF Decide, worldVars, vars
    <2> QED
      BY <1>a, <2>1 DEF UseInv, UsesCounted, MaySend, LastUse, Plan, Counted
  <1> QED
    BY <1>1, <1>2, <1>3, <1>4, <1>5, <1>6, <1>7, <1>8, <1>9 DEF Next

LEMMA UseStep == ASSUME LedgerInv, GateInv PROVE UseInv /\ [Next]_vars => UseInv'
  BY RecordsStep, BySendsStep, CountedStep DEF UseInv, FiledUnderItsId

-----------------------------------------------------------------------------
(* How often a plan is used if commands overlap.  Until its record is      *)
(* spent, the uses beyond the deaths are held by commands about to consume *)
(* it; from then on no command joins those that are about to send.         *)
Holding(plan, step) == {p \in Procs : pc[p] = step /\ Plan(p) = plan}
Senders(plan) == Cardinality(Holding(plan, "send"))
Consumers(plan) == Cardinality(Holding(plan, "consume"))
Limited(plan) ==
  \/ used[plan] <= died[plan] + Consumers(plan)
  \/ Spent(plan) /\ used[plan] + Senders(plan) <= died[plan] + MaxActive
ActiveInv == IsFiniteSet(Active) /\ Cardinality(Active) <= MaxActive
OverlapInv == ActiveInv /\ \A plan \in Plans : Limited(plan)

LEMMA OverlapInit == Init => OverlapInv
  <1> SUFFICES ASSUME Init PROVE OverlapInv
    OBVIOUS
  <1>1. Active = {} /\ \A plan \in Plans : Holding(plan, "consume") = {}
    BY DEF Init, Active, Holding
  <1>2. ActiveInv
    BY <1>1, FS_EmptySet, SendAssumption DEF ActiveInv
  <1>3. \A plan \in Plans : Limited(plan)
    BY <1>1, FS_EmptySet DEF Init, Limited, Consumers
  <1> QED
    BY <1>2, <1>3 DEF OverlapInv

\* The commands of a plan that send and those that consume are active ones.
LEMMA HoldersCount ==
  ASSUME ActiveInv, NEW plan \in Plans
  PROVE  /\ IsFiniteSet(Holding(plan, "send")) /\ IsFiniteSet(Holding(plan, "consume"))
         /\ Senders(plan) \in Nat /\ Consumers(plan) \in Nat
         /\ Senders(plan) + Consumers(plan) <= MaxActive
  <1> DEFINE F == Holding(plan, "send")
             U == Holding(plan, "consume")
  <1>1. F \subseteq Active /\ U \subseteq Active /\ F \cap U = {} /\ F \cup U \subseteq Active
    BY DEF Holding, Active
  <1>2. IsFiniteSet(F) /\ IsFiniteSet(U) /\ IsFiniteSet(Active)
    BY <1>1, FS_Subset DEF ActiveInv
  <1> HIDE DEF F, U
  <1>3. Cardinality(F) \in Nat /\ Cardinality(U) \in Nat /\ Cardinality(Active) \in Nat
    BY <1>2, FS_CardinalityType
  <1>4. Cardinality(F \cup U) = Cardinality(F) + Cardinality(U)
    <2>1. Cardinality(F \cup U) = Cardinality(F) + Cardinality(U) - Cardinality(F \cap U)
      BY <1>2, FS_Union
    <2>2. Cardinality(F \cap U) = 0
      BY <1>1, FS_EmptySet
    <2> QED
      BY <1>3, <2>1, <2>2
  <1>5. Cardinality(F \cup U) <= Cardinality(Active)
    BY <1>1, <1>2, FS_Subset
  <1>6. Cardinality(F) + Cardinality(U) <= MaxActive
    BY <1>3, <1>4, <1>5, SendAssumption DEF ActiveInv
  <1> QED
    BY <1>2, <1>3, <1>6 DEF F, U, Senders, Consumers

LEMMA ActiveStep == ASSUME GateInv, ActiveInv, [Next]_vars PROVE ActiveInv'
  <1>1. ASSUME NEW p \in Procs, NEW s \in Sends, NEW id \in ApprovalIds \cup {NoId}, Start(p, s, id)
        PROVE  ActiveInv'
    <2>1. Active' = Active \cup {p} /\ p \notin Active /\ Cardinality(Active) < MaxActive
      BY <1>1 DEF Start, Goto, Active, GateInv, JobOK
    <2>2. IsFiniteSet(Active') /\ Cardinality(Active') = Cardinality(Active) + 1
      BY <2>1, FS_AddElement DEF ActiveInv
    <2>3. Cardinality(Active) \in Nat
      BY FS_CardinalityType DEF ActiveInv
    <2> QED
      BY <2>1, <2>2, <2>3, SendAssumption DEF ActiveInv
  <1>2. ASSUME Active' \subseteq Active
        PROVE  ActiveInv'
    <2>1. IsFiniteSet(Active') /\ Cardinality(Active') <= Cardinality(Active)
      BY <1>2, FS_Subset DEF ActiveInv
    <2>2. Cardinality(Active) \in Nat /\ Cardinality(Active') \in Nat
      BY <2>1, FS_CardinalityType DEF ActiveInv
    <2> QED
      BY <2>1, <2>2, SendAssumption DEF ActiveInv
  <1>3. ASSUME NEW p \in Procs,
               \/ CheckUnavailable(p) \/ CheckApproved(p) \/ Ensure(p) \/ SendFails(p)
               \/ SendArrives(p) \/ AnswerLost(p) \/ Consume(p) \/ Crash(p)
        PROVE  ActiveInv'
    <2>1. pc[p] # "idle" /\ \E step : pc' = [pc EXCEPT ![p] = step]
      BY <1>3 DEF CheckUnavailable, CheckApproved, Ensure, SendFails, SendArrives, AnswerLost,
                  Consume, Crash, Goto
    <2>2. Active' \subseteq Active
      BY <2>1 DEF Active, GateInv, JobOK
    <2> QED
      BY <1>2, <2>2
  <1>4. CASE (\E id \in ApprovalIds, actor \in L!Actors : Decide(id, actor)) \/ UNCHANGED vars
    <2>1. pc' = pc
      BY <1>4 DEF Decide, vars
    <2> QED
      BY <1>2, <2>1 DEF Active
  <1> QED
    BY <1>1, <1>3, <1>4 DEF Next

\* A step of one command changes what it alone holds.
LEMMA HoldingMoves ==
  ASSUME GateInv, NEW p \in Procs, NEW to, pc' = [pc EXCEPT ![p] = to], job' = job,
         NEW plan \in Plans, NEW step
  PROVE  Holding(plan, step)' = IF to = step /\ Plan(p) = plan THEN Holding(plan, step) \cup {p}
                                ELSE Holding(plan, step) \ {p}
  BY DEF Holding, Plan, GateInv, JobOK

\* Nothing happens that concerns the plan but that a command may give up.
LEMMA LimitStays ==
  ASSUME ActiveInv, ActiveInv', NEW plan \in Plans, Limited(plan), Spent(plan) => Spent(plan)',
         used[plan] \in Nat, died[plan] \in Nat,
         used'[plan] = used[plan], died'[plan] = died[plan],
         Holding(plan, "consume")' = Holding(plan, "consume"),
         Spent(plan) => Holding(plan, "send")' \subseteq Holding(plan, "send")
  PROVE  Limited(plan)'
  <1>1. Consumers(plan)' = Consumers(plan)
    BY DEF Consumers
  <1>2. CASE Spent(plan)
    <2>1. IsFiniteSet(Holding(plan, "send")) /\ Senders(plan) \in Nat /\ Consumers(plan) \in Nat
      BY HoldersCount
    <2>2. /\ IsFiniteSet(Holding(plan, "send")')
          /\ Cardinality(Holding(plan, "send")') <= Cardinality(Holding(plan, "send"))
      BY <1>2, <2>1, FS_Subset
    <2>3. Senders(plan)' \in Nat /\ Senders(plan)' <= Senders(plan)
      BY <2>2, FS_CardinalityType DEF Senders
    <2> QED
      BY <1>1, <1>2, <2>1, <2>3, SendAssumption DEF Limited
  <1>3. CASE ~Spent(plan)
    BY <1>1, <1>3 DEF Limited
  <1> QED
    BY <1>2, <1>3

\* Whose approval a command found approved has a record that is not spent.
LEMMA ApprovedIsNotSpent ==
  ASSUME LedgerInv, GateInv, FiledUnderItsId, NEW p \in Procs, CheckApproved(p), Approved(p)
  PROVE  ~Spent(Plan(p))
  <1>1. /\ given[p] \in ApprovalIds /\ ledger[given[p]].plan = Plan(p)
        /\ ledger[given[p]].status = "approved"
    BY DEF Approved, L!HasStatus, GateInv, JobOK
  <1>2. Plan(p) \in Plans
    BY SendAssumption DEF CheckApproved, GateInv, JobOK, Plan
  <1>3. IdOf[Plan(p)] = given[p]
    BY <1>1, <1>2 DEF FiledUnderItsId
  <1> QED
    BY <1>1, <1>3 DEF Spent

\* Consuming spends the plan's record.
LEMMA ConsumeSpends ==
  ASSUME LedgerInv, GateInv, FiledUnderItsId, NEW p \in Procs, Consume(p)
  PROVE  Spent(Plan(p))'
  <1>1. pc[p] = "consume" /\ job' = job /\ ledger' = L!ConsumeIn(ledger, given[p], Plan(p))
    BY DEF Consume, L!Consume
  <1>2. Plan(p) \in Plans /\ given[p] \in ApprovalIds /\ ledger[given[p]].plan = Plan(p)
    BY <1>1, SendAssumption DEF GateInv, JobOK, PastGate, Plan, LedgerInv, L!ClearedForItsOwnPlan
  <1>3. IdOf[Plan(p)] = given[p] /\ Plan(p)' = Plan(p)
    BY <1>1, <1>2 DEF FiledUnderItsId, Plan
  <1>4. ledger'[given[p]] = [status |-> "consumed", plan |-> Plan(p), by |-> ledger[given[p]].by]
    BY <1>1, <1>2 DEF L!ConsumeIn, LedgerInv, L!TypeOK, L!Ledger
  <1>5. ledger'[IdOf[Plan(p)]].plan = Plan(p) /\ ledger'[IdOf[Plan(p)]].status = "consumed"
    BY <1>3, <1>4
  <1> QED
    BY <1>3, <1>5 DEF Spent

LEMMA OverlapStep ==
  ASSUME LedgerInv, GateInv, UseInv, OverlapInv, [Next]_vars
  PROVE  OverlapInv'
  <1>a. ActiveInv /\ ActiveInv'
    BY ActiveStep DEF OverlapInv
  <1>b. used \in [Plans -> Nat] /\ died \in [Plans -> Nat] /\ FiledUnderItsId
    BY DEF UseInv, UsesCounted
  <1> SUFFICES ASSUME NEW plan \in Plans PROVE Limited(plan)'
    BY <1>a DEF OverlapInv
  <1>c. Limited(plan) /\ (Spent(plan) => Spent(plan)') /\ used[plan] \in Nat /\ died[plan] \in Nat
    BY <1>b, SpentStays DEF OverlapInv
  <1>d. /\ IsFiniteSet(Holding(plan, "send")) /\ IsFiniteSet(Holding(plan, "consume"))
        /\ Senders(plan) \in Nat /\ Consumers(plan) \in Nat
        /\ Senders(plan) + Consumers(plan) <= MaxActive /\ MaxActive \in Nat
    BY <1>a, HoldersCount, SendAssumption
  <1>e. \A p \in Procs : pc[p] # "idle" => Plan(p) \in Plans
    BY SendAssumption DEF GateInv, JobOK, Plan
  <1>1. ASSUME NEW p \in Procs, NEW s \in Sends, NEW id \in ApprovalIds \cup {NoId}, Start(p, s, id)
        PROVE  Limited(plan)'
    <2>1. /\ pc[p] = "idle" /\ pc' = [pc EXCEPT ![p] = "unavailable?"]
          /\ job' = [job EXCEPT ![p] = s] /\ used' = used /\ died' = died
      BY <1>1 DEF Start, Goto
    <2>2. \A step \in {"send", "consume"} : Holding(plan, step)' = Holding(plan, step)
      BY <2>1 DEF Holding, Plan, GateInv, JobOK
    <2> QED
      BY <1>a, <1>c, <2>1, <2>2, LimitStays
  <1>2. ASSUME NEW p \in Procs, CheckUnavailable(p) \/ Ensure(p) \/ SendFails(p)
        PROVE  Limited(plan)'
    <2>1. PICK to \in {"idle", "approved?"} :
            /\ pc' = [pc EXCEPT ![p] = to] /\ job' = job /\ used' = used /\ died' = died
            /\ pc[p] # "consume"
      BY <1>2 DEF CheckUnavailable, Ensure, SendFails, Goto, worldVars
    <2>2. /\ Holding(plan, "consume")' = Holding(plan, "consume") \ {p}
          /\ Holding(plan, "send")' = Holding(plan, "send") \ {p}
      BY <2>1, HoldingMoves
    <2>3. p \notin Holding(plan, "consume")
      BY <2>1 DEF Holding
    <2>4. Holding(plan, "consume")' = Holding(plan, "consume")
      BY <2>2, <2>3
    <2> QED
      BY <1>a, <1>c, <2>1, <2>2, <2>4, LimitStays
  <1>3. ASSUME NEW p \in Procs, CheckApproved(p)
        PROVE  Limited(plan)'
    <2>1. PICK to \in {"ensure", "send"} :
            /\ pc' = [pc EXCEPT ![p] = to] /\ job' = job /\ used' = used /\ died' = died
            /\ pc[p] = "approved?" /\ (to = "send" => Approved(p))
      BY <1>3 DEF CheckApproved, Goto, worldVars
    <2>2. /\ Holding(plan, "consume")' = Holding(plan, "consume") \ {p}
          /\ Holding(plan, "send")' = IF to = "send" /\ Plan(p) = plan
                                      THEN Holding(plan, "send") \cup {p}
                                      ELSE Holding(plan, "send") \ {p}
      BY <2>1, HoldingMoves
    <2>3. p \notin Holding(plan, "consume")
      BY <2>1 DEF Holding
    <2>4. Holding(plan, "consume")' = Holding(plan, "consume")
      BY <2>2, <2>3
    <2>5. to = "send" /\ Plan(p) = plan => ~Spent(plan)
      BY <1>3, <1>b, <2>1, ApprovedIsNotSpent
    <2>6. Spent(plan) => Holding(plan, "send")' \subseteq Holding(plan, "send")
      BY <2>2, <2>5
    <2> QED
      BY <1>a, <1>c, <2>1, <2>4, <2>6, LimitStays
  <1>4. ASSUME NEW p \in Procs, SendArrives(p)
        PROVE  Limited(plan)'
    <2>1. PICK to \in {"consume"} :
          /\ pc[p] = "send" /\ pc' = [pc EXCEPT ![p] = to] /\ job' = job
          /\ used' = [used EXCEPT ![Plan(p)] = @ + 1] /\ died' = died
      BY <1>4 DEF SendArrives, Goto
    <2>2. Plan(p) \in Plans
      BY <1>e, <2>1
    <2>3. /\ Holding(plan, "send")' = Holding(plan, "send") \ {p}
          /\ Holding(plan, "consume")' = IF Plan(p) = plan THEN Holding(plan, "consume") \cup {p}
                                         ELSE Holding(plan, "consume") \ {p}
      BY <2>1, HoldingMoves
    <2>4. p \notin Holding(plan, "consume") /\ (p \in Holding(plan, "send") <=> Plan(p) = plan)
      BY <2>1 DEF Holding
    <2>5. CASE Plan(p) # plan
      <3>1. Holding(plan, "consume")' = Holding(plan, "consume")
        BY <2>3, <2>4, <2>5
      <3>2. used'[plan] = used[plan] /\ died'[plan] = died[plan]
        BY <1>b, <2>1, <2>5
      <3> QED
        BY <1>a, <1>c, <2>3, <3>1, <3>2, LimitStays
    <2>6. CASE Plan(p) = plan
      <3>1. Consumers(plan)' = Consumers(plan) + 1
        BY <1>d, <2>3, <2>4, <2>6, FS_AddElement DEF Consumers
      <3>2. Senders(plan)' = Senders(plan) - 1
        BY <1>d, <2>3, <2>4, <2>6, FS_RemoveElement DEF Senders
      <3>3. used'[plan] = used[plan] + 1 /\ died'[plan] = died[plan]
        BY <1>b, <2>1, <2>6
      <3> QED
        BY <1>c, <1>d, <3>1, <3>2, <3>3 DEF Limited
    <2> QED
      BY <2>5, <2>6
  <1>5. ASSUME NEW p \in Procs, AnswerLost(p)
        PROVE  Limited(plan)'
    <2>1. PICK to \in {"idle"} :
          /\ pc[p] = "send" /\ pc' = [pc EXCEPT ![p] = to] /\ job' = job
          /\ used' = [used EXCEPT ![Plan(p)] = @ + 1] /\ died' = [died EXCEPT ![Plan(p)] = @ + 1]
      BY <1>5 DEF AnswerLost, Goto
    <2>2. /\ Holding(plan, "send")' = Holding(plan, "send") \ {p}
          /\ Holding(plan, "consume")' = Holding(plan, "consume") \ {p}
      BY <2>1, HoldingMoves
    <2>3. p \notin Holding(plan, "consume")
      BY <2>1 DEF Holding
    <2>4. Consumers(plan)' = Consumers(plan)
      BY <2>2, <2>3 DEF Consumers
    <2>5. Senders(plan)' \in Nat /\ Senders(plan)' <= Senders(plan)
      <3>1. /\ IsFiniteSet(Holding(plan, "send")')
            /\ Cardinality(Holding(plan, "send")') <= Cardinality(Holding(plan, "send"))
        BY <1>d, <2>2, FS_Subset
      <3> QED
        BY <3>1, FS_CardinalityType DEF Senders
    <2>6. \/ used'[plan] = used[plan] /\ died'[plan] = died[plan]
          \/ used'[plan] = used[plan] + 1 /\ died'[plan] = died[plan] + 1
      BY <1>b, <2>1
    <2> QED
      BY <1>c, <1>d, <2>4, <2>5, <2>6 DEF Limited
  <1>6. ASSUME NEW p \in Procs, Consume(p)
        PROVE  Limited(plan)'
    <2>1. PICK to \in {"idle"} :
          /\ pc[p] = "consume" /\ pc' = [pc EXCEPT ![p] = to] /\ job' = job
          /\ used' = used /\ died' = died
      BY <1>6 DEF Consume, Goto, worldVars
    <2>2. /\ Holding(plan, "send")' = Holding(plan, "send") \ {p}
          /\ Holding(plan, "consume")' = Holding(plan, "consume") \ {p}
      BY <2>1, HoldingMoves
    <2>3. p \notin Holding(plan, "send") /\ (p \in Holding(plan, "consume") <=> Plan(p) = plan)
      BY <2>1 DEF Holding
    <2>4. Holding(plan, "send")' = Holding(plan, "send")
      BY <2>2, <2>3
    <2>5. CASE Plan(p) # plan
      <3>1. Holding(plan, "consume")' = Holding(plan, "consume")
        BY <2>2, <2>3, <2>5
      <3> QED
        BY <1>a, <1>c, <2>1, <2>4, <3>1, LimitStays
    <2>6. CASE Plan(p) = plan
      <3>1. Spent(plan)'
        <4>1. PICK q \in Plans : q = Plan(p) /\ q = plan
          BY <2>6
        <4>2. Spent(Plan(p))' /\ Plan(p)' = Plan(p)
          BY <1>6, <1>b, <2>1, ConsumeSpends DEF Plan
        <4> QED
          BY <4>1, <4>2 DEF Spent
      <3>2. Senders(plan)' = Senders(plan)
        BY <2>4 DEF Senders
      <3> QED
        BY <1>c, <1>d, <2>1, <3>1, <3>2 DEF Limited
    <2> QED
      BY <2>5, <2>6
  <1>7. ASSUME NEW p \in Procs, Crash(p)
        PROVE  Limited(plan)'
    <2>1. PICK to \in {"idle"} :
          /\ pc[p] # "idle" /\ pc' = [pc EXCEPT ![p] = to] /\ job' = job /\ used' = used
          /\ died' = IF pc[p] = "consume" THEN [died EXCEPT ![Plan(p)] = @ + 1] ELSE died
      BY <1>7 DEF Crash, Goto
    <2>2. /\ Holding(plan, "send")' = Holding(plan, "send") \ {p}
          /\ Holding(plan, "consume")' = Holding(plan, "consume") \ {p}
      BY <2>1, HoldingMoves
    <2>3. CASE p \notin Holding(plan, "consume")
      <3>1. Holding(plan, "consume")' = Holding(plan, "consume")
        BY <2>2, <2>3
      <3>2. died'[plan] = died[plan] /\ used'[plan] = used[plan]
        BY <1>b, <2>1, <2>3 DEF Holding
      <3> QED
        BY <1>a, <1>c, <2>2, <3>1, <3>2, LimitStays
    <2>4. CASE p \in Holding(plan, "consume")
      <3>1. pc[p] = "consume" /\ Plan(p) = plan
        BY <2>4 DEF Holding
      <3>2. died'[plan] = died[plan] + 1 /\ used'[plan] = used[plan]
        BY <1>b, <2>1, <3>1
      <3>3. Consumers(plan)' = Consumers(plan) - 1
        BY <1>d, <2>2, <2>4, FS_RemoveElement DEF Consumers
      <3>4. Senders(plan)' = Senders(plan)
        BY <2>2, <3>1 DEF Senders, Holding
      <3> QED
        BY <1>c, <1>d, <3>2, <3>3, <3>4 DEF Limited
    <2> QED
      BY <2>3, <2>4
  <1>8. CASE (\E id \in ApprovalIds, actor \in L!Actors : Decide(id, actor)) \/ UNCHANGED vars
    <2>1. UNCHANGED <<pc, job, used, died>>
      BY <1>8 DEF Decide, worldVars, vars
    <2>2. \A step \in {"send", "consume"} : Holding(plan, step)' = Holding(plan, step)
      BY <2>1 DEF Holding, Plan
    <2> QED
      BY <1>a, <1>c, <2>1, <2>2, LimitStays
  <1> QED
    BY <1>1, <1>2, <1>3, <1>4, <1>5, <1>6, <1>7, <1>8 DEF Next

-----------------------------------------------------------------------------
(* Nothing reaches another person without a teacher's grant for its plan.  *)
THEOREM NoSendWithoutGrant == Spec => []SentOnlyIfGranted
  <1>1. Init => LedgerInv
    BY LedgerInit DEF Init
  <1>2. LedgerInv /\ [L!Next]_(L!vars) => LedgerInv'
    BY LedgerKept
  <1>3. LedgerInv /\ GateInv => SentOnlyIfGranted
    BY SendAssumption DEF LedgerInv, L!ClearedForItsOwnPlan, GateInv, SentCleared, SentOnlyIfGranted
  <1> QED
    BY <1>1, <1>2, <1>3, GateInit, GateStep, LedgerStep, PTL DEF Spec

(* An approval is spent only by a send that happened; and as long as       *)
(* commands do not overlap, a plan is used once, and once more for each    *)
(* run that died, or lost the answer, after sending and before consuming.  *)
(* Commands that overlap use it no more often than they ran at the same    *)
(* time, and such deaths: whoever asks after the first of them consumed is *)
(* turned away (consume_outward_send).                                     *)
THEOREM UsesAreAccountedFor == Spec => []UsesAccountedFor
  <1> DEFINE Inv == LedgerInv /\ GateInv /\ UseInv /\ OverlapInv
  <1>1. Init => Inv
    BY LedgerInit, GateInit, UseInit, OverlapInit DEF Init
  <1>2. Inv /\ [Next]_vars => Inv'
    BY LedgerStep, LedgerKept, GateStep, UseStep, OverlapStep
  <1>3. Inv => UsesAccountedFor
    <2> SUFFICES ASSUME Inv PROVE UsesAccountedFor
      OBVIOUS
    <2>1. \A id \in ApprovalIds :
            ledger[id].status = "consumed" => \E s \in sent : PlanOf[s] = ledger[id].plan
      BY DEF UseInv, SpentBySends
    <2>2. ASSUME NEW plan \in Plans
          PROVE  used[plan] <= died[plan] + (IF overlap THEN MaxActive ELSE 1)
      <3>1. /\ Senders(plan) \in Nat /\ Consumers(plan) \in Nat
            /\ Senders(plan) + Consumers(plan) <= MaxActive /\ MaxActive \in Nat
        BY HoldersCount, SendAssumption DEF OverlapInv
      <3>2. used[plan] \in Nat /\ died[plan] \in Nat
        BY DEF UseInv, UsesCounted
      <3>3. CASE overlap
        <4>1. Limited(plan)
          BY DEF OverlapInv
        <4> QED
          BY <3>1, <3>2, <3>3, <4>1 DEF Limited
      <3>4. CASE ~overlap
        <4>1. Counted(plan)
          BY <3>4 DEF UseInv, UsesCounted
        <4> QED
          BY <3>2, <3>4, <4>1 DEF Counted
      <3> QED
        BY <3>3, <3>4
    <2> QED
      BY <2>1, <2>2 DEF UsesAccountedFor
  <1> HIDE DEF Inv
  <1> QED
    BY <1>1, <1>2, <1>3, PTL DEF Spec
=============================================================================
