--------------------------- MODULE ProfileProofs ---------------------------
(***************************************************************************)
(* The promises of the profile's parts, for every value of the constants.  *)
(* Whatever part a behaviour of the profile exercises, each of the parts   *)
(* starts where it does alone and makes its own steps or rests (PartsRun); *)
(* so an invariant of a part's own steps is one of the profile.  Each      *)
(* section gives the invariant of one part, which is stronger than its     *)
(* promise: it speaks of the copies that commands hold in memory too.      *)
(***************************************************************************)
EXTENDS Profile, FiniteSetTheorems, SequenceTheorems, WellFoundedInduction, TLAPS

-----------------------------------------------------------------------------
\* Each step of the profile is one of a part, or leaves the part be.
LEMMA PartsRun ==
  [ProfileNext]_profileVars =>
    /\ [Next]_vars
    /\ [Registry!Next]_toolVars
    /\ [Memory!Next]_memoryVars
    /\ [Goal!Next]_goalVars
    /\ [Hooks!Next]_hookVars
    /\ [Friends!Next]_sendVars
    /\ [Chat!Next]_chatVars
    /\ [ClassCard!Next]_cardVars
    /\ [Study!Next]_studyVars
    /\ [Write!Next]_templateVars
    /\ [Gws!Next]_gwsVars
    /\ [Private!Next]_privacyVars
    /\ [Packs!Next]_packVars
    /\ [Roster!Next]_rosterVars
    /\ [Jobs!Next]_jobVars
    /\ [Journal!Next]_journalVars
  <1>0. ASSUME [ProfileNext]_profileVars PROVE [Next]_vars
    <2>1. CASE ProfileNext /\ part = "approvals"
      BY <2>1 DEF ProfileNext
    <2>2. CASE ProfileNext /\ part # "approvals"
      BY <2>2 DEF ProfileNext, AllOthersRest
    <2>3. CASE UNCHANGED profileVars
      BY <2>3 DEF profileVars
    <2> QED BY <1>0, <2>1, <2>2, <2>3
  <1>1. ASSUME [ProfileNext]_profileVars PROVE [Registry!Next]_toolVars
    <2>1. CASE ProfileNext /\ part = "tools"
      BY <2>1 DEF ProfileNext
    <2>2. CASE ProfileNext /\ part # "tools"
      BY <2>2 DEF ProfileNext, AllOthersRest
    <2>3. CASE UNCHANGED profileVars
      BY <2>3 DEF profileVars
    <2> QED BY <1>1, <2>1, <2>2, <2>3
  <1>2. ASSUME [ProfileNext]_profileVars PROVE [Memory!Next]_memoryVars
    <2>1. CASE ProfileNext /\ part = "memory"
      BY <2>1 DEF ProfileNext
    <2>2. CASE ProfileNext /\ part # "memory"
      BY <2>2 DEF ProfileNext, AllOthersRest
    <2>3. CASE UNCHANGED profileVars
      BY <2>3 DEF profileVars
    <2> QED BY <1>2, <2>1, <2>2, <2>3
  <1>3. ASSUME [ProfileNext]_profileVars PROVE [Goal!Next]_goalVars
    <2>1. CASE ProfileNext /\ part = "goals"
      BY <2>1 DEF ProfileNext
    <2>2. CASE ProfileNext /\ part # "goals"
      BY <2>2 DEF ProfileNext, AllOthersRest
    <2>3. CASE UNCHANGED profileVars
      BY <2>3 DEF profileVars
    <2> QED BY <1>3, <2>1, <2>2, <2>3
  <1>4. ASSUME [ProfileNext]_profileVars PROVE [Hooks!Next]_hookVars
    <2>1. CASE ProfileNext /\ part = "hooks"
      BY <2>1 DEF ProfileNext
    <2>2. CASE ProfileNext /\ part # "hooks"
      BY <2>2 DEF ProfileNext, AllOthersRest
    <2>3. CASE UNCHANGED profileVars
      BY <2>3 DEF profileVars
    <2> QED BY <1>4, <2>1, <2>2, <2>3
  <1>5. ASSUME [ProfileNext]_profileVars PROVE [Friends!Next]_sendVars
    <2>1. CASE ProfileNext /\ part = "friends"
      BY <2>1 DEF ProfileNext
    <2>2. CASE ProfileNext /\ part # "friends"
      BY <2>2 DEF ProfileNext, AllOthersRest
    <2>3. CASE UNCHANGED profileVars
      BY <2>3 DEF profileVars
    <2> QED BY <1>5, <2>1, <2>2, <2>3
  <1>6. ASSUME [ProfileNext]_profileVars PROVE [Chat!Next]_chatVars
    <2>1. CASE ProfileNext /\ part = "chats"
      BY <2>1 DEF ProfileNext
    <2>2. CASE ProfileNext /\ part # "chats"
      BY <2>2 DEF ProfileNext, AllOthersRest
    <2>3. CASE UNCHANGED profileVars
      BY <2>3 DEF profileVars
    <2> QED BY <1>6, <2>1, <2>2, <2>3
  <1>7. ASSUME [ProfileNext]_profileVars PROVE [ClassCard!Next]_cardVars
    <2>1. CASE ProfileNext /\ part = "classcard"
      BY <2>1 DEF ProfileNext
    <2>2. CASE ProfileNext /\ part # "classcard"
      BY <2>2 DEF ProfileNext, AllOthersRest
    <2>3. CASE UNCHANGED profileVars
      BY <2>3 DEF profileVars
    <2> QED BY <1>7, <2>1, <2>2, <2>3
  <1>8. ASSUME [ProfileNext]_profileVars PROVE [Gws!Next]_gwsVars
    <2>1. CASE ProfileNext /\ part = "workspace"
      BY <2>1 DEF ProfileNext
    <2>2. CASE ProfileNext /\ part # "workspace"
      BY <2>2 DEF ProfileNext, AllOthersRest
    <2>3. CASE UNCHANGED profileVars
      BY <2>3 DEF profileVars
    <2> QED BY <1>8, <2>1, <2>2, <2>3
  <1>9. ASSUME [ProfileNext]_profileVars PROVE [Private!Next]_privacyVars
    <2>1. CASE ProfileNext /\ part = "privacy"
      BY <2>1 DEF ProfileNext
    <2>2. CASE ProfileNext /\ part # "privacy"
      BY <2>2 DEF ProfileNext, AllOthersRest
    <2>3. CASE UNCHANGED profileVars
      BY <2>3 DEF profileVars
    <2> QED BY <1>9, <2>1, <2>2, <2>3
  <1>10. ASSUME [ProfileNext]_profileVars PROVE [Roster!Next]_rosterVars
    <2>1. CASE ProfileNext /\ part = "roster"
      BY <2>1 DEF ProfileNext
    <2>2. CASE ProfileNext /\ part # "roster"
      BY <2>2 DEF ProfileNext, AllOthersRest
    <2>3. CASE UNCHANGED profileVars
      BY <2>3 DEF profileVars
    <2> QED BY <1>10, <2>1, <2>2, <2>3
  <1>11. ASSUME [ProfileNext]_profileVars PROVE [Jobs!Next]_jobVars
    <2>1. CASE ProfileNext /\ part = "schedule"
      BY <2>1 DEF ProfileNext
    <2>2. CASE ProfileNext /\ part # "schedule"
      BY <2>2 DEF ProfileNext, AllOthersRest
    <2>3. CASE UNCHANGED profileVars
      BY <2>3 DEF profileVars
    <2> QED BY <1>11, <2>1, <2>2, <2>3
  <1>12. ASSUME [ProfileNext]_profileVars PROVE [Journal!Next]_journalVars
    <2>1. CASE ProfileNext /\ part = "journal"
      BY <2>1 DEF ProfileNext
    <2>2. CASE ProfileNext /\ part # "journal"
      BY <2>2 DEF ProfileNext, AllOthersRest
    <2>3. CASE UNCHANGED profileVars
      BY <2>3 DEF profileVars
    <2> QED BY <1>12, <2>1, <2>2, <2>3
  <1>13. ASSUME [ProfileNext]_profileVars PROVE [Study!Next]_studyVars
    <2>1. CASE ProfileNext /\ part = "study"
      BY <2>1 DEF ProfileNext
    <2>2. CASE ProfileNext /\ part # "study"
      BY <2>2 DEF ProfileNext, AllOthersRest
    <2>3. CASE UNCHANGED profileVars
      BY <2>3 DEF profileVars
    <2> QED BY <1>13, <2>1, <2>2, <2>3
  <1>14. ASSUME [ProfileNext]_profileVars PROVE [Write!Next]_templateVars
    <2>1. CASE ProfileNext /\ part = "templates"
      BY <2>1 DEF ProfileNext
    <2>2. CASE ProfileNext /\ part # "templates"
      BY <2>2 DEF ProfileNext, AllOthersRest
    <2>3. CASE UNCHANGED profileVars
      BY <2>3 DEF profileVars
    <2> QED BY <1>14, <2>1, <2>2, <2>3
  <1>15. ASSUME [ProfileNext]_profileVars PROVE [Packs!Next]_packVars
    <2>1. CASE ProfileNext /\ part = "routes"
      BY <2>1 DEF ProfileNext
    <2>2. CASE ProfileNext /\ part # "routes"
      BY <2>2 DEF ProfileNext, AllOthersRest
    <2>3. CASE UNCHANGED profileVars
      BY <2>3 DEF profileVars
    <2> QED BY <1>15, <2>1, <2>2, <2>3
  <1> QED
    BY <1>0, <1>1, <1>2, <1>3, <1>4, <1>5, <1>6, <1>7, <1>8, <1>9, <1>10, <1>11, <1>12,
       <1>13, <1>14, <1>15

\* The parts count alike.
LEMMA SameCardinality ==
  ASSUME NEW S
  PROVE  /\ Friends!Cardinality(S) = Cardinality(S) /\ Gws!Cardinality(S) = Cardinality(S)
         /\ Hooks!Cardinality(S) = Cardinality(S) /\ Chat!Cardinality(S) = Cardinality(S)
         /\ ClassCard!Cardinality(S) = Cardinality(S) /\ Roster!Cardinality(S) = Cardinality(S)
         /\ Study!Cardinality(S) = Cardinality(S)
  BY Zenon DEF Friends!Cardinality, Gws!Cardinality, Hooks!Cardinality, Chat!Cardinality,
     ClassCard!Cardinality, Roster!Cardinality, Study!Cardinality, Cardinality

\* A set of numbers has a least element.
LEMMA HasLeast ==
  ASSUME NEW T, T \subseteq Nat, T # {} PROVE \E x \in T : \A y \in T : x <= y
  <1>1. \E x \in T : \A y \in T : ~(<<y, x>> \in OpToRel(<, Nat))
    BY Zenon, NatLessThanWellFounded, WFMin
  <1>2. \A x, y \in Nat : y < x => <<y, x>> \in OpToRel(<, Nat)
    BY Zenon DEF OpToRel
  <1>3. \E x \in T : \A y \in T : ~(y < x)
    BY Zenon, <1>1, <1>2
  <1> QED BY <1>3

-----------------------------------------------------------------------------
(* The approvals.  UsedOnlyIfGranted is not inductive alone: Consume needs *)
(* to know that what was let through was granted, ClearedForItsOwnPlan.    *)

(* Ids the ledger has no record for carry no plan.                         *)
AbsentHasNoPlan ==
  \A id \in ApprovalIds : ledger[id].status = "absent" => ledger[id].plan = NoPlan

LedgerInv == TypeOK /\ UsedOnlyIfGranted /\ ClearedForItsOwnPlan /\ AbsentHasNoPlan

\* What one command may do to one record.
StepOf(id) ==
  /\ ledger[id].status \in {"consumed", "denied"}
       => ledger'[id].status \in {"consumed", "denied"}
  /\ Exists(ledger, id) => Exists(ledger', id) /\ ledger'[id].plan = ledger[id].plan

USE DEF Ledger, Record, Statuses, Actors, NoRecord, Exists

(* ensure_approval_request keeps a ledger a ledger and touches no record   *)
(* that exists.                                                            *)
LEMMA EnsureLemma ==
  ASSUME NEW recs \in Ledger, NEW plan \in Plans
  PROVE  /\ EnsureIn(recs, plan) \in Ledger
         /\ \A id \in ApprovalIds :
              Exists(recs, id) => EnsureIn(recs, plan)[id] = recs[id]
         /\ \A id \in ApprovalIds :
              ~Exists(recs, id) => EnsureIn(recs, plan)[id].status \in {"absent", "planned"}
  BY IdOfAssumption DEF EnsureIn

LEMMA LedgerInit == Init => LedgerInv
  BY DEF Init, LedgerInv, TypeOK, UsedOnlyIfGranted, ClearedForItsOwnPlan, AbsentHasNoPlan,
     EmptyLedger

(* Every command keeps the invariant, and does to each record only what    *)
(* StepOf allows.                                                          *)
LEMMA LedgerKept ==
  LedgerInv /\ [Next]_vars => LedgerInv' /\ \A id \in ApprovalIds : StepOf(id)
  <1> SUFFICES ASSUME LedgerInv, [Next]_vars
               PROVE  LedgerInv' /\ \A id \in ApprovalIds : StepOf(id)
    OBVIOUS
  <1> USE DEF LedgerInv, TypeOK, UsedOnlyIfGranted, ClearedForItsOwnPlan, AbsentHasNoPlan, StepOf
  <1>1. ASSUME NEW plan \in Plans, EnsureRequest(plan)
        PROVE  LedgerInv' /\ \A id \in ApprovalIds : StepOf(id)
    <2>1. ASSUME NEW id \in ApprovalIds
          PROVE  \/ ledger'[id] = ledger[id]
                 \/ /\ ledger[id].status = "absent"
                    /\ ledger'[id].status = "planned"
      BY <1>1, IdOfAssumption DEF EnsureRequest, EnsureIn
    <2>2. TypeOK' /\ cleared' = cleared /\ granted' = granted
      BY <1>1, EnsureLemma DEF EnsureRequest
    <2>3. ClearedForItsOwnPlan'
      BY <2>1, <2>2, NoPlanAssumption
    <2>4. UsedOnlyIfGranted' /\ AbsentHasNoPlan'
      BY <2>1, <2>2
    <2> QED BY <2>1, <2>2, <2>3, <2>4
  <1>2. ASSUME NEW id \in ApprovalIds, NEW actor \in Actors, Approve(id, actor)
        PROVE  LedgerInv' /\ \A i \in ApprovalIds : StepOf(i)
    <2>1. actor \in Teachers /\ ledger[id].status \notin {"absent", "consumed", "denied"}
      BY <1>2 DEF Approve, MayApprove
    <2>2. granted' = granted \cup {id} /\ cleared' = cleared
      BY <1>2, <2>1 DEF Approve
    <2>3. /\ ledger' \in Ledger
          /\ ledger'[id].status = "approved" /\ ledger'[id].plan = ledger[id].plan
          /\ \A i \in ApprovalIds \ {id} : ledger'[i] = ledger[i]
      BY <1>2 DEF Approve, ApproveIn
    <2> QED BY <2>1, <2>2, <2>3
  <1>3. ASSUME NEW id \in ApprovalIds, NEW actor \in Actors, Deny(id, actor)
        PROVE  LedgerInv' /\ \A i \in ApprovalIds : StepOf(i)
    <2>1. /\ ledger' \in Ledger
          /\ ledger'[id].status = "denied" /\ ledger'[id].plan = ledger[id].plan
          /\ \A i \in ApprovalIds \ {id} : ledger'[i] = ledger[i]
      BY <1>3 DEF Deny, DenyIn
    <2> QED BY <1>3, <2>1 DEF Deny
  <1>4. ASSUME NEW id \in ApprovalIds, NEW plan \in Plans, Clear(id, plan)
        PROVE  LedgerInv' /\ \A i \in ApprovalIds : StepOf(i)
    BY <1>4 DEF Clear, HasStatus
  <1>5. ASSUME NEW id \in ApprovalIds, NEW plan \in Plans, Consume(id, plan)
        PROVE  LedgerInv' /\ \A i \in ApprovalIds : StepOf(i)
    <2>1. id \in granted /\ ledger[id].plan = plan /\ ledger[id].status # "absent"
      BY <1>5, NoPlanAssumption DEF Consume
    <2>2. /\ ledger' \in Ledger
          /\ ledger'[id].status = "consumed" /\ ledger'[id].plan = ledger[id].plan
          /\ \A i \in ApprovalIds \ {id} : ledger'[i] = ledger[i]
      BY <1>5, <2>1 DEF Consume, ConsumeIn
    <2> QED BY <1>5, <2>1, <2>2 DEF Consume
  <1>6. CASE UNCHANGED vars
    BY <1>6 DEF vars
  <1> QED BY <1>1, <1>2, <1>3, <1>4, <1>5, <1>6 DEF Next

HIDE DEF Ledger, Record, Statuses, Actors, NoRecord, Exists

LEMMA LedgerThroughout ==
  /\ ProfileInit => LedgerInv
  /\ LedgerInv /\ [ProfileNext]_profileVars => LedgerInv'
  BY LedgerInit, LedgerKept, PartsRun DEF ProfileInit

(* The agent cannot approve itself, and an approval authorizes only its    *)
(* own plan (approve_request, approval_is_approved).                       *)
THEOREM GrantSafety == ProfileSpec => []OnlyAsGranted
  <1>1. LedgerInv => OnlyAsGranted
    BY DEF LedgerInv, OnlyAsGranted
  <1> QED BY LedgerThroughout, <1>1, PTL DEF ProfileSpec

(* A consumed or denied approval is never usable again and no record is    *)
(* rebound to another plan (approve_request, deny_request).                *)
THEOREM Finality == ProfileSpec => TerminalIsFinal
  <1> DEFINE Final ==
    \A id \in ApprovalIds :
       /\ ledger[id].status \in {"consumed", "denied"}
            => ledger'[id].status \in {"consumed", "denied"}
       /\ Exists(ledger, id) => Exists(ledger, id)' /\ ledger'[id].plan = ledger[id].plan
  <1>1. LedgerInv /\ [ProfileNext]_profileVars => [Final]_vars
    BY LedgerKept, PartsRun DEF StepOf, Exists
  <1>2. (ProfileSpec => [][Final]_vars) => (ProfileSpec => TerminalIsFinal)
    BY DEF TerminalIsFinal
  <1> HIDE DEF Final
  <1>3. ProfileSpec => [][Final]_vars
    BY LedgerThroughout, <1>1, PTL DEF ProfileSpec
  <1> QED BY <1>2, <1>3

-----------------------------------------------------------------------------
(* The memory.                                                             *)

\* The entry on its way to the archive counts while there is one: all the
\* invariant adds.
OnTheWay == IF memoryMoving = NoEntry THEN {} ELSE {memoryMoving}

MemoryInv == memoryOwed \subseteq memory \cup memoryArchive \cup OnTheWay

LEMMA MemoryInit == Memory!Init => MemoryInv
  BY DEF Memory!Init, MemoryInv

\* Memory!Entries of other keys survive a recording, and what is recorded is there.
LEMMA PutKeepsOthers ==
  ASSUME NEW entries, NEW new
  PROVE  /\ new \subseteq Memory!Put(entries, new)
         /\ \A e \in entries : e.key \notin Memory!KeysOf(new) => e \in Memory!Put(entries, new)
  BY DEF Memory!Put, Memory!Without

LEMMA RecordKeepsMemories == ASSUME NEW entries, MemoryInv, Memory!Record(entries) PROVE MemoryInv'
  <1>1. memoryOwed \subseteq memory \cup memoryArchive /\ OnTheWay' = {}
    BY DEF MemoryInv, OnTheWay, Memory!Record
  <1>2. ASSUME NEW e \in memoryOwed' PROVE e \in memory' \cup memoryArchive'
    <2>1. CASE e \in entries
      BY <2>1, PutKeepsOthers DEF Memory!Record
    <2>2. CASE e \in memoryOwed /\ (e \in memoryArchive \/ e.key \notin Memory!KeysOf(entries))
      BY <2>2, <1>1, PutKeepsOthers DEF Memory!Record
    <2> QED BY <1>2, <2>1, <2>2 DEF Memory!Record
  <1> QED BY <1>1, <1>2 DEF MemoryInv

LEMMA MemoryStep ==
  ASSUME NoEntry \notin Memory!Entries
  PROVE  MemoryInv /\ [Memory!Next]_memoryVars => MemoryInv'
  <1> SUFFICES ASSUME MemoryInv, [Memory!Next]_memoryVars PROVE MemoryInv'
    OBVIOUS
  <1>1. ASSUME NEW entry \in Memory!Entries, Memory!Upsert(entry)
        PROVE  MemoryInv'
    BY <1>1, RecordKeepsMemories DEF Memory!Upsert
  <1>2. ASSUME NEW entry \in Memory!Entries, Memory!TakeOut(entry)
        PROVE  MemoryInv'
    <2>1. entry # NoEntry
      OBVIOUS
    <2>2. memoryMoving = NoEntry /\ memoryMoving' = entry /\ memoryArchive' = memoryArchive
      BY <1>2 DEF Memory!TakeOut
    <2>3. ASSUME NEW e \in memoryOwed' PROVE e \in memory' \cup memoryArchive' \cup {entry}
      <3>1. e \in memoryOwed /\ (e \in memory /\ e.key = entry.key /\ e # entry => e \in memoryArchive)
        BY <1>2, <2>3 DEF Memory!TakeOut
      <3>2. e \in memory \cup memoryArchive
        BY <3>1, <2>2 DEF MemoryInv, OnTheWay
      <3>3. e \in memory /\ e.key # entry.key => e \in memory'
        BY <1>2 DEF Memory!TakeOut, Memory!Without
      <3> QED BY <3>1, <3>2, <3>3, <2>2
    <2> QED BY <2>1, <2>2, <2>3 DEF MemoryInv, OnTheWay
  <1>3. ASSUME NEW entry \in Memory!Entries, Memory!EditDraft(entry)
        PROVE  MemoryInv'
    BY <1>3 DEF Memory!EditDraft, MemoryInv, OnTheWay
  <1>4. ASSUME Memory!ApplyDraft PROVE MemoryInv'
    BY <1>4, RecordKeepsMemories DEF Memory!ApplyDraft
  <1>5. ASSUME Memory!PutAway PROVE MemoryInv'
    BY <1>5 DEF Memory!PutAway, MemoryInv, OnTheWay
  <1>6. ASSUME Memory!Kill PROVE MemoryInv'
    BY <1>6 DEF Memory!Kill, MemoryInv, OnTheWay
  <1>7. ASSUME Memory!Compact PROVE MemoryInv'
    BY <1>7 DEF Memory!Compact, MemoryInv, OnTheWay
  <1>8. ASSUME NEW changed \in SUBSET Changes, Memory!WriteDraft(changed) PROVE MemoryInv'
    BY <1>8 DEF Memory!WriteDraft, MemoryInv, OnTheWay
  <1>9. CASE UNCHANGED memoryVars
    BY <1>9 DEF memoryVars, MemoryInv, OnTheWay
  <1> QED BY <1>1, <1>2, <1>3, <1>4, <1>5, <1>6, <1>7, <1>8, <1>9 DEF Memory!Next

(* Whatever was recorded and not replaced is in the memory, in the archive *)
(* or on its way there, but for the one entry a kill caught between the    *)
(* two files and the doubles of a key (_archive, _apply_draft, _upsert).   *)
(* NoEntry must not be an entry.                                           *)
THEOREM NothingIsLost ==
  ASSUME NoEntry \notin Memory!Entries
  PROVE  ProfileSpec => []NothingLostQuietly
  <1>1. MemoryInv => NothingLostQuietly
    BY DEF MemoryInv, OnTheWay, NothingLostQuietly, Memory!NothingLostQuietly
  <1>2. MemoryInv /\ [Memory!Next]_memoryVars => MemoryInv'
    BY MemoryStep
  <1>3. ProfileInit => MemoryInv
    BY MemoryInit DEF ProfileInit
  <1> QED BY <1>1, <1>2, <1>3, PartsRun, PTL DEF ProfileSpec

-----------------------------------------------------------------------------
(* The tools.  A command writes back the ledger it loaded, so what is      *)
(* said of the registry must hold of every copy a command holds, and of    *)
(* the state a transition starts from.                                     *)

ToolLedger == [Tools -> Registry!Record]

\* What a command has loaded.
Scaffolding == [cmd : {"scaffold"}, id : Tools, of : Proposals, seen : ToolLedger]
Changing == [cmd : {"set"}, id : Tools, state : Registry!States, seen : ToolLedger]
LegacyWriting == [cmd : {"tool"}, id : Tools, status : Registry!States, seen : [Tools -> Registry!States]]
ToolCommands == {Registry!Idle} \cup Scaffolding \cup Changing \cup LegacyWriting

ToolTypeOK ==
  /\ toolRecords \in ToolLedger
  /\ toolLegacy \in [Tools -> Registry!States]
  /\ toolProc \in [Procs -> ToolCommands]

\* Every record of a ledger went through the steps its state calls for.
Reviewed(recs) ==
  \A id \in Tools :
    /\ recs[id].state \in {"registered", "active"} =>
         <<id, recs[id].of, "registered">> \in toolReview
    /\ recs[id].state = "active" => <<id, recs[id].of, "active">> \in toolReview

CopiesReviewed ==
  \A p \in Procs :
    /\ toolProc[p].cmd \in {"scaffold", "set"} => Reviewed(toolProc[p].seen)
    /\ toolProc[p].cmd = "set" =>
         toolProc[p].state \in Registry!AllowedTransitions(toolProc[p].seen[toolProc[p].id].state)

ToolInv == ToolTypeOK /\ Reviewed(toolRecords) /\ CopiesReviewed

\* A proposal filed under an id leaves a draft there and nothing else changed.
LEMMA ScaffoldLeavesADraft ==
  ASSUME NEW recs \in ToolLedger, NEW id \in Tools, NEW proposal \in Proposals,
         Reviewed(recs)
  PROVE  Registry!ScaffoldIn(recs, id, proposal) \in ToolLedger /\ Reviewed(Registry!ScaffoldIn(recs, id, proposal))
  BY DEF Registry!ScaffoldIn, ToolLedger, Registry!Record, Registry!States, Reviewed

\* A transition keeps the version and adds the one step it stands for.
LEMMA ChangeIsOneStep ==
  ASSUME NEW recs \in ToolLedger, NEW id \in Tools, NEW state \in Registry!States,
         state \in Registry!AllowedTransitions(recs[id].state)
  PROVE  /\ Registry!SetLifecycleState(recs, id, state) \in ToolLedger
         /\ Registry!SetLifecycleState(recs, id, state)[id].of = recs[id].of
         /\ Registry!SetLifecycleState(recs, id, state)[id].state = state
         /\ \A other \in Tools \ {id} : Registry!SetLifecycleState(recs, id, state)[other] = recs[other]
         /\ state = "active" => recs[id].state = "registered"
  <1>1. recs[id] \in Registry!Record
    BY DEF ToolLedger
  <1>2. state = "active" => recs[id].state = "registered"
    BY <1>1 DEF Registry!AllowedTransitions, Registry!Record, Registry!States
  <1> QED BY <1>1, <1>2 DEF Registry!SetLifecycleState, ToolLedger, Registry!Record

LEMMA ToolInit == Registry!Init => ToolInv
  <1> SUFFICES ASSUME Registry!Init PROVE ToolInv
    OBVIOUS
  <1>1. ToolTypeOK
    BY DEF Registry!Init, ToolTypeOK, ToolLedger, Registry!Record, Registry!NoTool, Registry!States, ToolCommands
  <1>2. Reviewed(toolRecords)
    BY DEF Registry!Init, Reviewed, Registry!NoTool
  <1>3. CopiesReviewed
    BY DEF Registry!Init, CopiesReviewed, Registry!Idle
  <1> QED BY <1>1, <1>2, <1>3 DEF ToolInv

\* A command that begins with what the file holds.
LEMMA ToolBeginKeepsInv ==
  ASSUME ToolInv, NEW p \in Procs, NEW command \in ToolCommands, Registry!Begin(p, command),
         command.cmd \in {"scaffold", "set"} => command.seen = toolRecords,
         command.cmd = "set" =>
           command.state \in Registry!AllowedTransitions(command.seen[command.id].state)
  PROVE  ToolInv'
  <1>1. ToolTypeOK'
    BY DEF ToolInv, ToolTypeOK, Registry!Begin
  <1>2. Reviewed(toolRecords)'
    BY DEF ToolInv, Reviewed, Registry!Begin
  <1>3. CopiesReviewed'
    BY DEF ToolInv, ToolTypeOK, Reviewed, CopiesReviewed, Registry!Begin
  <1> QED BY <1>1, <1>2, <1>3 DEF ToolInv

LEMMA ToolStep == ToolInv /\ [Registry!Next]_toolVars => ToolInv'
  <1> SUFFICES ASSUME ToolInv, [Registry!Next]_toolVars PROVE ToolInv'
    OBVIOUS
  <1>1. ASSUME NEW p \in Procs, NEW id \in Tools, NEW proposal \in Proposals,
               Registry!LoadScaffold(p, id, proposal)
        PROVE  ToolInv'
    <2> DEFINE command == [cmd |-> "scaffold", id |-> id, of |-> proposal, seen |-> toolRecords]
    <2>1. command \in ToolCommands /\ Registry!Begin(p, command)
      BY <1>1 DEF Registry!LoadScaffold, ToolCommands, Scaffolding, ToolInv, ToolTypeOK
    <2>2. command.cmd = "scaffold" /\ command.seen = toolRecords
      OBVIOUS
    <2> HIDE DEF command
    <2> QED BY <2>1, <2>2, ToolBeginKeepsInv
  <1>2. ASSUME NEW p \in Procs, NEW id \in Tools, NEW state \in Registry!States,
               NEW evidence \in BOOLEAN, Registry!LoadChange(p, id, state, evidence)
        PROVE  ToolInv'
    <2> DEFINE command == [cmd |-> "set", id |-> id, state |-> state, seen |-> toolRecords]
    <2>1. command \in ToolCommands /\ Registry!Begin(p, command)
      BY <1>2 DEF Registry!LoadChange, ToolCommands, Changing, ToolInv, ToolTypeOK
    <2>2. /\ command.cmd = "set" /\ command.seen = toolRecords
          /\ command.state \in Registry!AllowedTransitions(command.seen[command.id].state)
      BY <1>2 DEF Registry!LoadChange, Registry!MaySet
    <2> HIDE DEF command
    <2> QED BY <2>1, <2>2, ToolBeginKeepsInv
  <1>3. ASSUME NEW p \in Procs, NEW id \in Tools,
               NEW status \in {"draft", "active", "deprecated"}, Registry!LoadTool(p, id, status)
        PROVE  ToolInv'
    <2> DEFINE command == [cmd |-> "tool", id |-> id, status |-> status, seen |-> toolLegacy]
    <2>1. command \in ToolCommands /\ Registry!Begin(p, command)
      BY <1>3 DEF Registry!LoadTool, ToolCommands, LegacyWriting, Registry!States, ToolInv, ToolTypeOK
    <2>2. command.cmd = "tool"
      OBVIOUS
    <2> HIDE DEF command
    <2> QED BY <2>1, <2>2, ToolBeginKeepsInv
  <1>4. ASSUME NEW p \in Procs, Registry!SaveScaffold(p)
        PROVE  ToolInv'
    <2> DEFINE c == toolProc[p]
    <2>1. c \in Scaffolding /\ Reviewed(c.seen)
      BY <1>4 DEF Registry!SaveScaffold, ToolInv, ToolTypeOK, CopiesReviewed, ToolCommands, Registry!Idle,
                  Scaffolding, Changing, LegacyWriting
    <2>2. c.seen \in ToolLedger /\ c.id \in Tools /\ c.of \in Proposals
      BY <2>1 DEF Scaffolding
    <2>3. toolRecords' \in ToolLedger /\ Reviewed(toolRecords')
      BY <1>4, <2>1, <2>2, ScaffoldLeavesADraft DEF Registry!SaveScaffold
    <2>4. toolReview' = toolReview /\ toolLegacy' = toolLegacy /\ toolProc' = [toolProc EXCEPT ![p] = Registry!Idle]
      BY <1>4 DEF Registry!SaveScaffold
    <2>5. ToolTypeOK'
      BY <2>3, <2>4 DEF ToolInv, ToolTypeOK, ToolCommands
    <2>6. Reviewed(toolRecords)'
      BY <2>3, <2>4 DEF Reviewed
    <2>7. CopiesReviewed'
      BY <2>4 DEF ToolInv, ToolTypeOK, CopiesReviewed, Reviewed, Registry!Idle
    <2> QED BY <2>5, <2>6, <2>7 DEF ToolInv
  <1>5. ASSUME NEW p \in Procs, Registry!SaveChange(p)
        PROVE  ToolInv'
    <2> DEFINE c == toolProc[p]
    <2>1. /\ c \in Changing /\ Reviewed(c.seen)
          /\ c.state \in Registry!AllowedTransitions(c.seen[c.id].state)
      BY <1>5 DEF Registry!SaveChange, ToolInv, ToolTypeOK, CopiesReviewed, ToolCommands, Registry!Idle,
                  Scaffolding, Changing, LegacyWriting
    <2>2. c.seen \in ToolLedger /\ c.id \in Tools /\ c.state \in Registry!States
      BY <2>1 DEF Changing
    <2>3. /\ toolRecords' = Registry!SetLifecycleState(c.seen, c.id, c.state)
          /\ toolReview' = toolReview \cup {<<c.id, c.seen[c.id].of, c.state>>}
          /\ toolLegacy' = toolLegacy /\ toolProc' = [toolProc EXCEPT ![p] = Registry!Idle]
      BY <1>5 DEF Registry!SaveChange
    <2>4. /\ toolRecords' \in ToolLedger /\ toolRecords'[c.id].of = c.seen[c.id].of
          /\ toolRecords'[c.id].state = c.state
          /\ \A other \in Tools \ {c.id} : toolRecords'[other] = c.seen[other]
          /\ c.state = "active" => c.seen[c.id].state = "registered"
      BY <2>1, <2>2, <2>3, ChangeIsOneStep
    <2>5. ToolTypeOK'
      BY <2>3, <2>4 DEF ToolInv, ToolTypeOK, ToolCommands
    <2>6. Reviewed(toolRecords)'
      <3> SUFFICES ASSUME NEW id \in Tools
                   PROVE  /\ toolRecords'[id].state \in {"registered", "active"} =>
                               <<id, toolRecords'[id].of, "registered">> \in toolReview'
                          /\ toolRecords'[id].state = "active" =>
                               <<id, toolRecords'[id].of, "active">> \in toolReview'
        BY DEF Reviewed
      <3>1. CASE id = c.id
        BY <3>1, <2>1, <2>2, <2>3, <2>4 DEF Reviewed
      <3>2. CASE id # c.id
        BY <3>2, <2>1, <2>3, <2>4 DEF Reviewed
      <3> QED BY <3>1, <3>2
    <2>7. CopiesReviewed'
      BY <2>3 DEF ToolInv, ToolTypeOK, CopiesReviewed, Reviewed, Registry!Idle
    <2> QED BY <2>5, <2>6, <2>7 DEF ToolInv
  <1>6. ASSUME NEW p \in Procs, Registry!SaveTool(p)
        PROVE  ToolInv'
    <2>1. toolProc[p] \in LegacyWriting
      BY <1>6 DEF Registry!SaveTool, ToolInv, ToolTypeOK, ToolCommands, Registry!Idle, Scaffolding, Changing, LegacyWriting
    <2>2. toolLegacy' \in [Tools -> Registry!States]
      BY <1>6, <2>1 DEF Registry!SaveTool, LegacyWriting
    <2>3. toolRecords' = toolRecords /\ toolReview' = toolReview /\ toolProc' = [toolProc EXCEPT ![p] = Registry!Idle]
      BY <1>6 DEF Registry!SaveTool
    <2> QED
      BY <2>2, <2>3 DEF ToolInv, ToolTypeOK, ToolCommands, CopiesReviewed, Reviewed, Registry!Idle
  <1>7. ASSUME NEW p \in Procs, Registry!Kill(p)
        PROVE  ToolInv'
    BY <1>7 DEF Registry!Kill, ToolInv, ToolTypeOK, ToolCommands, CopiesReviewed, Reviewed, Registry!Idle
  <1>8. CASE UNCHANGED toolVars
    BY <1>8 DEF toolVars, ToolInv, ToolTypeOK, CopiesReviewed, Reviewed
  <1> QED BY <1>1, <1>2, <1>3, <1>4, <1>5, <1>6, <1>7, <1>8 DEF Registry!Next

\* The invariant says it of every ledger; the usable tools are in one.
LEMMA ToolInvReviewed == ToolInv => Registry!UsableWasReviewed
  BY DEF ToolInv, ToolTypeOK, Reviewed, Registry!UsableWasReviewed, Registry!UsableTools

(* A lifecycle tool the agent is told to use is in the version that was    *)
(* registered and promoted with evidence (usable_tools).                   *)
THEOREM ToolsHold == ProfileSpec => []UsableWasReviewed
  <1>1. ToolInv => Registry!UsableWasReviewed
    BY ToolInvReviewed
  <1>2. ToolInv => UsableWasReviewed
    BY <1>1 DEF UsableWasReviewed
  <1>3. ProfileInit => ToolInv
    BY ToolInit DEF ProfileInit
  <1>4. ToolInv /\ [Registry!Next]_toolVars => ToolInv'
    BY ToolStep
  <1> QED BY <1>2, <1>3, <1>4, PartsRun, PTL DEF ProfileSpec

-----------------------------------------------------------------------------
(* The goals.  As a command writes back the ledger it has loaded, the      *)
(* invariant speaks of the copies too, and of the verdict a verification   *)
(* is about to write.                                                      *)

GoalRecord == [refs : SUBSET Evidence, status : {"PENDING", "PASS", "BLOCKED"}, listed : BOOLEAN]
GoalFile == [Goals -> GoalRecord]

\* What a command knows.
Writing == [cmd : {"write"}, goal : Goals, ev : Evidence]
Adding == [cmd : {"add"}, goal : Goals, ev : Evidence, seen : GoalFile]
Verifying == [cmd : {"verify"}, goal : Goals, verdict : {"PASS", "BLOCKED"}, seen : GoalFile]
GoalCommands == {Goal!Idle} \cup Writing \cup Adding \cup Verifying

GoalTypeOK ==
  /\ goals \in GoalFile
  /\ goalFiles \in [Evidence -> {"absent", "partial", "whole"}]
  /\ goalProc \in [Procs -> GoalCommands]

\* A pass of goal g over these pieces of evidence is earned.
Earned(g, refs) == <<g, refs>> \in goalPassed /\ refs \cap Marked # {}

Covered(recs) == \A g \in Goals : recs[g].status = "PASS" => Earned(g, recs[g].refs)

CopiesCovered ==
  \A p \in Procs :
    /\ goalProc[p].cmd \in {"add", "verify"} => Covered(goalProc[p].seen)
    /\ goalProc[p].cmd = "verify" /\ goalProc[p].verdict = "PASS" =>
         Earned(goalProc[p].goal, goalProc[p].seen[goalProc[p].goal].refs)

GoalInv == GoalTypeOK /\ Covered(goals) /\ CopiesCovered

\* New evidence takes the verdict of its goal back and touches no other.
LEMMA EvidenceTakesTheVerdictBack ==
  ASSUME NEW recs \in GoalFile, NEW g \in Goals, NEW e \in Evidence, Covered(recs)
  PROVE  Goal!AddEvidenceIn(recs, g, e) \in GoalFile /\ Covered(Goal!AddEvidenceIn(recs, g, e))
  <1>1. recs[g] \in GoalRecord
    BY DEF GoalFile
  <1>2. Goal!AddEvidenceIn(recs, g, e) \in GoalFile
    BY <1>1 DEF Goal!AddEvidenceIn, GoalFile, GoalRecord
  <1>3. Covered(Goal!AddEvidenceIn(recs, g, e))
    BY <1>1 DEF Goal!AddEvidenceIn, GoalFile, GoalRecord, Covered
  <1> QED BY <1>2, <1>3

LEMMA GoalInit == Goal!Init => GoalInv
  <1> SUFFICES ASSUME Goal!Init PROVE GoalInv
    OBVIOUS
  <1>1. GoalTypeOK
    BY DEF Goal!Init, GoalTypeOK, GoalFile, GoalRecord, Goal!DefaultGoal, GoalCommands
  <1>2. Covered(goals)
    BY DEF Goal!Init, Covered, Goal!DefaultGoal
  <1>3. CopiesCovered
    BY DEF Goal!Init, CopiesCovered, Goal!Idle
  <1> QED BY <1>1, <1>2, <1>3 DEF GoalInv

LEMMA GoalStep == GoalInv /\ [Goal!Next]_goalVars => GoalInv'
  <1> SUFFICES ASSUME GoalInv, [Goal!Next]_goalVars PROVE GoalInv'
    OBVIOUS
  <1> USE DEF GoalInv
  <1>1. ASSUME NEW p \in Procs, NEW g \in Goals, NEW e \in Evidence, Goal!StartEvidence(p, g, e)
        PROVE  GoalInv'
    <2> DEFINE command == [cmd |-> "write", goal |-> g, ev |-> e]
    <2>1. command \in GoalCommands /\ command.cmd = "write"
      BY DEF GoalCommands, Writing
    <2>2. /\ goalProc' = [goalProc EXCEPT ![p] = command] /\ goals' = goals /\ goalPassed' = goalPassed
          /\ goalFiles' = [goalFiles EXCEPT ![e] = "partial"]
      BY <1>1 DEF Goal!StartEvidence
    <2> HIDE DEF command
    <2>3. GoalTypeOK'
      BY <2>1, <2>2 DEF GoalTypeOK
    <2>4. Covered(goals)' /\ CopiesCovered'
      BY <2>1, <2>2 DEF GoalTypeOK, Covered, CopiesCovered, Earned
    <2> QED BY <2>3, <2>4
  <1>2. ASSUME NEW p \in Procs, Goal!FinishEvidence(p)
        PROVE  GoalInv'
    <2> DEFINE c == goalProc[p]
               command == [cmd |-> "add", goal |-> c.goal, ev |-> c.ev, seen |-> goals]
    <2>1. c \in Writing
      BY <1>2 DEF Goal!FinishEvidence, GoalTypeOK, GoalCommands, Goal!Idle, Writing, Adding, Verifying
    <2>2. command \in GoalCommands /\ command.cmd = "add" /\ command.seen = goals
      BY <2>1 DEF GoalCommands, Writing, Adding, GoalTypeOK
    <2>3. /\ goalProc' = [goalProc EXCEPT ![p] = command] /\ goals' = goals /\ goalPassed' = goalPassed
          /\ goalFiles' = [goalFiles EXCEPT ![c.ev] = "whole"]
      BY <1>2 DEF Goal!FinishEvidence
    <2> HIDE DEF command
    <2>4. GoalTypeOK'
      BY <2>1, <2>2, <2>3 DEF GoalTypeOK
    <2>5. Covered(goals)' /\ CopiesCovered'
      BY <2>2, <2>3 DEF GoalTypeOK, Covered, CopiesCovered, Earned
    <2> QED BY <2>4, <2>5
  <1>3. ASSUME NEW p \in Procs, Goal!SaveEvidence(p)
        PROVE  GoalInv'
    <2> DEFINE c == goalProc[p]
    <2>1. c \in Adding /\ Covered(c.seen)
      BY <1>3 DEF Goal!SaveEvidence, GoalTypeOK, CopiesCovered, GoalCommands, Goal!Idle, Writing, Adding, Verifying
    <2>2. c.seen \in GoalFile /\ c.goal \in Goals /\ c.ev \in Evidence
      BY <2>1 DEF Adding
    <2>3. /\ goals' = Goal!AddEvidenceIn(c.seen, c.goal, c.ev) /\ goalPassed' = goalPassed
          /\ goalFiles' = goalFiles /\ goalProc' = [goalProc EXCEPT ![p] = Goal!Idle]
      BY <1>3 DEF Goal!SaveEvidence
    <2>4. goals' \in GoalFile /\ Covered(goals')
      BY <2>1, <2>2, <2>3, EvidenceTakesTheVerdictBack
    <2>5. GoalTypeOK'
      BY <2>3, <2>4 DEF GoalTypeOK, GoalCommands
    <2>6. Covered(goals)' /\ CopiesCovered'
      BY <2>3, <2>4 DEF GoalTypeOK, Covered, CopiesCovered, Earned, Goal!Idle
    <2> QED BY <2>5, <2>6
  <1>4. ASSUME NEW p \in Procs, NEW g \in Goals, Goal!LoadVerify(p, g)
        PROVE  GoalInv'
    <2> DEFINE refs == goals[g].refs
               verdict == IF Goal!ValidRefs(refs) = {} THEN "BLOCKED" ELSE "PASS"
               command == [cmd |-> "verify", goal |-> g, verdict |-> verdict, seen |-> goals]
    <2>1. /\ command \in GoalCommands /\ command.cmd = "verify" /\ command.seen = goals
          /\ command.goal = g /\ command.verdict = verdict
      BY DEF GoalCommands, Verifying, GoalTypeOK
    <2>2. /\ goalProc' = [goalProc EXCEPT ![p] = command] /\ goals' = goals /\ goalFiles' = goalFiles
          /\ goalPassed' = IF verdict = "PASS" THEN goalPassed \cup {<<g, refs>>} ELSE goalPassed
      BY <1>4 DEF Goal!LoadVerify
    <2>3. verdict = "PASS" => <<g, refs>> \in goalPassed' /\ refs \cap Marked # {}
      BY <2>2 DEF Goal!ValidRefs
    <2>4. goalPassed \subseteq goalPassed'
      BY <2>2
    <2> HIDE DEF command, verdict
    <2>5. GoalTypeOK'
      BY <2>1, <2>2 DEF GoalTypeOK
    <2>6. Covered(goals)'
      BY <2>2, <2>4 DEF Covered, Earned
    <2>7. CopiesCovered'
      BY <2>1, <2>2, <2>3, <2>4 DEF GoalTypeOK, Covered, CopiesCovered, Earned
    <2> QED BY <2>5, <2>6, <2>7
  <1>5. ASSUME NEW p \in Procs, Goal!SaveVerify(p)
        PROVE  GoalInv'
    <2> DEFINE c == goalProc[p]
    <2>1. /\ c \in Verifying /\ Covered(c.seen)
          /\ c.verdict = "PASS" => Earned(c.goal, c.seen[c.goal].refs)
      BY <1>5 DEF Goal!SaveVerify, GoalTypeOK, CopiesCovered, GoalCommands, Goal!Idle, Writing, Adding, Verifying
    <2>2. c.seen \in GoalFile /\ c.goal \in Goals /\ c.verdict \in {"PASS", "BLOCKED"}
      BY <2>1 DEF Verifying
    <2>3. /\ goals' = [c.seen EXCEPT ![c.goal] =
                         [refs |-> @.refs, status |-> c.verdict, listed |-> TRUE]]
          /\ goalPassed' = goalPassed /\ goalFiles' = goalFiles /\ goalProc' = [goalProc EXCEPT ![p] = Goal!Idle]
      BY <1>5 DEF Goal!SaveVerify
    <2>4. goals' \in GoalFile /\ Covered(goals')
      BY <2>1, <2>2, <2>3 DEF GoalFile, GoalRecord, Covered
    <2>5. GoalTypeOK'
      BY <2>3, <2>4 DEF GoalTypeOK, GoalCommands
    <2>6. Covered(goals)' /\ CopiesCovered'
      BY <2>3, <2>4 DEF GoalTypeOK, Covered, CopiesCovered, Earned, Goal!Idle
    <2> QED BY <2>5, <2>6
  <1>6. ASSUME NEW p \in Procs, Goal!Kill(p)
        PROVE  GoalInv'
    BY <1>6 DEF Goal!Kill, GoalTypeOK, GoalCommands, Covered, CopiesCovered, Earned, Goal!Idle
  <1>7. ASSUME Goal!GoalStatus
        PROVE  GoalInv'
    <2>1. /\ goals' \in GoalFile
          /\ \A g \in Goals : goals'[g].refs = goals[g].refs /\ goals'[g].status = goals[g].status
      BY <1>7 DEF Goal!GoalStatus, GoalTypeOK, GoalFile, GoalRecord
    <2>2. UNCHANGED <<goalFiles, goalProc, goalPassed>>
      BY <1>7 DEF Goal!GoalStatus
    <2> QED BY <2>1, <2>2 DEF GoalTypeOK, Covered, CopiesCovered, Earned
  <1>8. CASE UNCHANGED goalVars
    BY <1>8 DEF goalVars, GoalTypeOK, Covered, CopiesCovered, Earned
  <1> QED BY <1>1, <1>2, <1>3, <1>4, <1>5, <1>6, <1>7, <1>8 DEF Goal!Next

(* A goal that stands as passed was verified over the evidence it refers   *)
(* to (add_goal_evidence, verify_goal).                                    *)
THEOREM GoalsHold == ProfileSpec => []PassCoversTheEvidence
  <1>1. GoalInv => Goal!PassCoversTheEvidence
    BY DEF GoalInv, Covered, Earned, Goal!PassCoversTheEvidence
  <1>2. GoalInv => PassCoversTheEvidence
    BY <1>1 DEF PassCoversTheEvidence
  <1>3. ProfileInit => GoalInv
    BY GoalInit DEF ProfileInit
  <1>4. GoalInv /\ [Goal!Next]_goalVars => GoalInv'
    BY GoalStep
  <1> QED BY <1>2, <1>3, <1>4, PartsRun, PTL DEF ProfileSpec

-----------------------------------------------------------------------------
(* Friend messages.  The invariant says of every part a run counts as done *)
(* why it may: the run has sent it, or the checkpoint has credited it to a *)
(* message whose part did arrive.                                          *)

SendSteps == {"send", "record", "consume", "count"}

\* (What is known of a run, whatever an index of a part is.)
SendUnderWay ==
  /\ sendRun.step \in SendSteps /\ sendRun.msg \in Messages /\ sendRun.file \in Checkpoints
  /\ sendRun = [step |-> sendRun.step, msg |-> sendRun.msg, file |-> sendRun.file, done |-> sendRun.done, sent |-> sendRun.sent]

SendTypeOK ==
  /\ sendApproved \subseteq Messages
  /\ sendCheckpoint = [f \in Checkpoints |-> sendCheckpoint[f]]
  /\ sendRun = Friends!NoRun \/ SendUnderWay

\* Every index of a checkpoint stands for a part that arrived.
Credited ==
  /\ \A f \in Checkpoints : \A i \in sendCheckpoint[f] : \E m \in Messages : <<f, i, m>> \in sendCredit
  /\ \A f \in Checkpoints, m \in Messages : \A i : <<f, i, m>> \in sendCredit => <<m, i>> \in sendArrived

\* What the run counts as done it has sent, or found in its checkpoint.
DoneIsBacked ==
  sendRun # Friends!NoRun =>
    /\ sendCheckpoint[sendRun.file] \subseteq sendRun.done
    /\ \A i \in sendRun.done \ sendCheckpoint[sendRun.file] : <<sendRun.msg, i>> \in sendArrived
    /\ sendRun.step \in {"consume", "count"} => Friends!MissingParts(sendRun) = {}

\* The units a run will add are parts it has sent.
UnitsAreSent ==
  /\ sendUnits \in Nat /\ sends \in Nat /\ sendUnits <= sends
  /\ sendRun # Friends!NoRun => IsFiniteSet(sendRun.sent) /\ sendUnits + Cardinality(sendRun.sent) <= sends

SendInv == SendTypeOK /\ Credited /\ DoneIsBacked /\ UnitsAreSent

\* A step other than that of NoRun tells that a run is under way.
LEMMA RunUnderWay == ASSUME SendTypeOK, sendRun.step \in SendSteps PROVE SendUnderWay /\ sendRun # Friends!NoRun
  BY DEF SendTypeOK, Friends!NoRun, SendSteps

LEMMA SendInit == Friends!Init => SendInv
  BY DEF Friends!Init, SendInv, SendTypeOK, Credited, DoneIsBacked, UnitsAreSent

\* Saving what is done credits the new indexes to the run's message.
LEMMA SaveKeepsCredit ==
  ASSUME SendInv, SendUnderWay, sendRun # Friends!NoRun, Friends!SaveCheckpoint(sendRun.done), sendArrived \subseteq sendArrived'
  PROVE  /\ sendCheckpoint' = [f \in Checkpoints |-> sendCheckpoint'[f]]
         /\ sendCheckpoint'[sendRun.file] = sendRun.done
         /\ Credited'
  <1>1. /\ sendRun.file \in Checkpoints /\ sendRun.msg \in Messages
        /\ sendCheckpoint = [f \in Checkpoints |-> sendCheckpoint[f]]
    BY DEF SendUnderWay, SendInv, SendTypeOK
  <1>2. /\ sendCheckpoint' = [sendCheckpoint EXCEPT ![sendRun.file] = sendRun.done]
        /\ sendCredit' = sendCredit \cup {<<sendRun.file, i, sendRun.msg>> : i \in sendRun.done \ sendCheckpoint[sendRun.file]}
    BY DEF Friends!SaveCheckpoint
  <1>3. sendCheckpoint' = [f \in Checkpoints |-> sendCheckpoint'[f]] /\ sendCheckpoint'[sendRun.file] = sendRun.done
    BY <1>1, <1>2
  <1>4. ASSUME NEW f \in Checkpoints, NEW i \in sendCheckpoint'[f]
        PROVE  \E m \in Messages : <<f, i, m>> \in sendCredit'
    <2>1. CASE i \in sendCheckpoint[f]
      BY <2>1, <1>2 DEF SendInv, Credited
    <2>2. CASE i \notin sendCheckpoint[f]
      <3>1. f = sendRun.file /\ i \in sendRun.done \ sendCheckpoint[sendRun.file]
        BY <2>2, <1>1, <1>2, <1>4
      <3> QED BY <3>1, <1>1, <1>2
    <2> QED BY <2>1, <2>2
  <1>5. ASSUME NEW f \in Checkpoints, NEW m \in Messages, NEW i, <<f, i, m>> \in sendCredit'
        PROVE  <<m, i>> \in sendArrived'
    <2>1. CASE <<f, i, m>> \in sendCredit
      BY <2>1 DEF SendInv, Credited
    <2>2. CASE <<f, i, m>> \notin sendCredit
      <3>1. m = sendRun.msg /\ i \in sendRun.done \ sendCheckpoint[sendRun.file]
        BY <2>2, <1>2, <1>5
      <3> QED BY <3>1 DEF SendInv, DoneIsBacked
    <2> QED BY <2>1, <2>2
  <1> QED BY <1>3, <1>4, <1>5 DEF Credited

\* What ends the run keeps the rest of the invariant.
LEMMA EndingKeepsInv ==
  ASSUME sendRun' = Friends!NoRun, sendApproved' \subseteq Messages, Credited',
         sendCheckpoint' = [f \in Checkpoints |-> sendCheckpoint'[f]],
         sendUnits' \in Nat, sends' \in Nat, sendUnits' <= sends'
  PROVE  SendInv'
  BY DEF SendInv, SendTypeOK, DoneIsBacked, UnitsAreSent

\* A part that was sent stands behind the new index.
LEMMA SendPartKeepsInv == ASSUME SendInv, Friends!SendPart PROVE SendInv'
  <1> DEFINE piece == Friends!Min(Friends!MissingParts(sendRun))
  <1>1. SendUnderWay /\ sendRun # Friends!NoRun
    BY RunUnderWay DEF Friends!SendPart, SendInv, SendSteps
  <1>2. /\ sendArrived' = sendArrived \cup {<<sendRun.msg, piece>>} /\ sends' = sends + 1
        /\ sendRun' = [sendRun EXCEPT !.step = "record", !.done = @ \cup {piece}, !.sent = @ \cup {piece}]
        /\ UNCHANGED <<sendApproved, sendCheckpoint, sendUnits, sendCredit>>
    BY DEF Friends!SendPart
  <1> HIDE DEF piece
  <1>3. /\ sendRun'.step = "record" /\ sendRun'.msg = sendRun.msg /\ sendRun'.file = sendRun.file
        /\ sendRun'.done = sendRun.done \cup {piece} /\ sendRun'.sent = sendRun.sent \cup {piece}
        /\ SendUnderWay' /\ sendRun' # Friends!NoRun
    BY <1>1, <1>2 DEF SendUnderWay, SendSteps, Friends!NoRun
  <1>4. SendTypeOK' /\ Credited'
    BY <1>2, <1>3 DEF SendInv, SendTypeOK, Credited
  <1>5. DoneIsBacked'
    BY <1>1, <1>2, <1>3 DEF SendInv, DoneIsBacked
  <1>6. UnitsAreSent'
    <2>1. IsFiniteSet(sendRun.sent) /\ sendUnits + Cardinality(sendRun.sent) <= sends
          /\ sendUnits \in Nat /\ sends \in Nat
      BY <1>1 DEF SendInv, UnitsAreSent
    <2>2. /\ IsFiniteSet(sendRun.sent \cup {piece})
          /\ Cardinality(sendRun.sent \cup {piece}) \in Nat /\ Cardinality(sendRun.sent) \in Nat
          /\ Cardinality(sendRun.sent \cup {piece}) <= Cardinality(sendRun.sent) + 1
      <3>1. /\ IsFiniteSet(sendRun.sent \cup {piece})
            /\ \/ Cardinality(sendRun.sent \cup {piece}) = Cardinality(sendRun.sent)
               \/ Cardinality(sendRun.sent \cup {piece}) = Cardinality(sendRun.sent) + 1
        BY <2>1, FS_AddElement, Zenon
      <3>2. Cardinality(sendRun.sent) \in Nat
        BY <2>1, FS_CardinalityType, Zenon
      <3> QED BY <3>1, <3>2
    <2>3. IsFiniteSet(sendRun'.sent) /\ sendUnits' + Cardinality(sendRun'.sent) <= sends'
          /\ sendUnits' \in Nat /\ sends' \in Nat /\ sendUnits' <= sends'
      BY <2>1, <2>2, <1>2, <1>3
    <2> QED BY <2>3 DEF UnitsAreSent
  <1> QED BY <1>4, <1>5, <1>6 DEF SendInv

\* The steps that save what is done and go on.
LEMMA SavedKeepsInv ==
  ASSUME SendInv, SendUnderWay, sendRun # Friends!NoRun, Friends!SaveCheckpoint(sendRun.done),
         NEW next \in SendSteps, next \in {"consume", "count"} => Friends!MissingParts(sendRun) = {},
         sendRun' = [sendRun EXCEPT !.step = next], UNCHANGED <<sendApproved, sendUnits, sendArrived, sends>>
  PROVE  SendInv'
  <1>1. /\ sendCheckpoint' = [f \in Checkpoints |-> sendCheckpoint'[f]]
        /\ sendCheckpoint'[sendRun.file] = sendRun.done /\ Credited'
    BY SaveKeepsCredit
  <1>2. /\ sendRun'.step = next /\ sendRun'.msg = sendRun.msg /\ sendRun'.file = sendRun.file
        /\ sendRun'.done = sendRun.done /\ sendRun'.sent = sendRun.sent /\ SendUnderWay' /\ sendRun' # Friends!NoRun
    BY DEF SendUnderWay, SendSteps, Friends!NoRun
  <1>3. SendTypeOK'
    BY <1>1, <1>2 DEF SendInv, SendTypeOK
  <1>4. DoneIsBacked'
    BY <1>1, <1>2 DEF SendInv, DoneIsBacked, Friends!MissingParts
  <1>5. UnitsAreSent'
    BY <1>2 DEF SendInv, UnitsAreSent
  <1> QED BY <1>1, <1>3, <1>4, <1>5 DEF SendInv

LEMMA SendStep == SendInv /\ [Friends!Next]_sendVars => SendInv'
  <1> SUFFICES ASSUME SendInv, [Friends!Next]_sendVars PROVE SendInv'
    OBVIOUS
  <1>1. ASSUME NEW message \in Messages, Friends!Grant(message) PROVE SendInv'
    BY <1>1 DEF Friends!Grant, SendInv, SendTypeOK, SendUnderWay, Credited, DoneIsBacked, UnitsAreSent, Friends!MissingParts
  <1>2. ASSUME NEW message \in Messages, NEW file \in Checkpoints, Friends!StartSend(message, file)
        PROVE  SendInv'
    <2>1. /\ sendRun' = [step |-> "send", msg |-> message, file |-> file,
                     done |-> sendCheckpoint[file], sent |-> {}]
          /\ UNCHANGED <<sendApproved, sendCheckpoint, sendUnits, sendArrived, sendCredit, sends>>
      BY <1>2 DEF Friends!StartSend
    <2>2. /\ sendRun'.step = "send" /\ sendRun'.msg = message /\ sendRun'.file = file
          /\ sendRun'.done = sendCheckpoint[file] /\ sendRun'.sent = {} /\ SendUnderWay' /\ sendRun' # Friends!NoRun
      BY <2>1 DEF SendUnderWay, SendSteps, Friends!NoRun
    <2>3. SendTypeOK' /\ Credited'
      BY <2>1, <2>2 DEF SendInv, SendTypeOK, Credited
    <2>4. DoneIsBacked'
      BY <2>1, <2>2 DEF DoneIsBacked
    <2>5. UnitsAreSent'
      BY <2>1, <2>2, FS_EmptySet DEF SendInv, UnitsAreSent
    <2> QED BY <2>3, <2>4, <2>5 DEF SendInv
  <1>3. CASE Friends!SendPart
    BY <1>3, SendPartKeepsInv
  <1>4. CASE Friends!RecordPart
    <2>1. SendUnderWay /\ sendRun # Friends!NoRun
      BY <1>4, RunUnderWay DEF Friends!RecordPart, SendInv, SendSteps
    <2>2. /\ Friends!SaveCheckpoint(sendRun.done) /\ sendRun' = [sendRun EXCEPT !.step = "send"]
          /\ UNCHANGED <<sendApproved, sendUnits, sendArrived, sends>> /\ "send" \in SendSteps
      BY <1>4 DEF Friends!RecordPart, SendSteps
    <2> QED BY <2>1, <2>2, SavedKeepsInv
  <1>5. CASE Friends!CompleteRun
    <2>1. SendUnderWay /\ sendRun # Friends!NoRun
      BY <1>5, RunUnderWay DEF Friends!CompleteRun, SendInv, SendSteps
    <2>2. /\ Friends!SaveCheckpoint(sendRun.done) /\ sendRun' = [sendRun EXCEPT !.step = "consume"]
          /\ UNCHANGED <<sendApproved, sendUnits, sendArrived, sends>> /\ "consume" \in SendSteps
          /\ Friends!MissingParts(sendRun) = {}
      BY <1>5 DEF Friends!CompleteRun, SendSteps
    <2> QED BY <2>1, <2>2, SavedKeepsInv
  <1>6. CASE Friends!Consume
    <2>1. SendUnderWay /\ sendRun # Friends!NoRun
      BY <1>6, RunUnderWay DEF Friends!Consume, SendInv, SendSteps
    <2>2. /\ sendRun' = [sendRun EXCEPT !.step = "count"] /\ sendApproved' = sendApproved \ {sendRun.msg}
          /\ UNCHANGED <<sendCheckpoint, sendUnits, sendArrived, sendCredit, sends>> /\ sendRun.step = "consume"
      BY <1>6 DEF Friends!Consume
    <2>3. /\ sendRun'.step = "count" /\ sendRun'.msg = sendRun.msg /\ sendRun'.file = sendRun.file
          /\ sendRun'.done = sendRun.done /\ sendRun'.sent = sendRun.sent /\ SendUnderWay' /\ sendRun' # Friends!NoRun
      BY <2>1, <2>2 DEF SendUnderWay, SendSteps, Friends!NoRun
    <2>4. SendTypeOK' /\ Credited'
      BY <2>2, <2>3 DEF SendInv, SendTypeOK, Credited
    <2>5. DoneIsBacked'
      BY <2>1, <2>2, <2>3 DEF SendInv, DoneIsBacked, Friends!MissingParts
    <2>6. UnitsAreSent'
      BY <2>1, <2>2, <2>3 DEF SendInv, UnitsAreSent
    <2> QED BY <2>4, <2>5, <2>6 DEF SendInv
  <1>7. CASE Friends!RecordUsage
    <2>1. SendUnderWay /\ sendRun # Friends!NoRun
      BY <1>7, RunUnderWay DEF Friends!RecordUsage, SendInv, SendSteps
    <2>2. /\ sendUnits' = sendUnits + Cardinality(sendRun.sent) /\ sendRun' = Friends!NoRun
          /\ UNCHANGED <<sendApproved, sendCheckpoint, sendArrived, sendCredit, sends>>
      BY <1>7, SameCardinality DEF Friends!RecordUsage
    <2>3. IsFiniteSet(sendRun.sent) /\ Cardinality(sendRun.sent) \in Nat
      BY <2>1, FS_CardinalityType DEF SendInv, UnitsAreSent
    <2>4. sendUnits' \in Nat /\ sends' \in Nat /\ sendUnits' <= sends'
      BY <2>1, <2>2, <2>3 DEF SendInv, UnitsAreSent
    <2>5. Credited' /\ sendApproved' \subseteq Messages /\ sendCheckpoint' = [f \in Checkpoints |-> sendCheckpoint'[f]]
      BY <2>2 DEF SendInv, SendTypeOK, Credited
    <2> QED BY <2>2, <2>4, <2>5, EndingKeepsInv
  <1>8. CASE Friends!Kill
    <2>1. sendRun' = Friends!NoRun /\ UNCHANGED <<sendApproved, sendCheckpoint, sendUnits, sendArrived, sendCredit, sends>>
      BY <1>8 DEF Friends!Kill
    <2>2. Credited' /\ sendApproved' \subseteq Messages /\ sendCheckpoint' = [f \in Checkpoints |-> sendCheckpoint'[f]]
      BY <2>1 DEF SendInv, SendTypeOK, Credited
    <2>3. sendUnits' \in Nat /\ sends' \in Nat /\ sendUnits' <= sends'
      BY <2>1 DEF SendInv, UnitsAreSent
    <2> QED BY <2>1, <2>2, <2>3, EndingKeepsInv
  <1>9. ASSUME NEW seen \in BOOLEAN, Friends!FailPart(seen) PROVE SendInv'
    <2>1. SendUnderWay /\ sendRun # Friends!NoRun
      BY <1>9, RunUnderWay DEF Friends!FailPart, SendInv, SendSteps
    <2>2. /\ sendArrived \subseteq sendArrived' /\ sends' = (IF seen THEN sends + 1 ELSE sends)
          /\ Friends!SaveCheckpoint(sendRun.done) /\ sendRun' = Friends!NoRun /\ UNCHANGED <<sendApproved, sendUnits>>
      BY <1>9 DEF Friends!FailPart
    <2>3. Credited' /\ sendCheckpoint' = [f \in Checkpoints |-> sendCheckpoint'[f]]
      BY <2>1, <2>2, SaveKeepsCredit
    <2>4. sendUnits' \in Nat /\ sends' \in Nat /\ sendUnits' <= sends'
      BY <2>2 DEF SendInv, UnitsAreSent
    <2>5. sendApproved' \subseteq Messages
      BY <2>2 DEF SendInv, SendTypeOK
    <2> QED BY <2>2, <2>3, <2>4, <2>5, EndingKeepsInv
  <1>10. CASE UNCHANGED sendVars
    BY <1>10 DEF sendVars, SendInv, SendTypeOK, SendUnderWay, Credited, DoneIsBacked, UnitsAreSent, Friends!MissingParts
  <1> QED BY <1>1, <1>2, <1>3, <1>4, <1>5, <1>6, <1>7, <1>8, <1>9, <1>10 DEF Friends!Next

(* An approval is spent on a message that went out in full, and the quota  *)
(* never runs ahead of what was sent (run_kakao_send_sequence).            *)
THEOREM MessagesHold == ProfileSpec => []SpentMeansDelivered
  <1>1. SendInv => Friends!SpentMeansDelivered
    <2> SUFFICES ASSUME SendInv PROVE Friends!SpentMeansDelivered
      OBVIOUS
    <2>1. ASSUME sendRun.step \in {"consume", "count"}, NEW piece \in Friends!PlannedParts(sendRun.msg)
          PROVE  \/ <<sendRun.msg, piece>> \in sendArrived
                 \/ \E other \in Messages \ {sendRun.msg} : <<sendRun.file, piece, other>> \in sendCredit
      <3>1. SendUnderWay /\ sendRun # Friends!NoRun
        BY <2>1, RunUnderWay DEF SendInv, SendSteps
      <3>2. piece \in sendRun.done /\ sendRun.file \in Checkpoints /\ sendRun.msg \in Messages
        BY <2>1, <3>1 DEF SendInv, DoneIsBacked, Friends!MissingParts, SendUnderWay
      <3>3. CASE piece \in sendCheckpoint[sendRun.file]
        BY <3>2, <3>3 DEF SendInv, Credited
      <3>4. CASE piece \notin sendCheckpoint[sendRun.file]
        BY <3>1, <3>2, <3>4 DEF SendInv, DoneIsBacked
      <3> QED BY <3>3, <3>4
    <2>2. sendUnits <= sends
      BY DEF SendInv, UnitsAreSent
    <2> QED BY <2>1, <2>2 DEF Friends!SpentMeansDelivered
  <1>2. SendInv => SpentMeansDelivered
    BY <1>1 DEF SpentMeansDelivered
  <1>3. ProfileInit => SendInv
    BY SendInit DEF ProfileInit
  <1>4. SendInv /\ [Friends!Next]_sendVars => SendInv'
    BY SendStep
  <1> QED BY <1>2, <1>3, <1>4, PartsRun, PTL DEF ProfileSpec

-----------------------------------------------------------------------------
(* Google Workspace.  Every token a command holds in memory is one         *)
(* consent's too, since it will be written whole; and the folders that are *)
(* there are counted together with the commands about to make one.         *)

Owners == Followed
AccessTokens == [grant : Grants, nr : Nat]

\* A token of one consent.
OneGrant(t) ==
  /\ t.access.grant.client = t.client /\ t.scopes = t.access.grant.allScopes
  /\ t.refresh \subseteq {t.access.grant}
OneGrantTokens ==
  {t \in [client : {g.client : g \in Grants}, scopes : {g.allScopes : g \in Grants},
          access : AccessTokens, refresh : SUBSET Grants] : OneGrant(t)}

GwsCommands ==
  {Gws!Idle} \cup [step : {"setup", "refresh"}, token : OneGrantTokens]
    \cup {c \in [step : {"save"}, token : OneGrantTokens, access : AccessTokens] :
            c.access.grant = c.token.access.grant}
    \cup [step : {"write"}, token : OneGrantTokens, file : {"tmp", "token", "gone"},
          then : SUBSET AccessTokens]
    \cup [step : {"replace"}, then : SUBSET AccessTokens]
    \cup {c \in [step : {"request", "last", "folder"}, access : AccessTokens] :
            c.step = "folder" => Gws!OwnerOf(c.access.grant) \in Owners}

GwsTypeOK ==
  /\ gwsToken \subseteq OneGrantTokens
  /\ gwsTmp \in [there : BOOLEAN, text : SUBSET OneGrantTokens]
  /\ gwsProc \in [Procs -> GwsCommands]
  /\ gwsIssued \in Nat
  /\ gwsFolders \in [Owners -> Nat]

\* The commands that found no folder and are about to make one.
Making(o) == {p \in Procs : gwsProc[p].step = "folder" /\ Gws!OwnerOf(gwsProc[p].access.grant) = o}
FewFolders == \A o \in Owners : gwsFolders[o] + Cardinality(Making(o)) <= Cardinality(Procs)

GwsInv == GwsTypeOK /\ FewFolders

\* What a command holds, by its step.
LEMMA CommandShapes ==
  ASSUME NEW c \in GwsCommands
  PROVE  /\ c.step \in {"setup", "refresh"} => c.token \in OneGrantTokens
         /\ c.step = "save" => /\ c.token \in OneGrantTokens /\ c.access \in AccessTokens
                               /\ c.access.grant = c.token.access.grant
         /\ c.step \in {"request", "last", "folder"} =>
              c \in [step : {"request", "last", "folder"}, access : AccessTokens]
         /\ c.step = "folder" => Gws!OwnerOf(c.access.grant) \in Owners
         /\ c.step = "write" =>
              c \in [step : {"write"}, token : OneGrantTokens, file : {"tmp", "token", "gone"},
                     then : SUBSET AccessTokens]
         /\ c.step = "replace" => c.then \subseteq AccessTokens
  BY DEF GwsCommands, Gws!Idle

LEMMA ShapesAreCommands ==
  /\ \A t \in OneGrantTokens : \A s \in {"setup", "refresh"} : [step |-> s, token |-> t] \in GwsCommands
  /\ \A t \in OneGrantTokens, a \in AccessTokens :
       a.grant = t.access.grant => [step |-> "save", token |-> t, access |-> a] \in GwsCommands
  /\ \A t \in OneGrantTokens, then \in SUBSET AccessTokens : \A f \in {"tmp", "token", "gone"} :
       [step |-> "write", token |-> t, file |-> f, then |-> then] \in GwsCommands
  /\ \A then \in SUBSET AccessTokens : [step |-> "replace", then |-> then] \in GwsCommands
  /\ \A a \in AccessTokens : \A s \in {"request", "last"} : [step |-> s, access |-> a] \in GwsCommands
  /\ \A a \in AccessTokens :
       Gws!OwnerOf(a.grant) \in Owners => [step |-> "folder", access |-> a] \in GwsCommands
  /\ Gws!Idle \in GwsCommands
  BY DEF GwsCommands

\* The number of commands about to make a folder is a number.
LEMMA MakingIsFinite ==
  ASSUME IsFiniteSet(Procs), NEW S \in SUBSET Procs
  PROVE  /\ IsFiniteSet(S) /\ Cardinality(S) \in Nat /\ Cardinality(Procs) \in Nat
         /\ Cardinality(S) <= Cardinality(Procs)
  BY FS_Subset, FS_CardinalityType, Zenon

LEMMA GwsInit == ASSUME IsFiniteSet(Procs) PROVE Gws!Init => GwsInv
  <1> SUFFICES ASSUME Gws!Init PROVE GwsInv
    OBVIOUS
  <1>1. GwsTypeOK
    BY ShapesAreCommands DEF Gws!Init, Gws!NoTmp, GwsTypeOK, Owners
  <1>2. ASSUME NEW o \in Owners PROVE gwsFolders[o] + Cardinality(Making(o)) <= Cardinality(Procs)
    <2>1. gwsFolders[o] = 0
      BY DEF Gws!Init, Owners
    <2>2. Making(o) \in SUBSET Procs
      BY DEF Making
    <2> QED BY <2>1, <2>2, MakingIsFinite
  <1> QED BY <1>1, <1>2 DEF GwsInv, FewFolders

\* A step that makes no folder and has no command come to that point.
LEMMA NoFolderMade ==
  ASSUME IsFiniteSet(Procs), GwsInv, GwsTypeOK', UNCHANGED gwsFolders,
         \A o \in Owners : Making(o)' \subseteq Making(o)
  PROVE  GwsInv'
  <1>1. ASSUME NEW o \in Owners
        PROVE  gwsFolders'[o] + Cardinality(Making(o)') <= Cardinality(Procs)
    <2>1. Making(o) \in SUBSET Procs /\ Making(o)' \subseteq Making(o)
      BY DEF Making
    <2>2. IsFiniteSet(Making(o)) /\ Cardinality(Making(o)) \in Nat /\ Cardinality(Procs) \in Nat
      BY <2>1, MakingIsFinite
    <2>3. Cardinality(Making(o)') \in Nat /\ Cardinality(Making(o)') <= Cardinality(Making(o))
      BY <2>1, <2>2, FS_Subset, FS_CardinalityType, Zenon
    <2>4. gwsFolders[o] \in Nat /\ gwsFolders[o] + Cardinality(Making(o)) <= Cardinality(Procs)
      BY DEF GwsInv, GwsTypeOK, FewFolders
    <2> QED BY <2>2, <2>3, <2>4
  <1> QED BY <1>1 DEF GwsInv, FewFolders

\* A step of p to a command that is not about to make a folder.
LEMMA StepAside ==
  ASSUME GwsInv, NEW p \in Procs, NEW c \in GwsCommands, Gws!GoTo(p, c), c.step # "folder"
  PROVE  /\ gwsProc' \in [Procs -> GwsCommands]
         /\ \A o \in Owners : Making(o)' \subseteq Making(o)
  BY DEF GwsInv, GwsTypeOK, Gws!GoTo, Making

\* Where a step of p leads that leaves the token, the grants and folders be.
LEMMA QuietStep ==
  ASSUME IsFiniteSet(Procs), GwsInv, NEW p \in Procs, NEW c \in GwsCommands, Gws!GoTo(p, c),
         c.step # "folder", gwsToken' \subseteq OneGrantTokens,
         gwsTmp' \in [there : BOOLEAN, text : SUBSET OneGrantTokens],
         gwsIssued' \in Nat, UNCHANGED gwsFolders
  PROVE  GwsInv'
  <1>1. GwsTypeOK'
    BY StepAside DEF GwsInv, GwsTypeOK
  <1> QED BY <1>1, StepAside, NoFolderMade

\* A new consent is one grant, and stays one when its access is renewed.
LEMMA SetupGivesOneGrant ==
  ASSUME GwsInv, NEW grant \in Grants, NEW refreshable \in BOOLEAN
  PROVE  [client |-> grant.client, scopes |-> grant.allScopes,
          access |-> [grant |-> grant, nr |-> gwsIssued],
          refresh |-> IF refreshable THEN {grant} ELSE {}] \in OneGrantTokens
  BY DEF GwsInv, GwsTypeOK, OneGrantTokens, AccessTokens, OneGrant

LEMMA RenewedIsOneGrant ==
  ASSUME NEW t \in OneGrantTokens, NEW a \in AccessTokens, a.grant = t.access.grant
  PROVE  [t EXCEPT !.access = a] \in OneGrantTokens
  BY DEF OneGrantTokens, OneGrant

\* The tmp file is opened: what is renamed into place later is one grant's.
LEMMA OpenStep ==
  ASSUME IsFiniteSet(Procs), GwsInv, NEW p \in Procs, NEW t \in OneGrantTokens,
         NEW then \in SUBSET AccessTokens, Gws!Open(p, t, then)
  PROVE  GwsInv'
  <1> DEFINE c == [step |-> "write", token |-> t, file |-> "tmp", then |-> then]
  <1>1. /\ Gws!GoTo(p, c) /\ UNCHANGED <<gwsToken, gwsIssued, gwsFolders>>
        /\ gwsTmp' = [there |-> TRUE, text |-> {}]
    BY DEF Gws!Open, Gws!google
  <1>2. c \in GwsCommands /\ c.step # "folder"
    BY ShapesAreCommands
  <1>3. gwsTmp' \in [there : BOOLEAN, text : SUBSET OneGrantTokens]
    BY <1>1
  <1> HIDE DEF c
  <1> QED BY <1>1, <1>2, <1>3, QuietStep DEF GwsInv, GwsTypeOK

LEMMA FillStep ==
  ASSUME IsFiniteSet(Procs), GwsInv, NEW p \in Procs, Gws!Fill(p) PROVE GwsInv'
  <1> DEFINE c == gwsProc[p]
             d == [step |-> "replace", then |-> c.then]
  <1>1. /\ c.step = "write" /\ Gws!GoTo(p, d) /\ UNCHANGED <<gwsIssued, gwsFolders>>
        /\ \/ gwsTmp' = gwsTmp
           \/ \E text \in {{c.token}, gwsTmp.text \cup {c.token}} : gwsTmp' = [gwsTmp EXCEPT !.text = text]
        /\ gwsToken' \in {gwsToken, {c.token}, gwsToken \cup {c.token}}
    BY DEF Gws!Fill, Gws!google
  <1>2. c \in GwsCommands /\ gwsToken \subseteq OneGrantTokens
        /\ gwsTmp \in [there : BOOLEAN, text : SUBSET OneGrantTokens] /\ gwsIssued \in Nat
    BY DEF GwsInv, GwsTypeOK
  <1>3. c.token \in OneGrantTokens /\ c.then \in SUBSET AccessTokens
    BY <1>1, <1>2, CommandShapes
  <1>4. d \in GwsCommands /\ d.step # "folder"
    BY <1>3, ShapesAreCommands
  <1> HIDE DEF c, d
  <1>5. gwsToken' \subseteq OneGrantTokens
    BY <1>1, <1>2, <1>3
  <1>6. gwsTmp' \in [there : BOOLEAN, text : SUBSET OneGrantTokens]
    BY <1>1, <1>2, <1>3
  <1> QED BY <1>1, <1>2, <1>4, <1>5, <1>6, QuietStep

\* A rename does not change what another command is about to do.
LEMMA RenamedIsACommand ==
  ASSUME NEW c \in GwsCommands
  PROVE  /\ Gws!Renamed(c) \in GwsCommands
         /\ Gws!Renamed(c).step = "folder" => Gws!Renamed(c) = c
  <1>1. CASE c.step # "write"
    BY <1>1 DEF Gws!Renamed
  <1>2. CASE c.step = "write"
    <2> DEFINE file == IF c.file = "tmp" THEN "token" ELSE "gone"
    <2>1. Gws!Renamed(c) = [c EXCEPT !.file = file]
      BY <1>2 DEF Gws!Renamed
    <2>2. c \in [step : {"write"}, token : OneGrantTokens, file : {"tmp", "token", "gone"},
                 then : SUBSET AccessTokens]
      BY <1>2, CommandShapes
    <2>3. file \in {"tmp", "token", "gone"}
      OBVIOUS
    <2> HIDE DEF file
    <2>4. [c EXCEPT !.file = file] = [step |-> "write", token |-> c.token, file |-> file, then |-> c.then]
      BY <2>2
    <2>5. c.token \in OneGrantTokens /\ c.then \in SUBSET AccessTokens
      BY <2>2
    <2>6. Gws!Renamed(c) = [step |-> "write", token |-> c.token, file |-> file, then |-> c.then]
      BY <2>1, <2>4
    <2>7. [step |-> "write", token |-> c.token, file |-> file, then |-> c.then] \in GwsCommands
      BY <2>3, <2>5, ShapesAreCommands, Zenon
    <2>8. Gws!Renamed(c).step = "write"
      BY <2>6
    <2> QED BY <2>6, <2>7, <2>8, Zenon
  <1> QED BY <1>1, <1>2

LEMMA ReplaceStep ==
  ASSUME IsFiniteSet(Procs), GwsInv, NEW p \in Procs, Gws!Replace(p) PROVE GwsInv'
  <1> DEFINE c == gwsProc[p]
             next == IF c.then # {} /\ gwsTmp.there
                     THEN [step |-> "request", access |-> CHOOSE access \in c.then : TRUE]
                     ELSE Gws!Idle
  <1>1. /\ gwsProc \in [Procs -> GwsCommands] /\ c \in GwsCommands /\ gwsToken \subseteq OneGrantTokens
        /\ gwsTmp \in [there : BOOLEAN, text : SUBSET OneGrantTokens] /\ gwsIssued \in Nat
    BY DEF GwsInv, GwsTypeOK
  <1>2. /\ c.step = "replace" /\ UNCHANGED <<gwsIssued, gwsFolders>>
        /\ IF gwsTmp.there
           THEN /\ gwsToken' = gwsTmp.text /\ gwsTmp' = Gws!NoTmp
                /\ gwsProc' = [q \in Procs |-> IF q = p THEN next ELSE Gws!Renamed(gwsProc[q])]
           ELSE Gws!GoTo(p, next) /\ UNCHANGED <<gwsToken, gwsTmp>>
    BY DEF Gws!Replace, Gws!google
  <1>3. c.then \subseteq AccessTokens
    BY <1>1, <1>2, CommandShapes
  <1>4. next \in GwsCommands /\ next.step # "folder"
    <2>1. CASE c.then # {} /\ gwsTmp.there
      <3>1. (CHOOSE access \in c.then : TRUE) \in AccessTokens
        BY <1>3, <2>1
      <3> QED BY <2>1, <3>1, ShapesAreCommands
    <2>2. CASE ~(c.then # {} /\ gwsTmp.there)
      BY <2>2, ShapesAreCommands DEF Gws!Idle
    <2> QED BY <2>1, <2>2
  <1> HIDE DEF c, next
  <1>5. CASE gwsTmp.there
    <2>1. /\ gwsToken' = gwsTmp.text /\ gwsTmp' = [there |-> FALSE, text |-> {}]
          /\ gwsProc' = [q \in Procs |-> IF q = p THEN next ELSE Gws!Renamed(gwsProc[q])]
      BY <1>2, <1>5 DEF Gws!NoTmp
    <2>2. \A q \in Procs : gwsProc'[q] \in GwsCommands
      BY <1>1, <1>4, <2>1, RenamedIsACommand
    <2>3. gwsProc' \in [Procs -> GwsCommands]
      <3>1. gwsProc' = [q \in Procs |-> gwsProc'[q]]
        BY <2>1
      <3> QED BY <2>2, <3>1
    <2>4. GwsTypeOK'
      BY <1>1, <1>2, <2>1, <2>3 DEF GwsInv, GwsTypeOK
    <2>5. ASSUME NEW o \in Owners PROVE Making(o)' \subseteq Making(o)
      <3>1. ASSUME NEW q \in Procs, gwsProc'[q].step = "folder" PROVE gwsProc'[q] = gwsProc[q]
        <4>1. q # p
          BY <1>4, <2>1, <3>1
        <4>2. gwsProc'[q] = Gws!Renamed(gwsProc[q])
          BY <2>1, <4>1
        <4> QED BY <1>1, <3>1, <4>2, RenamedIsACommand
      <3> QED BY <3>1 DEF Making
    <2> QED BY <1>2, <2>4, <2>5, NoFolderMade
  <1>6. CASE ~gwsTmp.there
    BY <1>1, <1>2, <1>4, <1>6, QuietStep
  <1> QED BY <1>5, <1>6

LEMMA GwsStep == ASSUME IsFiniteSet(Procs) PROVE GwsInv /\ [Gws!Next]_gwsVars => GwsInv'
  <1> SUFFICES ASSUME GwsInv, [Gws!Next]_gwsVars PROVE GwsInv'
    OBVIOUS
  <1> USE DEF Gws!google, Gws!files
  <1>a. /\ gwsToken \subseteq OneGrantTokens /\ gwsIssued \in Nat
        /\ gwsTmp \in [there : BOOLEAN, text : SUBSET OneGrantTokens]
        /\ \A p \in Procs : gwsProc[p] \in GwsCommands
    BY DEF GwsInv, GwsTypeOK
  <1>1. ASSUME NEW client \in Clients, Gws!InstallClient(client) PROVE GwsInv'
    BY <1>1 DEF Gws!InstallClient, GwsInv, GwsTypeOK, FewFolders, Making
  <1>2. CASE Gws!Expire
    BY <1>2 DEF Gws!Expire, GwsInv, GwsTypeOK, FewFolders, Making
  <1>3. ASSUME NEW p \in Procs, NEW explicit, NEW grant \in Grants, NEW refreshable \in BOOLEAN,
               Gws!Setup(p, explicit, grant, refreshable)
        PROVE  GwsInv'
    <2> DEFINE t == [client |-> grant.client, scopes |-> grant.allScopes,
                     access |-> [grant |-> grant, nr |-> gwsIssued],
                     refresh |-> IF refreshable THEN {grant} ELSE {}]
    <2>1. t \in OneGrantTokens
      BY SetupGivesOneGrant
    <2>2. Gws!GoTo(p, [step |-> "setup", token |-> t]) /\ gwsIssued' = gwsIssued + 1
          /\ UNCHANGED <<gwsToken, gwsTmp, gwsFolders>>
      BY <1>3 DEF Gws!Setup
    <2> HIDE DEF t
    <2>3. [step |-> "setup", token |-> t] \in GwsCommands
      BY <2>1, ShapesAreCommands
    <2> QED BY <1>a, <2>2, <2>3, QuietStep
  <1>4. ASSUME NEW p \in Procs, Gws!WriteToken(p) PROVE GwsInv'
    <2>1. gwsProc[p].token \in OneGrantTokens
      BY <1>4, <1>a, CommandShapes DEF Gws!WriteToken
    <2>2. Gws!Open(p, gwsProc[p].token, {})
      BY <1>4 DEF Gws!WriteToken
    <2> QED BY <2>1, <2>2, OpenStep
  <1>5. ASSUME NEW p \in Procs, Gws!LoadToken(p) PROVE GwsInv'
    <2>1. PICK t \in gwsToken :
            Gws!GoTo(p, IF Gws!Live(t.access) THEN [step |-> "request", access |-> t.access]
                    ELSE [step |-> "refresh", token |-> t])
      BY <1>5 DEF Gws!LoadToken
    <2>2. t \in OneGrantTokens /\ t.access \in AccessTokens
      BY <1>a DEF OneGrantTokens
    <2>3. UNCHANGED <<gwsToken, gwsTmp, gwsIssued, gwsFolders>>
      BY <1>5 DEF Gws!LoadToken
    <2>4. CASE Gws!Live(t.access)
      <3>1. [step |-> "request", access |-> t.access] \in GwsCommands
        BY <2>2, ShapesAreCommands
      <3> QED BY <1>a, <2>1, <2>3, <2>4, <3>1, QuietStep
    <2>5. CASE ~Gws!Live(t.access)
      <3>1. [step |-> "refresh", token |-> t] \in GwsCommands
        BY <2>2, ShapesAreCommands
      <3> QED BY <1>a, <2>1, <2>3, <2>5, <3>1, QuietStep
    <2> QED BY <2>4, <2>5
  <1>6. ASSUME NEW p \in Procs, Gws!Refresh(p) PROVE GwsInv'
    <2> DEFINE t == gwsProc[p].token
    <2>1. t \in OneGrantTokens
      BY <1>6, <1>a, CommandShapes DEF Gws!Refresh
    <2>2. PICK grant \in t.refresh :
            /\ gwsIssued' = gwsIssued + 1
            /\ Gws!GoTo(p, [step |-> "save", token |-> t, access |-> [grant |-> grant, nr |-> gwsIssued]])
      BY <1>6 DEF Gws!Refresh
    <2>3. UNCHANGED <<gwsToken, gwsTmp, gwsFolders>>
      BY <1>6 DEF Gws!Refresh
    <2> HIDE DEF t
    <2>4. grant \in Grants /\ grant = t.access.grant
      BY <2>1 DEF OneGrantTokens, OneGrant
    <2>5. [grant |-> grant, nr |-> gwsIssued] \in AccessTokens
      BY <2>4, <1>a DEF AccessTokens
    <2>6. [step |-> "save", token |-> t, access |-> [grant |-> grant, nr |-> gwsIssued]] \in GwsCommands
      BY <2>1, <2>4, <2>5, ShapesAreCommands
    <2> QED BY <1>a, <2>2, <2>3, <2>6, QuietStep
  <1>7. ASSUME NEW p \in Procs, Gws!SaveRefreshed(p) PROVE GwsInv'
    <2>1. /\ gwsProc[p].token \in OneGrantTokens /\ gwsProc[p].access \in AccessTokens
          /\ gwsProc[p].access.grant = gwsProc[p].token.access.grant
      BY <1>7, <1>a, CommandShapes DEF Gws!SaveRefreshed
    <2>2. Gws!Open(p, [gwsProc[p].token EXCEPT !.access = gwsProc[p].access], {gwsProc[p].access})
      BY <1>7 DEF Gws!SaveRefreshed
    <2>3. [gwsProc[p].token EXCEPT !.access = gwsProc[p].access] \in OneGrantTokens
      BY <2>1, RenewedIsOneGrant
    <2> QED BY <2>1, <2>2, <2>3, OpenStep
  <1>7a. ASSUME NEW p \in Procs, Gws!Fill(p) \/ Gws!Replace(p) PROVE GwsInv'
    BY <1>7a, FillStep, ReplaceStep
  <1>8. ASSUME NEW p \in Procs, Gws!Call(p) \/ Gws!Fail(p) PROVE GwsInv'
    <2>1. Gws!GoTo(p, Gws!Idle) /\ UNCHANGED <<gwsToken, gwsTmp, gwsIssued, gwsFolders>>
      BY <1>8 DEF Gws!Call, Gws!Fail
    <2>2. Gws!Idle \in GwsCommands /\ Gws!Idle.step # "folder"
      BY ShapesAreCommands DEF Gws!Idle
    <2> QED BY <1>a, <2>1, <2>2, QuietStep
  <1>9. ASSUME NEW p \in Procs, Gws!CreateSheet(p) PROVE GwsInv'
    <2>1. /\ gwsProc[p] \in [step : {"request", "last", "folder"}, access : AccessTokens]
          /\ Gws!GoTo(p, [gwsProc[p] EXCEPT !.step = "last"]) /\ UNCHANGED <<gwsToken, gwsTmp, gwsIssued, gwsFolders>>
      BY <1>9, <1>a, CommandShapes DEF Gws!CreateSheet
    <2>2. /\ [gwsProc[p] EXCEPT !.step = "last"] \in GwsCommands
          /\ [gwsProc[p] EXCEPT !.step = "last"].step # "folder"
      BY <2>1 DEF GwsCommands
    <2> QED BY <1>a, <2>1, <2>2, QuietStep
  <1>10. ASSUME NEW p \in Procs, Gws!FindFolder(p) PROVE GwsInv'
    <2> DEFINE owner == Gws!OwnerOf(gwsProc[p].access.grant)
    <2>1. /\ gwsProc[p] \in [step : {"request", "last", "folder"}, access : AccessTokens]
          /\ Gws!GoTo(p, [gwsProc[p] EXCEPT !.step = IF gwsFolders[owner] = 0 THEN "folder" ELSE "last"])
          /\ UNCHANGED <<gwsToken, gwsTmp, gwsIssued, gwsFolders>> /\ owner \in Owners
      BY <1>10, <1>a, CommandShapes DEF Gws!FindFolder, Owners
    <2>2. CASE gwsFolders[owner] # 0
      <3>1. /\ [gwsProc[p] EXCEPT !.step = "last"] \in GwsCommands
            /\ [gwsProc[p] EXCEPT !.step = "last"].step # "folder"
        BY <2>1 DEF GwsCommands
      <3> QED BY <1>a, <2>1, <2>2, <3>1, QuietStep
    <2>3. CASE gwsFolders[owner] = 0
      <3>1. [gwsProc[p] EXCEPT !.step = "folder"] \in GwsCommands
            /\ [gwsProc[p] EXCEPT !.step = "folder"].access = gwsProc[p].access
        BY <2>1 DEF GwsCommands
      <3>2. GwsTypeOK'
        BY <2>1, <2>3, <3>1 DEF GwsInv, GwsTypeOK, Gws!GoTo
      <3>3. ASSUME NEW o \in Owners
            PROVE  gwsFolders'[o] + Cardinality(Making(o)') <= Cardinality(Procs)
        <4>1. CASE o = owner
          <5>1. Making(o)' \in SUBSET Procs
            BY DEF Making
          <5>2. Cardinality(Making(o)') \in Nat /\ Cardinality(Making(o)') <= Cardinality(Procs)
            BY <5>1, MakingIsFinite
          <5>3. gwsFolders'[o] = 0
            BY <2>1, <2>3, <4>1
          <5> QED BY <5>2, <5>3
        <4>2. CASE o # owner
          <5>1. Making(o)' = Making(o)
            BY <2>1, <2>3, <3>1, <4>2 DEF Making, Gws!GoTo, GwsInv, GwsTypeOK
          <5> QED BY <5>1, <2>1 DEF GwsInv, FewFolders
        <4> QED BY <4>1, <4>2
      <3> QED BY <3>2, <3>3 DEF GwsInv, FewFolders
    <2> QED BY <2>2, <2>3
  <1>11. ASSUME NEW p \in Procs, Gws!CreateFolder(p) PROVE GwsInv'
    <2> DEFINE owner == Gws!OwnerOf(gwsProc[p].access.grant)
    <2>1. /\ gwsProc[p] \in [step : {"request", "last", "folder"}, access : AccessTokens]
          /\ gwsProc[p].step = "folder" /\ Gws!GoTo(p, [gwsProc[p] EXCEPT !.step = "last"])
          /\ gwsFolders' = [gwsFolders EXCEPT ![owner] = @ + 1] /\ UNCHANGED <<gwsToken, gwsTmp, gwsIssued>>
      BY <1>11, <1>a, CommandShapes DEF Gws!CreateFolder
    <2>2. owner \in Owners /\ gwsFolders \in [Owners -> Nat]
      BY <2>1, <1>a, CommandShapes DEF GwsInv, GwsTypeOK
    <2>3. /\ [gwsProc[p] EXCEPT !.step = "last"] \in GwsCommands
          /\ [gwsProc[p] EXCEPT !.step = "last"].step = "last"
      BY <2>1 DEF GwsCommands
    <2> HIDE DEF owner
    <2>4. GwsTypeOK'
      BY <2>1, <2>2, <2>3 DEF GwsInv, GwsTypeOK, Gws!GoTo
    <2>5. ASSUME NEW o \in Owners
          PROVE  gwsFolders'[o] + Cardinality(Making(o)') <= Cardinality(Procs)
      <3>1. /\ Making(o) \in SUBSET Procs
            /\ gwsFolders[o] \in Nat /\ gwsFolders[o] + Cardinality(Making(o)) <= Cardinality(Procs)
        BY <2>2 DEF Making, GwsInv, FewFolders
      <3>2. /\ IsFiniteSet(Making(o)) /\ Cardinality(Making(o)) \in Nat
            /\ Cardinality(Procs) \in Nat
        BY <3>1, MakingIsFinite
      <3>3. CASE o = owner
        <4>1. Making(o)' = Making(o) \ {p} /\ p \in Making(o)
          BY <2>1, <2>3, <3>3 DEF owner, Making, Gws!GoTo, GwsInv, GwsTypeOK
        <4>2. Cardinality(Making(o)') = Cardinality(Making(o)) - 1
          BY <4>1, <3>2, FS_RemoveElement, Zenon
        <4>3. gwsFolders'[o] = gwsFolders[o] + 1
          BY <2>1, <2>2, <3>3
        <4> QED BY <3>1, <3>2, <4>2, <4>3
      <3>4. CASE o # owner
        <4>1. Making(o)' = Making(o)
          BY <2>1, <2>3, <3>4 DEF owner, Making, Gws!GoTo, GwsInv, GwsTypeOK
        <4>2. gwsFolders'[o] = gwsFolders[o]
          BY <2>1, <2>2, <3>4
        <4> QED BY <3>1, <4>1, <4>2
      <3> QED BY <3>3, <3>4
    <2> QED BY <2>4, <2>5 DEF GwsInv, FewFolders
  <1>12. CASE UNCHANGED gwsVars
    BY <1>12 DEF gwsVars, GwsInv, GwsTypeOK, FewFolders, Making
  <1> QED
    BY <1>1, <1>2, <1>3, <1>4, <1>5, <1>6, <1>7, <1>7a, <1>8, <1>9, <1>10, <1>11, <1>12
    DEF Gws!Next

(* A token file that can be read is one consent's, also when writers       *)
(* shared the tmp file, and uploads leave no more folders of a name than   *)
(* commands run at once (load_valid_access_token, _write_token,            *)
(* _ensure_folder).                                                        *)
THEOREM TokensHold == ProfileSpec => []TokenIsOneGrant
  <1> USE ProcsAssumption
  <1>1. GwsInv => Gws!TokenIsOneGrant
    <2> SUFFICES ASSUME GwsInv PROVE Gws!TokenIsOneGrant
      OBVIOUS
    <2>1. ASSUME NEW t \in gwsToken, Gws!Reads(t)
          PROVE  /\ t.access.grant.client = t.client /\ t.refresh \subseteq {t.access.grant}
                 /\ Gws!TokenStatus = "PASS" => t.access.grant.allScopes
      <3>1. OneGrant(t)
        BY DEF GwsInv, GwsTypeOK, OneGrantTokens
      <3>2. Gws!TokenStatus = "PASS" => t.scopes
        <4>1. ASSUME NEW u \in gwsToken, Gws!Reads(u) PROVE u = t
          BY <4>1, <2>1 DEF Gws!Reads
        <4>2. Gws!TokenStatus = "PASS" => \E u \in gwsToken : Gws!Reads(u) /\ u.scopes
          BY Zenon DEF Gws!TokenStatus
        <4> QED BY <4>1, <4>2, Zenon
      <3>3. Gws!TokenStatus = "PASS" => t.access.grant.allScopes
        BY <3>1, <3>2, Zenon DEF OneGrant
      <3> QED BY <3>1, <3>3 DEF OneGrant
    <2>2. ASSUME NEW o \in DOMAIN gwsFolders PROVE gwsFolders[o] <= Cardinality(Procs)
      <3>1. /\ o \in Owners /\ Making(o) \in SUBSET Procs /\ gwsFolders[o] \in Nat
            /\ gwsFolders[o] + Cardinality(Making(o)) <= Cardinality(Procs)
        BY DEF GwsInv, GwsTypeOK, FewFolders, Making
      <3>2. Cardinality(Making(o)) \in Nat /\ Cardinality(Procs) \in Nat
        BY <3>1, MakingIsFinite
      <3> QED BY <3>1, <3>2
    <2> QED BY <2>1, <2>2, SameCardinality DEF Gws!TokenIsOneGrant
  <1>2. GwsInv => TokenIsOneGrant
    BY <1>1 DEF TokenIsOneGrant
  <1>3. ProfileInit => GwsInv
    BY GwsInit DEF ProfileInit
  <1>4. GwsInv /\ [Gws!Next]_gwsVars => GwsInv'
    BY GwsStep
  <1> QED BY <1>2, <1>3, <1>4, PartsRun, PTL DEF ProfileSpec

-----------------------------------------------------------------------------
(* The roster.                                                             *)

RosterTypeOK ==
  /\ rosterEnrollments \subseteq [student : RosterStudents, status : {"active", "ended"},
                                  period : Periods]
  /\ rosterSessions \in Seq([date : Dates, kind : Kinds])
  /\ rosterGaps \in [step : {"none", "total", "recorded", "missing", "done"}, date : Dates \cup {0},
                     session : Nat, total : Nat, recorded : Nat, missing : SUBSET RosterStudents]
  /\ rosterDisturbed \in BOOLEAN

\* Whoever counts as enrolled has a record in every session of a kind that has
\* records, or was enrolled later.
HasARecord(i, s) == <<i, s>> \in DOMAIN rosterRecords \cup rosterLate

EveryoneHasARecord ==
  \A i \in DOMAIN rosterSessions : rosterSessions[i].kind \in Stubbed =>
    \A e \in rosterEnrollments : e.status = "active" => HasARecord(i, e.student)

\* What a report has found: its session is there, those it lists as missing
\* have a record, and it has counted what was in the database until then.
ReportFound ==
  rosterGaps.step # "none" =>
    /\ rosterGaps.session \in DOMAIN rosterSessions
    /\ \A s \in rosterGaps.missing :
         rosterSessions[rosterGaps.session].kind \in Stubbed => HasARecord(rosterGaps.session, s)

ReportCounts ==
  ~rosterDisturbed =>
    /\ rosterGaps.step \in {"recorded", "missing"} =>
         rosterGaps.total = Cardinality(Roster!ActiveEnrollees(rosterGaps.date))
    /\ rosterGaps.step = "missing" =>
         rosterGaps.recorded =
           Cardinality(Roster!RecordedAttendance(rosterGaps.session, rosterGaps.date))
    /\ rosterGaps.step = "done" =>
         rosterGaps.recorded + Cardinality(rosterGaps.missing) = rosterGaps.total

RosterInv == RosterTypeOK /\ EveryoneHasARecord /\ ReportFound /\ ReportCounts

LEMMA RosterInit == Roster!Init => RosterInv
  <1> SUFFICES ASSUME Roster!Init PROVE RosterInv
    OBVIOUS
  <1>1. RosterTypeOK
    <2>1. rosterSessions \in Seq([date : Dates, kind : Kinds]) /\ rosterEnrollments = {}
          /\ rosterDisturbed = FALSE
      BY DEF Roster!Init
    <2>2. rosterGaps = [step |-> "none", date |-> 0, session |-> 0, total |-> 0, recorded |-> 0,
                        missing |-> {}]
      BY DEF Roster!Init, Roster!NoReport
    <2> QED BY <2>1, <2>2 DEF RosterTypeOK
  <1> QED BY <1>1 DEF Roster!Init, RosterInv, EveryoneHasARecord, ReportFound, ReportCounts, Roster!NoReport

\* The first session of a date is one of the sessions.
LEMMA FirstSession ==
  ASSUME RosterTypeOK, NEW date, \E i \in DOMAIN rosterSessions : rosterSessions[i].date = date
  PROVE  Roster!SessionOf(date) \in DOMAIN rosterSessions
  <1> DEFINE T == {i \in DOMAIN rosterSessions : rosterSessions[i].date = date}
  <1>1. DOMAIN rosterSessions = 1..Len(rosterSessions) /\ Len(rosterSessions) \in Nat
    BY DEF RosterTypeOK
  <1>2. PICK i \in T : \A j \in T : i <= j
    <2>1. T \subseteq Nat /\ T # {}
      BY <1>1
    <2> HIDE DEF T
    <2> QED BY <2>1, HasLeast
  <1>3. \A j \in 1..(i - 1) : rosterSessions[j].date # date
    BY <1>1, <1>2
  <1> QED BY <1>2, <1>3 DEF Roster!SessionOf

\* What writes may add sessions and records, and disturbs the report it finds
\* under way, but not one that is finished.
LEMMA WritingKeepsTheReport ==
  ASSUME RosterInv, rosterGaps' = rosterGaps, Roster!Written,
         DOMAIN rosterSessions \subseteq DOMAIN rosterSessions',
         \A i \in DOMAIN rosterSessions : rosterSessions'[i] = rosterSessions[i],
         DOMAIN rosterRecords \subseteq DOMAIN rosterRecords', rosterLate \subseteq rosterLate'
  PROVE  ReportFound' /\ ReportCounts' /\ rosterDisturbed' \in BOOLEAN
  <1>1. ReportFound'
    BY DEF RosterInv, ReportFound, HasARecord
  <1>2. ReportCounts' /\ rosterDisturbed' \in BOOLEAN
    BY DEF RosterInv, RosterTypeOK, ReportCounts, Roster!Written
  <1> QED BY <1>1, <1>2

LEMMA NewSession ==
  ASSUME RosterInv, NEW date \in Dates, NEW kind \in Kinds,
         rosterSessions' = Append(rosterSessions, [date |-> date, kind |-> kind]),
         DOMAIN rosterRecords' = DOMAIN Roster!WithStubs(date, kind),
         UNCHANGED <<rosterEnrollments, rosterLate>>
  PROVE  /\ rosterSessions' \in Seq([date : Dates, kind : Kinds])
         /\ EveryoneHasARecord'
         /\ DOMAIN rosterSessions \subseteq DOMAIN rosterSessions'
         /\ \A i \in DOMAIN rosterSessions : rosterSessions'[i] = rosterSessions[i]
         /\ DOMAIN rosterRecords \subseteq DOMAIN rosterRecords'
  <1> DEFINE new == Len(rosterSessions) + 1
  <1>1. /\ rosterSessions' \in Seq([date : Dates, kind : Kinds])
        /\ DOMAIN rosterSessions' = DOMAIN rosterSessions \cup {new}
        /\ \A i \in DOMAIN rosterSessions : rosterSessions'[i] = rosterSessions[i]
        /\ rosterSessions'[new] = [date |-> date, kind |-> kind]
    BY DEF RosterInv, RosterTypeOK
  <1>2. /\ DOMAIN rosterRecords \subseteq DOMAIN rosterRecords'
        /\ kind \in Stubbed => \A e \in rosterEnrollments : e.status = "active" =>
             <<new, e.student>> \in DOMAIN rosterRecords'
    BY DEF Roster!WithStubs
  <1> HIDE DEF new
  <1>3. EveryoneHasARecord'
    BY <1>1, <1>2 DEF RosterInv, EveryoneHasARecord, HasARecord
  <1> QED BY <1>1, <1>2, <1>3

LEMMA RosterStep ==
  ASSUME IsFiniteSet(RosterStudents)
  PROVE  RosterInv /\ [Roster!Next]_rosterVars => RosterInv'
  <1> SUFFICES ASSUME RosterInv, [Roster!Next]_rosterVars PROVE RosterInv'
    OBVIOUS
  <1>1. ASSUME NEW s \in RosterStudents, NEW period \in Periods, Roster!Enrol(s, period) PROVE RosterInv'
    <2>1. ReportFound' /\ ReportCounts' /\ rosterDisturbed' \in BOOLEAN
      BY <1>1, WritingKeepsTheReport DEF Roster!Enrol
    <2>2. RosterTypeOK'
      BY <1>1, <2>1 DEF Roster!Enrol, RosterInv, RosterTypeOK
    <2>3. EveryoneHasARecord'
      BY <1>1 DEF Roster!Enrol, RosterInv, EveryoneHasARecord, HasARecord
    <2> QED BY <2>1, <2>2, <2>3 DEF RosterInv
  <1>2. ASSUME NEW e \in rosterEnrollments, Roster!EndEnrollment(e) PROVE RosterInv'
    <2>1. ReportFound' /\ ReportCounts' /\ rosterDisturbed' \in BOOLEAN
      BY <1>2, WritingKeepsTheReport DEF Roster!EndEnrollment
    <2>2. [e EXCEPT !.status = "ended"].status = "ended"
          /\ [e EXCEPT !.status = "ended"] \in [student : RosterStudents, status : {"active", "ended"},
                                                period : Periods]
      BY DEF RosterInv, RosterTypeOK
    <2>3. RosterTypeOK'
      BY <1>2, <2>1, <2>2 DEF Roster!EndEnrollment, RosterInv, RosterTypeOK
    <2>4. EveryoneHasARecord'
      BY <1>2, <2>2 DEF Roster!EndEnrollment, RosterInv, EveryoneHasARecord, HasARecord
    <2> QED BY <2>1, <2>3, <2>4 DEF RosterInv
  <1>3. ASSUME NEW s \in RosterStudents, Roster!SetActive(s) PROVE RosterInv'
    <2>1. ReportFound' /\ ReportCounts' /\ rosterDisturbed' \in BOOLEAN
      BY <1>3, WritingKeepsTheReport DEF Roster!SetActive
    <2> QED BY <1>3, <2>1 DEF Roster!SetActive, RosterInv, RosterTypeOK, EveryoneHasARecord, HasARecord
  <1>4. ASSUME NEW date \in Dates, NEW kind \in Kinds, Roster!AddSession(date, kind) PROVE RosterInv'
    <2>1. /\ rosterSessions' = Append(rosterSessions, [date |-> date, kind |-> kind])
          /\ DOMAIN rosterRecords' = DOMAIN Roster!WithStubs(date, kind)
          /\ UNCHANGED <<rosterEnrollments, rosterLate>>
      BY <1>4 DEF Roster!AddSession, Roster!students
    <2>2. ReportFound' /\ ReportCounts' /\ rosterDisturbed' \in BOOLEAN
      BY <1>4, <2>1, NewSession, WritingKeepsTheReport DEF Roster!AddSession
    <2> QED BY <1>4, <2>1, <2>2, NewSession DEF Roster!AddSession, RosterInv, RosterTypeOK
  <1>5. ASSUME NEW date \in Dates, NEW kind \in Kinds, NEW listed, Roster!RecordClass(date, kind, listed)
        PROVE  RosterInv'
    <2>0. UNCHANGED <<rosterEnrollments, rosterLate, rosterGaps>> /\ Roster!Written
      BY <1>5 DEF Roster!RecordClass, Roster!students
    <2>1. CASE Roster!Exists(date, kind)
      <3>1. rosterSessions' = rosterSessions /\ DOMAIN rosterRecords' = DOMAIN rosterRecords
        BY <1>5, <2>1 DEF Roster!RecordClass
      <3>2. ReportFound' /\ ReportCounts' /\ rosterDisturbed' \in BOOLEAN
        BY <2>0, <3>1, WritingKeepsTheReport
      <3> QED BY <2>0, <3>1, <3>2 DEF RosterInv, RosterTypeOK, EveryoneHasARecord, HasARecord
    <2>2. CASE ~Roster!Exists(date, kind)
      <3>1. /\ rosterSessions' = Append(rosterSessions, [date |-> date, kind |-> kind])
            /\ DOMAIN rosterRecords' = DOMAIN Roster!WithStubs(date, kind)
        BY <1>5, <2>2 DEF Roster!RecordClass
      <3>2. ReportFound' /\ ReportCounts' /\ rosterDisturbed' \in BOOLEAN
        BY <2>0, <3>1, NewSession, WritingKeepsTheReport
      <3> QED BY <2>0, <3>1, <3>2, NewSession DEF RosterInv, RosterTypeOK
    <2> QED BY <2>1, <2>2
  <1>6. ASSUME \/ \E table \in Declared : Roster!Double(table) \/ Roster!Heal(table)
               \/ Roster!IndexApply
        PROVE  RosterInv'
    <2>1. UNCHANGED <<rosterEnrollments, rosterLate, rosterGaps, rosterSessions, rosterRecords>>
          /\ Roster!Written
      BY <1>6 DEF Roster!Double, Roster!Heal, Roster!IndexApply, Roster!students
    <2>2. ReportFound' /\ ReportCounts' /\ rosterDisturbed' \in BOOLEAN
      BY <2>1, WritingKeepsTheReport
    <2> QED BY <2>1, <2>2 DEF RosterInv, RosterTypeOK, EveryoneHasARecord, HasARecord
  <1>7. ASSUME NEW date \in Dates, Roster!FindSession(date) PROVE RosterInv'
    <2>1. \/ rosterGaps' = rosterGaps /\ rosterGaps.step = "none"
          \/ /\ rosterGaps' = [rosterGaps EXCEPT !.step = "total", !.date = date,
                                                 !.session = Roster!SessionOf(date)]
             /\ Roster!SessionOf(date) \in DOMAIN rosterSessions
      BY <1>7, FirstSession DEF Roster!FindSession, Roster!Proceed, Roster!NoReport, RosterInv
    <2>2. rosterGaps.missing = {} /\ DOMAIN rosterSessions \subseteq Nat
      BY <1>7 DEF Roster!FindSession, Roster!NoReport, RosterInv, RosterTypeOK
    <2>3. /\ rosterGaps' \in [step : {"none", "total", "recorded", "missing", "done"},
                              date : Dates \cup {0}, session : Nat, total : Nat, recorded : Nat,
                              missing : SUBSET RosterStudents]
          /\ rosterGaps'.step \in {"none", "total"} /\ rosterGaps'.missing = {}
          /\ rosterGaps'.step # "none" => rosterGaps'.session \in DOMAIN rosterSessions
      BY <2>1, <2>2 DEF RosterInv, RosterTypeOK
    <2>4. UNCHANGED <<rosterEnrollments, rosterLate, rosterSessions, rosterRecords>>
          /\ rosterDisturbed' = FALSE
      BY <1>7 DEF Roster!FindSession, Roster!Proceed, Roster!students
    <2> QED BY <2>3, <2>4 DEF RosterInv, RosterTypeOK, EveryoneHasARecord, HasARecord, ReportFound,
              ReportCounts
  <1>8. ASSUME Roster!CountEnrolled \/ Roster!CountRecorded \/ Roster!ListMissing PROVE RosterInv'
    <2>0. UNCHANGED <<rosterEnrollments, rosterInactive, rosterLate, rosterSessions, rosterRecords,
                      rosterDisturbed>>
      BY <1>8 DEF Roster!CountEnrolled, Roster!CountRecorded, Roster!ListMissing, Roster!Proceed,
         Roster!students
    <2> DEFINE active == Roster!ActiveEnrollees(rosterGaps.date)
               attended == Roster!Attended(rosterGaps.session)
    <2>1. active \subseteq RosterStudents /\ IsFiniteSet(active) /\ Cardinality(active) \in Nat
      <3>1. active \subseteq RosterStudents
        BY DEF RosterInv, RosterTypeOK, Roster!ActiveEnrollees
      <3> QED BY <3>1, FS_Subset, FS_CardinalityType
    <2>2. /\ IsFiniteSet(active \cap attended) /\ IsFiniteSet(active \ attended)
          /\ Cardinality(active \cap attended) \in Nat /\ Cardinality(active \ attended) \in Nat
          /\ Cardinality(active \cap attended) + Cardinality(active \ attended) = Cardinality(active)
      <3> HIDE DEF active, attended
      <3>1. IsFiniteSet(active \cap attended) /\ IsFiniteSet(active \ attended)
        BY <2>1, FS_Subset
      <3>2. Cardinality(active \cap attended) \in Nat /\ Cardinality(active \ attended) \in Nat
        BY <3>1, FS_CardinalityType
      <3>3. (active \cap attended) \cup (active \ attended) = active
            /\ (active \cap attended) \cap (active \ attended) = {}
        OBVIOUS
      <3>4. Cardinality((active \cap attended) \cup (active \ attended))
              = Cardinality(active \cap attended) + Cardinality(active \ attended)
                - Cardinality((active \cap attended) \cap (active \ attended))
        BY <3>1, FS_Union
      <3>5. Cardinality((active \cap attended) \cap (active \ attended)) = 0
        BY <3>3, FS_EmptySet
      <3>6. Cardinality((active \cap attended) \cup (active \ attended)) = Cardinality(active)
        BY <3>3, Zenon
      <3> QED BY <3>1, <3>2, <3>4, <3>5, <3>6
    <2>3. /\ Roster!RecordedAttendance(rosterGaps.session, rosterGaps.date) = active \cap attended
          /\ Roster!Missing(rosterGaps.session, rosterGaps.date) = active \ attended
      BY DEF Roster!RecordedAttendance, Roster!Missing
    <2>4. \A s \in active : \E e \in rosterEnrollments : e.status = "active" /\ e.student = s
      BY DEF Roster!ActiveEnrollees
    <2> HIDE DEF active, attended
    <2>5. \/ /\ rosterGaps.step = "total"
             /\ rosterGaps' = [rosterGaps EXCEPT !.step = "recorded", !.total = Cardinality(active)]
          \/ /\ rosterGaps.step = "recorded"
             /\ rosterGaps' = [rosterGaps EXCEPT !.step = "missing",
                                                 !.recorded = Cardinality(active \cap attended)]
          \/ /\ rosterGaps.step = "missing"
             /\ rosterGaps' = [rosterGaps EXCEPT !.step = "done", !.missing = active \ attended]
      BY <1>8, <2>3, SameCardinality DEF Roster!CountEnrolled, Roster!CountRecorded,
         Roster!ListMissing, Roster!Proceed, active
    <2>6. /\ rosterGaps' \in [step : {"none", "total", "recorded", "missing", "done"},
                              date : Dates \cup {0}, session : Nat, total : Nat, recorded : Nat,
                              missing : SUBSET RosterStudents]
          /\ rosterGaps'.date = rosterGaps.date /\ rosterGaps'.session = rosterGaps.session
      BY <2>1, <2>2, <2>5 DEF RosterInv, RosterTypeOK
    <2>7. RosterTypeOK' /\ EveryoneHasARecord'
      BY <2>0, <2>6 DEF RosterInv, RosterTypeOK, EveryoneHasARecord, HasARecord
    <2>8. ReportFound'
      <3>1. rosterGaps'.missing \subseteq rosterGaps.missing \cup active
        BY <2>5 DEF RosterInv, RosterTypeOK
      <3>2. rosterGaps.session \in DOMAIN rosterSessions
        BY <2>5 DEF RosterInv, ReportFound
      <3>3. ASSUME NEW s \in rosterGaps.missing \cup active,
                   rosterSessions[rosterGaps.session].kind \in Stubbed
            PROVE  HasARecord(rosterGaps.session, s)
        <4>1. CASE s \in rosterGaps.missing
          BY <2>5, <3>3, <4>1 DEF RosterInv, ReportFound
        <4>2. CASE s \in active
          BY <2>4, <3>2, <3>3, <4>2 DEF RosterInv, EveryoneHasARecord
        <4> QED BY <3>3, <4>1, <4>2
      <3> QED BY <2>0, <2>6, <3>1, <3>2, <3>3 DEF ReportFound, HasARecord
    <2>9. ReportCounts'
      <3>1. /\ Roster!ActiveEnrollees(rosterGaps.date)' = active
            /\ Roster!RecordedAttendance(rosterGaps.session, rosterGaps.date)' = active \cap attended
        BY <2>0, <2>3, <2>6 DEF Roster!ActiveEnrollees, Roster!RecordedAttendance, Roster!Attended,
           active, attended
      <3>2. ~rosterDisturbed =>
              /\ rosterGaps.step \in {"recorded", "missing"} => rosterGaps.total = Cardinality(active)
              /\ rosterGaps.step = "missing" => rosterGaps.recorded = Cardinality(active \cap attended)
        BY <2>3 DEF RosterInv, ReportCounts, active
      <3>3. \/ /\ rosterGaps'.step = "recorded" /\ rosterGaps'.total = Cardinality(active)
            \/ /\ rosterGaps.step = "recorded" /\ rosterGaps'.step = "missing"
               /\ rosterGaps'.total = rosterGaps.total
               /\ rosterGaps'.recorded = Cardinality(active \cap attended)
            \/ /\ rosterGaps.step = "missing" /\ rosterGaps'.step = "done"
               /\ rosterGaps'.total = rosterGaps.total /\ rosterGaps'.recorded = rosterGaps.recorded
               /\ rosterGaps'.missing = active \ attended
        BY <2>5 DEF RosterInv, RosterTypeOK
      <3> QED BY <2>0, <2>2, <3>1, <3>2, <3>3 DEF ReportCounts
    <2> QED BY <2>7, <2>8, <2>9 DEF RosterInv
  <1>9. CASE Roster!Dismiss
    <2>1. UNCHANGED <<rosterEnrollments, rosterLate, rosterSessions, rosterRecords>>
          /\ rosterDisturbed' = FALSE /\ rosterGaps' = Roster!NoReport
      BY <1>9 DEF Roster!Dismiss, Roster!Proceed, Roster!students
    <2> QED BY <2>1 DEF RosterInv, RosterTypeOK, EveryoneHasARecord, HasARecord, ReportFound,
              ReportCounts, Roster!NoReport
  <1>10. CASE UNCHANGED rosterVars
    BY <1>10 DEF rosterVars, RosterInv, RosterTypeOK, EveryoneHasARecord, HasARecord, ReportFound,
       ReportCounts, Roster!ActiveEnrollees, Roster!RecordedAttendance, Roster!Attended
  <1> QED BY <1>1, <1>2, <1>3, <1>4, <1>5, <1>6, <1>7, <1>8, <1>9, <1>10 DEF Roster!Next

(* A report of gaps adds up unless the database was written under it, and  *)
(* whom it misses has a record to fill, for any students, enrollments and  *)
(* sessions (_session_gaps).                                               *)
THEOREM GapsHold == ProfileSpec => []GapsCanBeFilled
  <1> USE RosterAssumption
  <1>1. RosterInv => Roster!GapsCanBeFilled
    BY SameCardinality DEF RosterInv, ReportFound, ReportCounts, HasARecord, Roster!GapsCanBeFilled
  <1>2. RosterInv => GapsCanBeFilled
    BY <1>1 DEF GapsCanBeFilled
  <1>3. ProfileInit => RosterInv
    BY RosterInit DEF ProfileInit
  <1>4. RosterInv /\ [Roster!Next]_rosterVars => RosterInv'
    BY RosterStep
  <1> QED BY <1>2, <1>3, <1>4, PartsRun, PTL DEF ProfileSpec

-----------------------------------------------------------------------------
(* The conversations.                                                      *)

\* Media files that were whole once.
ChatFiles == chatMedia \cup chatSpoilt

\* What is told of the replies, in terms of the server's messages and the
\* media files: both only grow.
SentTo(server, n) == {m \in server : m.out /\ m.chat \in Chat!ThreadOf(n)}

Backed(server, files, n, s) ==
  /\ s.out => \E m \in SentTo(server, n), copy \in BOOLEAN : s = Chat!Stored(m, copy)
  /\ s.ref => s.id \in files

HistoryOK(server, files, history) ==
  DOMAIN history = Contacts /\ \A n \in Contacts : \A s \in history[n] : Backed(server, files, n, s)

\* What a command holds in memory.
ChatCommandOK(server, files, c) ==
  /\ c.cmd \in {"pull", "ingest", "fill"} => c.got \subseteq server /\ c.todo \subseteq Chats
  /\ c.cmd \in {"ingest", "fill", "send", "consume", "load", "copy"} => c.contact \in Contacts
  /\ c.cmd \in {"consume", "load", "copy"} => \E m \in SentTo(server, c.contact) : m.id = c.id
  /\ c.cmd \in {"ingest", "fill", "copy"} => HistoryOK(server, files, c.seen)
  /\ c.cmd \in {"ingest", "fill"} =>
       \A s \in c.new : Backed(server, files \cup c.files, c.contact, s)
  /\ c.cmd = "count" => c.seen \in Nat

ChatServerOK ==
  /\ IsFiniteSet(chatServer)
  /\ \A m \in chatServer :
       /\ m \in [id : Nat, chat : Chats, out : BOOLEAN, media : BOOLEAN]
       /\ m.id < Cardinality(chatServer)
       /\ m.out => ~m.media

ChatCommandsOK ==
  /\ DOMAIN chatProc = Procs
  /\ \A p \in Procs : ChatCommandOK(chatServer, ChatFiles, chatProc[p])

\* Every reply that is still to be counted has been sent, besides those the
\* quota counts or is about to.
Sent == {m \in chatServer : m.out}
Uncounted == {p \in Procs : chatProc[p].cmd \in {"consume", "load", "copy", "count"}}

ChatQuotaOK ==
  /\ chatUsage \in Nat /\ chatUsage + Cardinality(Uncounted) <= Cardinality(Sent)
  /\ \A p \in Procs : chatProc[p].cmd = "count" =>
       chatProc[p].seen + Cardinality(Uncounted) <= Cardinality(Sent)

ChatInv ==
  ChatServerOK /\ HistoryOK(chatServer, ChatFiles, chatStore) /\ ChatCommandsOK /\ ChatQuotaOK

LEMMA WhatIsBackedStays ==
  ASSUME NEW server, NEW files, NEW server1, NEW files1, server \subseteq server1, files \subseteq files1
  PROVE  /\ \A n, s : Backed(server, files, n, s) => Backed(server1, files1, n, s)
         /\ \A h : HistoryOK(server, files, h) => HistoryOK(server1, files1, h)
         /\ \A c : ChatCommandOK(server, files, c) => ChatCommandOK(server1, files1, c)
  <1>1. \A n : SentTo(server, n) \subseteq SentTo(server1, n)
    BY DEF SentTo
  <1>2. \A n, s : Backed(server, files, n, s) => Backed(server1, files1, n, s)
    BY <1>1 DEF Backed
  <1>3. \A h : HistoryOK(server, files, h) => HistoryOK(server1, files1, h)
    BY <1>2 DEF HistoryOK
  <1>4. ASSUME NEW c, ChatCommandOK(server, files, c) PROVE ChatCommandOK(server1, files1, c)
    <2>1. \A s : Backed(server, files \cup c.files, c.contact, s) =>
                   Backed(server1, files1 \cup c.files, c.contact, s)
      BY <1>1 DEF Backed
    <2> QED BY <1>1, <1>3, <1>4, <2>1 DEF ChatCommandOK
  <1> QED BY <1>2, <1>3, <1>4

LEMMA FinitelyManyReplies ==
  ASSUME IsFiniteSet(Procs), ChatInv
  PROVE  /\ IsFiniteSet(Sent) /\ Cardinality(Sent) \in Nat
         /\ IsFiniteSet(Uncounted) /\ Cardinality(Uncounted) \in Nat
         /\ Cardinality(chatServer) \in Nat
  <1>1. Sent \subseteq chatServer /\ Uncounted \subseteq Procs /\ IsFiniteSet(chatServer)
    BY DEF Sent, Uncounted, ChatInv, ChatServerOK
  <1> QED BY <1>1, FS_Subset, FS_CardinalityType

LEMMA ChatInit == ASSUME IsFiniteSet(Procs) PROVE Chat!Init => ChatInv
  <1> SUFFICES ASSUME Chat!Init PROVE ChatInv
    OBVIOUS
  <1>1. /\ chatServer = {} /\ DOMAIN chatStore = Contacts /\ \A n \in Contacts : chatStore[n] = {}
        /\ chatUsage = 0 /\ DOMAIN chatProc = Procs /\ \A p \in Procs : chatProc[p].cmd = "none"
    BY DEF Chat!Init, Chat!Idle
  <1>2. Sent = {} /\ Uncounted = {}
    BY <1>1 DEF Sent, Uncounted
  <1>3. Cardinality(Sent) = 0 /\ Cardinality(Uncounted) = 0 /\ IsFiniteSet(chatServer)
    BY <1>1, <1>2, FS_EmptySet
  <1>4. ChatServerOK /\ ChatQuotaOK
    BY <1>1, <1>3 DEF ChatServerOK, ChatQuotaOK
  <1>5. HistoryOK(chatServer, ChatFiles, chatStore) /\ ChatCommandsOK
    BY <1>1 DEF HistoryOK, ChatCommandsOK, ChatCommandOK
  <1> QED BY <1>4, <1>5 DEF ChatInv

\* A command goes on to d, with what it knows of the server and the files.
LEMMA ChatCommandGoesOn ==
  ASSUME ChatInv, NEW p \in Procs, NEW d, chatProc' = [chatProc EXCEPT ![p] = d],
         chatServer \subseteq chatServer', ChatFiles \subseteq ChatFiles',
         ChatCommandOK(chatServer', ChatFiles', d)
  PROVE  ChatCommandsOK'
  <1>1. DOMAIN chatProc' = Procs /\ chatProc'[p] = d
        /\ \A q \in Procs \ {p} : chatProc'[q] = chatProc[q]
    BY DEF ChatInv, ChatCommandsOK
  <1>2. \A q \in Procs : ChatCommandOK(chatServer', ChatFiles', chatProc[q])
    BY WhatIsBackedStays DEF ChatInv, ChatCommandsOK
  <1> QED BY <1>1, <1>2 DEF ChatCommandsOK

\* ... and what it does not send or count leaves the quota right.
LEMMA ChatQuotaKept ==
  ASSUME IsFiniteSet(Procs), ChatInv, NEW p \in Procs, NEW d, chatProc' = [chatProc EXCEPT ![p] = d],
         chatServer' = chatServer, chatUsage' = chatUsage,
         d.cmd \in {"consume", "load", "copy", "count"} => p \in Uncounted,
         d.cmd = "count" => d.seen = chatUsage
  PROVE  ChatQuotaOK'
  <1>1. DOMAIN chatProc' = Procs /\ chatProc'[p] = d
        /\ \A q \in Procs \ {p} : chatProc'[q] = chatProc[q]
    BY DEF ChatInv, ChatCommandsOK
  <1>2. Sent' = Sent
    BY DEF Sent
  <1>3. Uncounted' \subseteq Uncounted
    BY <1>1 DEF Uncounted
  <1>4. /\ Cardinality(Uncounted') \in Nat /\ Cardinality(Uncounted') <= Cardinality(Uncounted)
        /\ Cardinality(Uncounted) \in Nat /\ Cardinality(Sent) \in Nat
    BY <1>3, FinitelyManyReplies, FS_Subset, FS_CardinalityType
  <1>5. \A q \in Procs : chatProc'[q].cmd = "count" =>
          chatProc'[q].seen \in Nat /\ chatProc'[q].seen + Cardinality(Uncounted) <= Cardinality(Sent)
    BY <1>1 DEF ChatInv, ChatQuotaOK, ChatCommandsOK, ChatCommandOK
  <1> HIDE DEF Sent, Uncounted
  <1> QED BY <1>2, <1>4, <1>5 DEF ChatInv, ChatQuotaOK

\* A message comes in.
LEMMA ChatPost ==
  ASSUME ChatInv, NEW chat \in Chats, NEW out \in BOOLEAN, NEW withMedia \in BOOLEAN,
         out => ~withMedia, Chat!Post(chat, out, withMedia)
  PROVE  LET m == [id |-> Cardinality(chatServer), chat |-> chat, out |-> out, media |-> withMedia] IN
         /\ ChatServerOK'
         /\ chatServer' = chatServer \cup {m} /\ m \notin chatServer
  <1> DEFINE m == [id |-> Cardinality(chatServer), chat |-> chat, out |-> out, media |-> withMedia]
  <1>1. IsFiniteSet(chatServer) /\ Cardinality(chatServer) \in Nat
    BY FS_CardinalityType DEF ChatInv, ChatServerOK
  <1>2. chatServer' = chatServer \cup {m}
    BY SameCardinality DEF Chat!Post
  <1>3. m \notin chatServer
    BY <1>1 DEF ChatInv, ChatServerOK
  <1>4. /\ m \in [id : Nat, chat : Chats, out : BOOLEAN, media : BOOLEAN]
        /\ m.id = Cardinality(chatServer) /\ (m.out => ~m.media)
    BY <1>1
  <1> HIDE DEF m
  <1>5. IsFiniteSet(chatServer') /\ Cardinality(chatServer') = Cardinality(chatServer) + 1
    <2>1. IsFiniteSet(chatServer \cup {m})
          /\ Cardinality(chatServer \cup {m}) = Cardinality(chatServer) + 1
      BY <1>1, <1>3, FS_AddElement
    <2> QED BY <1>2, <2>1, Zenon
  <1>6. ChatServerOK'
    <2>1. ASSUME NEW x \in chatServer'
          PROVE  /\ x \in [id : Nat, chat : Chats, out : BOOLEAN, media : BOOLEAN]
                 /\ x.id <= Cardinality(chatServer) /\ (x.out => ~x.media)
      <3>1. CASE x = m
        BY <1>1, <1>4, <3>1
      <3>2. CASE x \in chatServer
        <4>1. /\ x \in [id : Nat, chat : Chats, out : BOOLEAN, media : BOOLEAN]
              /\ x.id < Cardinality(chatServer) /\ (x.out => ~x.media)
          BY <3>2 DEF ChatInv, ChatServerOK
        <4>2. x.id \in Nat
          BY <4>1
        <4> QED BY <1>1, <4>1, <4>2
      <3> QED BY <1>2, <3>1, <3>2
    <2>2. \A x \in chatServer' : x.id \in Nat /\ x.id < Cardinality(chatServer')
      <3>1. ASSUME NEW x \in chatServer' PROVE x.id \in Nat
        BY <2>1
      <3> QED BY <1>1, <1>5, <2>1, <3>1
    <2> QED BY <1>5, <2>1, <2>2 DEF ChatServerOK
  <1> QED BY <1>2, <1>3, <1>6 DEF m

LEMMA ChatStep == ChatInv /\ [Chat!Next]_chatVars => ChatInv'
  <1> SUFFICES ASSUME ChatInv, [Chat!Next]_chatVars PROVE ChatInv'
    OBVIOUS
  <1> USE ProcsAssumption
  <1>1. ASSUME NEW chat \in Chats, NEW withMedia \in BOOLEAN, Chat!CustomerWrites(chat, withMedia)
        PROVE  ChatInv'
    <2> DEFINE m == [id |-> Cardinality(chatServer), chat |-> chat, out |-> FALSE, media |-> withMedia]
    <2>0. Chat!Post(chat, FALSE, withMedia) /\ ChatFiles' = ChatFiles
      BY <1>1 DEF Chat!CustomerWrites, ChatFiles
    <2>1. ChatServerOK' /\ chatServer' = chatServer \cup {m} /\ ChatFiles \subseteq ChatFiles'
      BY <2>0, ChatPost
    <2>2. UNCHANGED <<chatStore, chatUsage, chatProc>>
      BY <1>1 DEF Chat!CustomerWrites
    <2>3. HistoryOK(chatServer', ChatFiles', chatStore) /\ ChatCommandsOK'
      BY <2>1, <2>2, WhatIsBackedStays DEF ChatInv, ChatCommandsOK
    <2>4. Sent' = Sent /\ Uncounted' = Uncounted
      <3>1. m.out = FALSE
        OBVIOUS
      <3> HIDE DEF m
      <3> QED BY <2>1, <2>2, <3>1 DEF Sent, Uncounted
    <2>5. ChatQuotaOK'
      BY <2>2, <2>4 DEF ChatInv, ChatQuotaOK
    <2> QED BY <2>1, <2>2, <2>3, <2>5 DEF ChatInv
  <1>2. ASSUME NEW n \in Contacts, Chat!Grant(n) PROVE ChatInv'
    BY <1>2 DEF Chat!Grant, ChatFiles, ChatInv, ChatServerOK, ChatCommandsOK, ChatQuotaOK, Sent, Uncounted
\* Of the rest, all but SendReply and SaveUsage leave server and quota alone.
  <1>3. ASSUME NEW p \in Procs, NEW d, chatProc' = [chatProc EXCEPT ![p] = d],
               UNCHANGED <<chatServer, chatUsage>>, ChatFiles \subseteq ChatFiles',
               ChatCommandOK(chatServer', ChatFiles', d),
               d.cmd \in {"consume", "load", "copy", "count"} => p \in Uncounted,
               d.cmd = "count" => d.seen = chatUsage,
               HistoryOK(chatServer', ChatFiles', chatStore')
        PROVE  ChatInv'
    <2>1. ChatCommandsOK' /\ ChatQuotaOK'
      BY <1>3, ChatCommandGoesOn, ChatQuotaKept
    <2>2. ChatServerOK'
      BY <1>3 DEF ChatInv, ChatServerOK
    <2> QED BY <1>3, <2>1, <2>2 DEF ChatInv
  <1>4. ASSUME NEW p \in Procs, Chat!PullThreads(p) PROVE ChatInv'
    <2> DEFINE d == [cmd |-> "pull", got |-> chatServer, todo |-> Chats]
    <2>1. ChatCommandOK(chatServer', ChatFiles', d)
      BY <1>4 DEF Chat!PullThreads, ChatCommandOK
    <2>2. chatProc' = [chatProc EXCEPT ![p] = d] /\ UNCHANGED <<chatServer, chatUsage, chatStore, ChatFiles>>
      BY <1>4 DEF Chat!PullThreads, Chat!Start, ChatFiles
    <2>3. d.cmd = "pull"
      OBVIOUS
    <2> HIDE DEF d
    <2> QED BY <1>3, <2>1, <2>2, <2>3 DEF ChatInv
  <1>5. ASSUME NEW p \in Procs, NEW chat \in Chats, Chat!LoadThread(p, chat) PROVE ChatInv'
    <2> DEFINE c == chatProc[p]
               n == Chat!NameOf(chat)
               new == {m \in c.got : m.chat = chat /\ Chat!IsNew(m, chatStore[n])}
               files == {m.id : m \in {x \in new : x.media}}
               d == [cmd |-> "ingest", got |-> c.got, todo |-> c.todo \ {chat}, contact |-> n,
                     seen |-> chatStore, files |-> files, new |-> {Chat!Stored(m, FALSE) : m \in new}]
    <2>1. n \in Contacts /\ chat \in Chat!ThreadOf(n)
      <3>1. \E x \in Contacts : chat \in Chat!ThreadOf(x)
        BY ChatAssumption DEF Chat!ThreadOf
      <3> QED BY <3>1 DEF Chat!NameOf
    <2>2. /\ c.cmd = "pull" /\ chatProc' = [chatProc EXCEPT ![p] = d]
          /\ UNCHANGED <<chatServer, chatUsage, chatStore, ChatFiles>>
      BY <1>5 DEF Chat!LoadThread, Chat!Step, ChatFiles
    <2>3. ChatCommandOK(chatServer, ChatFiles, c) /\ c.got \subseteq chatServer /\ c.todo \subseteq Chats
      BY <2>2 DEF ChatInv, ChatCommandsOK, ChatCommandOK
    <2>4. ASSUME NEW m \in new PROVE Backed(chatServer', ChatFiles' \cup files, n, Chat!Stored(m, FALSE))
      <3>1. m \in chatServer' /\ m.chat \in Chat!ThreadOf(n)
        BY <2>1, <2>2, <2>3
      <3>2. m.media => m.id \in files
        OBVIOUS
      <3> HIDE DEF new, files
      <3> QED BY <3>1, <3>2 DEF Backed, SentTo, Chat!Stored
    <2>5. HistoryOK(chatServer', ChatFiles', chatStore)
      BY <2>2, WhatIsBackedStays DEF ChatInv
    <2>6. /\ d.cmd = "ingest" /\ d.got \subseteq chatServer' /\ d.todo \subseteq Chats
          /\ d.contact \in Contacts /\ d.seen = chatStore
          /\ \A s \in d.new : Backed(chatServer', ChatFiles' \cup d.files, d.contact, s)
      <3> HIDE DEF new, n, files
      <3> QED BY <2>1, <2>2, <2>3, <2>4
    <2> HIDE DEF d, new, n, files
    <2>7. ChatCommandOK(chatServer', ChatFiles', d)
      BY <2>5, <2>6 DEF ChatCommandOK
    <2> QED BY <1>3, <2>2, <2>5, <2>6, <2>7
  <1>5a. ASSUME NEW p \in Procs, NEW id, Chat!OpenMedia(p, id) PROVE ChatInv'
    <2> DEFINE c == chatProc[p]
               d == [cmd |-> "fill", got |-> c.got, todo |-> c.todo, contact |-> c.contact,
                     seen |-> c.seen, files |-> c.files, new |-> c.new, id |-> id]
    <2>1. /\ c.cmd = "ingest" /\ chatProc' = [chatProc EXCEPT ![p] = d]
          /\ UNCHANGED <<chatServer, chatUsage, chatStore, ChatFiles>>
      BY <1>5a DEF Chat!OpenMedia, Chat!Step, ChatFiles
    <2>2. ChatCommandOK(chatServer, ChatFiles, c)
      BY DEF ChatInv, ChatCommandsOK
    <2>3. /\ d.cmd = "fill" /\ d.got = c.got /\ d.todo = c.todo /\ d.contact = c.contact
          /\ d.seen = c.seen /\ d.files = c.files /\ d.new = c.new
      OBVIOUS
    <2> HIDE DEF c, d
    <2>4. ChatCommandOK(chatServer', ChatFiles', d)
      BY <2>1, <2>2, <2>3 DEF ChatCommandOK
    <2> QED BY <1>3, <2>1, <2>3, <2>4 DEF ChatInv
  <1>5b. ASSUME NEW p \in Procs, Chat!FillMedia(p) PROVE ChatInv'
    <2> DEFINE c == chatProc[p]
               d == [cmd |-> "ingest", got |-> c.got, todo |-> c.todo, contact |-> c.contact,
                     seen |-> c.seen, files |-> c.files \ {c.id}, new |-> c.new]
    <2>1. /\ c.cmd = "fill" /\ chatProc' = [chatProc EXCEPT ![p] = d]
          /\ UNCHANGED <<chatServer, chatUsage, chatStore>>
      BY <1>5b DEF Chat!FillMedia, Chat!Step
    <2>2. ChatFiles' = ChatFiles \cup {c.id}
      BY <1>5b DEF Chat!FillMedia, ChatFiles
    <2>3. ChatCommandOK(chatServer, ChatFiles, c)
      BY DEF ChatInv, ChatCommandsOK
    <2>4. /\ d.cmd = "ingest" /\ d.got = c.got /\ d.todo = c.todo /\ d.contact = c.contact
          /\ d.seen = c.seen /\ d.files = c.files \ {c.id} /\ d.new = c.new
      OBVIOUS
    <2> HIDE DEF c, d
    <2>5. HistoryOK(chatServer', ChatFiles', chatStore') /\ HistoryOK(chatServer', ChatFiles', c.seen)
      BY <2>1, <2>2, <2>3, WhatIsBackedStays DEF ChatInv, ChatCommandOK
    <2>6. ASSUME NEW s \in d.new PROVE Backed(chatServer', ChatFiles' \cup d.files, d.contact, s)
      <3>1. Backed(chatServer, ChatFiles \cup c.files, c.contact, s)
        BY <2>1, <2>3, <2>4 DEF ChatCommandOK
      <3>2. ChatFiles \cup c.files \subseteq ChatFiles' \cup d.files
        BY <2>2, <2>4
      <3> QED BY <2>1, <2>4, <3>1, <3>2, WhatIsBackedStays
    <2>7. ChatCommandOK(chatServer', ChatFiles', d)
      BY <2>1, <2>3, <2>4, <2>5, <2>6 DEF ChatCommandOK
    <2> QED BY <1>3, <2>1, <2>2, <2>4, <2>5, <2>7
  <1>6. ASSUME NEW p \in Procs, Chat!SaveThread(p) PROVE ChatInv'
    <2> DEFINE c == chatProc[p]
               d == IF c.todo = {} THEN Chat!Idle ELSE [cmd |-> "pull", got |-> c.got, todo |-> c.todo]
    <2>1. /\ c.cmd = "ingest" /\ chatProc' = [chatProc EXCEPT ![p] = d]
          /\ chatStore' = [c.seen EXCEPT ![c.contact] = @ \cup c.new]
          /\ UNCHANGED <<chatServer, ChatFiles, chatUsage>> /\ c.files = {}
      BY <1>6 DEF Chat!SaveThread, Chat!Step, ChatFiles
    <2>2. ChatCommandOK(chatServer, ChatFiles, c)
      BY DEF ChatInv, ChatCommandsOK
    <2>3. d.cmd \in {"none", "pull"}
          /\ (d.cmd = "pull" => d.got = c.got /\ d.todo = c.todo)
      BY DEF Chat!Idle
    <2>4. /\ c.got \subseteq chatServer /\ c.todo \subseteq Chats /\ c.contact \in Contacts
          /\ HistoryOK(chatServer, ChatFiles, c.seen)
          /\ \A s \in c.new : Backed(chatServer, ChatFiles, c.contact, s)
      BY <2>1, <2>2 DEF ChatCommandOK
    <2> HIDE DEF c, d
    <2>5. ChatCommandOK(chatServer', ChatFiles', d)
      BY <2>1, <2>3, <2>4 DEF ChatCommandOK
    <2>6. HistoryOK(chatServer, ChatFiles, chatStore')
      BY <2>1, <2>4 DEF HistoryOK
    <2> QED BY <1>3, <2>1, <2>3, <2>5, <2>6
  <1>7. ASSUME NEW p \in Procs, NEW n \in Contacts, Chat!StartReply(p, n) PROVE ChatInv'
    <2> DEFINE d == [cmd |-> "send", contact |-> n]
    <2>1. chatProc' = [chatProc EXCEPT ![p] = d] /\ UNCHANGED <<chatServer, chatUsage, chatStore, ChatFiles>>
      BY <1>7 DEF Chat!StartReply, Chat!Start, ChatFiles
    <2>2. ChatCommandOK(chatServer', ChatFiles', d) /\ d.cmd = "send"
      BY DEF ChatCommandOK
    <2> HIDE DEF d
    <2> QED BY <1>3, <2>1, <2>2 DEF ChatInv
  <1>8. ASSUME NEW p \in Procs, NEW answered \in BOOLEAN, Chat!SendReply(p, answered) PROVE ChatInv'
    <2> DEFINE c == chatProc[p]
               chat == ChatsNamed[c.contact][1]
               m == [id |-> Cardinality(chatServer), chat |-> chat, out |-> TRUE, media |-> FALSE]
               d == IF answered
                    THEN [cmd |-> "consume", contact |-> c.contact, id |-> Cardinality(chatServer)]
                    ELSE Chat!Idle
    <2>1. /\ c.cmd = "send" /\ chatProc' = [chatProc EXCEPT ![p] = d]
          /\ Chat!Post(chat, TRUE, FALSE)
          /\ UNCHANGED <<chatStore, ChatFiles, chatUsage>>
      BY <1>8, SameCardinality DEF Chat!SendReply, Chat!Step, Chat!End, ChatFiles
    <2>2. c.contact \in Contacts
      BY <2>1 DEF ChatInv, ChatCommandsOK, ChatCommandOK
    <2>3. chat \in Chats /\ chat \in Chat!ThreadOf(c.contact)
      <3>1. ChatsNamed[c.contact] \in Seq(Chats) /\ ChatsNamed[c.contact] # <<>>
        BY <2>2, ChatAssumption
      <3>2. 1 \in DOMAIN ChatsNamed[c.contact]
        BY <3>1
      <3> QED BY <3>1, <3>2 DEF Chat!ThreadOf
    <2>4. ChatServerOK' /\ chatServer' = chatServer \cup {m} /\ m \notin chatServer
      <3> HIDE DEF chat
      <3> QED BY <2>1, <2>3, ChatPost
    <2>5. m.out /\ m.id = Cardinality(chatServer) /\ m.chat = chat
      OBVIOUS
    <2>6. /\ d.cmd \in {"none", "consume"}
          /\ d.cmd = "consume" => d.contact = c.contact /\ d.id = Cardinality(chatServer)
      BY DEF Chat!Idle
    <2> HIDE DEF m, d, chat
    <2>7. ChatCommandOK(chatServer', ChatFiles', d)
      BY <2>2, <2>3, <2>4, <2>5, <2>6 DEF ChatCommandOK, SentTo
    <2>8. ChatCommandsOK' /\ HistoryOK(chatServer', ChatFiles', chatStore')
      BY <2>1, <2>4, <2>7, ChatCommandGoesOn, WhatIsBackedStays DEF ChatInv
    <2>9. ChatQuotaOK'
      <3>1. DOMAIN chatProc' = Procs /\ chatProc'[p] = d
            /\ \A q \in Procs \ {p} : chatProc'[q] = chatProc[q]
        BY <2>1 DEF ChatInv, ChatCommandsOK
      <3>2. Sent' = Sent \cup {m} /\ m \notin Sent
        BY <2>4, <2>5 DEF Sent
      <3>3. Cardinality(Sent') = Cardinality(Sent) + 1
        <4>1. Cardinality(Sent \cup {m}) = Cardinality(Sent) + 1
          BY <3>2, FinitelyManyReplies, FS_AddElement
        <4> QED BY <3>2, <4>1, Zenon
      <3>4. Uncounted' \subseteq Uncounted \cup {p} /\ p \notin Uncounted
        BY <2>1, <3>1 DEF Uncounted
      <3>5. Cardinality(Uncounted') \in Nat /\ Cardinality(Uncounted') <= Cardinality(Uncounted) + 1
        <4>1. /\ IsFiniteSet(Uncounted \cup {p})
              /\ Cardinality(Uncounted \cup {p}) = Cardinality(Uncounted) + 1
          BY <3>4, FinitelyManyReplies, FS_AddElement
        <4>2. IsFiniteSet(Uncounted') /\ Cardinality(Uncounted') <= Cardinality(Uncounted \cup {p})
          BY <3>4, <4>1, FS_Subset
        <4> QED BY <4>1, <4>2, FS_CardinalityType
      <3>6. \A q \in Procs : chatProc'[q].cmd = "count" =>
              chatProc'[q].seen \in Nat /\ chatProc'[q].seen + Cardinality(Uncounted) <= Cardinality(Sent)
        BY <2>6, <3>1 DEF ChatInv, ChatQuotaOK, ChatCommandsOK, ChatCommandOK
      <3>7. /\ chatUsage' \in Nat /\ chatUsage' + Cardinality(Uncounted) <= Cardinality(Sent)
            /\ Cardinality(Uncounted) \in Nat /\ Cardinality(Sent) \in Nat
        BY <2>1, FinitelyManyReplies DEF ChatInv, ChatQuotaOK
      <3> HIDE DEF Sent, Uncounted
      <3> QED BY <3>3, <3>5, <3>6, <3>7 DEF ChatQuotaOK
    <2> QED BY <2>4, <2>8, <2>9 DEF ChatInv
  <1>9. ASSUME NEW p \in Procs, Chat!ConsumeReply(p) PROVE ChatInv'
    <2> DEFINE c == chatProc[p]
               d == [cmd |-> "load", contact |-> c.contact, id |-> c.id]
    <2>1. c.cmd = "consume" /\ chatProc' = [chatProc EXCEPT ![p] = d]
          /\ UNCHANGED <<chatServer, chatUsage, chatStore, ChatFiles>>
      BY <1>9 DEF Chat!ConsumeReply, Chat!Step, ChatFiles
    <2>2. d.cmd = "load" /\ d.contact = c.contact /\ d.id = c.id /\ p \in Uncounted
      BY <2>1 DEF Uncounted
    <2>3. ChatCommandOK(chatServer, ChatFiles, c)
      BY DEF ChatInv, ChatCommandsOK
    <2> HIDE DEF c, d
    <2>4. ChatCommandOK(chatServer', ChatFiles', d)
      BY <2>1, <2>2, <2>3 DEF ChatCommandOK
    <2> QED BY <1>3, <2>1, <2>2, <2>4 DEF ChatInv
  <1>10. ASSUME NEW p \in Procs, Chat!LoadCopy(p) PROVE ChatInv'
    <2> DEFINE c == chatProc[p]
               d == [cmd |-> "copy", contact |-> c.contact, id |-> c.id, seen |-> chatStore]
    <2>1. c.cmd = "load" /\ chatProc' = [chatProc EXCEPT ![p] = d]
          /\ UNCHANGED <<chatServer, chatUsage, chatStore, ChatFiles>>
      BY <1>10 DEF Chat!LoadCopy, Chat!Step, ChatFiles
    <2>2. d.cmd = "copy" /\ d.contact = c.contact /\ d.id = c.id /\ d.seen = chatStore /\ p \in Uncounted
      BY <2>1 DEF Uncounted
    <2>3. ChatCommandOK(chatServer, ChatFiles, c)
      BY DEF ChatInv, ChatCommandsOK
    <2> HIDE DEF c, d
    <2>4. ChatCommandOK(chatServer', ChatFiles', d)
      BY <2>1, <2>2, <2>3 DEF ChatCommandOK, ChatInv
    <2> QED BY <1>3, <2>1, <2>2, <2>4 DEF ChatInv
  <1>11. ASSUME NEW p \in Procs, Chat!SaveCopy(p) PROVE ChatInv'
    <2> DEFINE c == chatProc[p]
               copy == [id |-> c.id, copy |-> TRUE, out |-> TRUE, ref |-> FALSE]
               d == [cmd |-> "count", seen |-> chatUsage]
    <2>1. /\ c.cmd = "copy" /\ chatProc' = [chatProc EXCEPT ![p] = d]
          /\ chatStore' = [c.seen EXCEPT ![c.contact] = @ \cup {copy}]
          /\ UNCHANGED <<chatServer, chatUsage, ChatFiles>>
      BY <1>11 DEF Chat!SaveCopy, Chat!Step, ChatFiles
    <2>2. d.cmd = "count" /\ d.seen = chatUsage /\ p \in Uncounted
      BY <2>1 DEF Uncounted
    <2>3. /\ c.contact \in Contacts /\ HistoryOK(chatServer, ChatFiles, c.seen)
          /\ \E m \in SentTo(chatServer, c.contact) : m.id = c.id
      BY <2>1 DEF ChatInv, ChatCommandsOK, ChatCommandOK
    <2>4. Backed(chatServer, ChatFiles, c.contact, copy)
      <3>1. PICK m \in SentTo(chatServer, c.contact) : m.id = c.id
        BY <2>3
      <3>2. m.out = TRUE /\ m.media = FALSE
        BY DEF SentTo, ChatInv, ChatServerOK
      <3>3. copy = Chat!Stored(m, TRUE)
        BY <3>1, <3>2 DEF Chat!Stored
      <3> QED BY <3>3 DEF Backed
    <2> HIDE DEF c, d, copy
    <2>5. HistoryOK(chatServer, ChatFiles, chatStore')
      BY <2>1, <2>3, <2>4 DEF HistoryOK
    <2>6. ChatCommandOK(chatServer', ChatFiles', d)
      BY <2>2 DEF ChatCommandOK, ChatInv, ChatQuotaOK
    <2> QED BY <1>3, <2>1, <2>2, <2>5, <2>6
  <1>12. ASSUME NEW p \in Procs, Chat!SaveUsage(p) PROVE ChatInv'
    <2>1. /\ chatProc[p].cmd = "count" /\ chatProc' = [chatProc EXCEPT ![p] = Chat!Idle]
          /\ chatUsage' = chatProc[p].seen + 1 /\ UNCHANGED <<chatServer, chatStore, ChatFiles>>
      BY <1>12 DEF Chat!SaveUsage, Chat!End, Chat!Step, ChatFiles
    <2>2. ChatCommandOK(chatServer', ChatFiles', Chat!Idle)
      BY DEF ChatCommandOK, Chat!Idle
    <2>3. ChatCommandsOK' /\ HistoryOK(chatServer', ChatFiles', chatStore') /\ ChatServerOK'
      BY <2>1, <2>2, ChatCommandGoesOn DEF ChatInv, ChatServerOK
    <2>4. ChatQuotaOK'
      <3>1. DOMAIN chatProc' = Procs /\ chatProc'[p].cmd = "none"
            /\ \A q \in Procs \ {p} : chatProc'[q] = chatProc[q]
        BY <2>1 DEF ChatInv, ChatCommandsOK, Chat!Idle
      <3>2. Sent' = Sent /\ Uncounted' = Uncounted \ {p} /\ p \in Uncounted
        BY <2>1, <3>1 DEF Sent, Uncounted
      <3>3. Cardinality(Uncounted') = Cardinality(Uncounted) - 1
        <4>1. Cardinality(Uncounted \ {p}) = Cardinality(Uncounted) - 1
          BY <3>2, FinitelyManyReplies, FS_RemoveElement
        <4> QED BY <3>2, <4>1, Zenon
      <3>4. \A q \in Procs : chatProc[q].cmd = "count" =>
              chatProc[q].seen \in Nat /\ chatProc[q].seen + Cardinality(Uncounted) <= Cardinality(Sent)
        BY DEF ChatInv, ChatQuotaOK, ChatCommandsOK, ChatCommandOK
      <3>5. \A q \in Procs : chatProc'[q].cmd = "count" =>
              chatProc'[q].seen \in Nat /\ chatProc'[q].seen + Cardinality(Uncounted) <= Cardinality(Sent)
        BY <3>1, <3>4
      <3>6. Cardinality(Uncounted) \in Nat /\ Cardinality(Sent) \in Nat
        BY FinitelyManyReplies
      <3>7. chatUsage' \in Nat /\ chatUsage' + Cardinality(Uncounted') <= Cardinality(Sent')
        <4>1. chatProc[p].seen \in Nat /\ chatProc[p].seen + Cardinality(Uncounted) <= Cardinality(Sent)
          BY <2>1, <3>4
        <4> HIDE DEF Sent, Uncounted
        <4> QED BY <2>1, <3>2, <3>3, <3>6, <4>1
      <3>8. ASSUME NEW q \in Procs, chatProc'[q].cmd = "count"
            PROVE  chatProc'[q].seen + Cardinality(Uncounted') <= Cardinality(Sent')
        <4>1. chatProc'[q].seen \in Nat /\ chatProc'[q].seen + Cardinality(Uncounted) <= Cardinality(Sent)
          BY <3>5, <3>8
        <4>2. Cardinality(Sent') = Cardinality(Sent)
          BY <3>2, Zenon
        <4> QED BY <3>3, <3>6, <4>1, <4>2
      <3> QED BY <3>7, <3>8 DEF ChatQuotaOK
    <2> QED BY <2>3, <2>4 DEF ChatInv
  <1>13. ASSUME NEW p \in Procs, Chat!Kill(p) PROVE ChatInv'
    <2>1. chatProc' = [chatProc EXCEPT ![p] = Chat!Idle]
          /\ UNCHANGED <<chatServer, chatUsage, chatStore, ChatFiles>>
      BY <1>13 DEF Chat!Kill, Chat!End, Chat!Step, ChatFiles
    <2>2. ChatCommandOK(chatServer', ChatFiles', Chat!Idle) /\ Chat!Idle.cmd = "none"
      BY DEF ChatCommandOK, Chat!Idle
    <2> QED BY <1>3, <2>1, <2>2 DEF ChatInv
  <1>14. CASE UNCHANGED chatVars
    BY <1>14 DEF chatVars, ChatFiles, ChatInv, ChatServerOK, ChatCommandsOK, ChatQuotaOK, Sent, Uncounted
  <1> QED
    BY <1>1, <1>2, <1>4, <1>5, <1>5a, <1>5b, <1>6, <1>7, <1>8, <1>9, <1>10, <1>11, <1>12,
       <1>13, <1>14
    DEF Chat!Next

LEMMA AsManyAsReplies ==
  ASSUME NEW replies, IsFiniteSet(replies), NEW copy
  PROVE  LET told == {Chat!Stored(m, copy) : m \in replies} IN
         IsFiniteSet(told) /\ Cardinality(told) \in Nat /\ Cardinality(told) <= Cardinality(replies)
  <1> DEFINE told == {Chat!Stored(m, copy) : m \in replies}
             f == [m \in replies |-> Chat!Stored(m, copy)]
  <1>1. f \in Surjection(replies, told)
    BY DEF Surjection
  <1> HIDE DEF f, told
  <1>2. IsFiniteSet(told) /\ Cardinality(told) \in Nat /\ Cardinality(told) <= Cardinality(replies)
    BY <1>1, FS_Surjection, FS_CardinalityType
  <1> QED BY <1>2 DEF told

\* At most two stored messages tell of a reply: the copy and the server's.
LEMMA TwoForAReply ==
  ASSUME ChatInv, NEW n \in Contacts
  PROVE  Cardinality({s \in chatStore[n] : s.out}) <= 2 * Cardinality(SentTo(chatServer, n))
  <1> DEFINE replies == SentTo(chatServer, n)
             copies == {Chat!Stored(m, TRUE) : m \in replies}
             pulled == {Chat!Stored(m, FALSE) : m \in replies}
             outs == {s \in chatStore[n] : s.out}
  <1>1. IsFiniteSet(replies) /\ Cardinality(replies) \in Nat
    BY FS_Subset, FS_CardinalityType DEF SentTo, ChatInv, ChatServerOK
  <1>2. outs \subseteq copies \cup pulled
    <2> SUFFICES ASSUME NEW s \in outs PROVE s \in copies \cup pulled
      OBVIOUS
    <2>1. PICK m \in replies, copy \in BOOLEAN : s = Chat!Stored(m, copy)
      BY DEF ChatInv, HistoryOK, Backed
    <2>2. CASE copy = TRUE
      BY <2>1, <2>2
    <2>3. CASE copy = FALSE
      BY <2>1, <2>3
    <2> QED BY <2>2, <2>3
  <1> HIDE DEF replies, outs
  <1>3. /\ IsFiniteSet(copies) /\ Cardinality(copies) \in Nat
        /\ Cardinality(copies) <= Cardinality(replies)
        /\ IsFiniteSet(pulled) /\ Cardinality(pulled) \in Nat
        /\ Cardinality(pulled) <= Cardinality(replies)
    BY <1>1, AsManyAsReplies
  <1> HIDE DEF copies, pulled
  <1>4. /\ IsFiniteSet(copies \cup pulled)
        /\ Cardinality(copies \cup pulled) <= Cardinality(copies) + Cardinality(pulled)
    <2>1. IsFiniteSet(copies \cap pulled) /\ Cardinality(copies \cap pulled) \in Nat
      BY <1>3, FS_Subset, FS_CardinalityType
    <2>2. /\ IsFiniteSet(copies \cup pulled)
          /\ Cardinality(copies \cup pulled)
               = Cardinality(copies) + Cardinality(pulled) - Cardinality(copies \cap pulled)
      BY <1>3, FS_Union
    <2> QED BY <1>3, <2>1, <2>2
  <1>5. Cardinality(outs) <= Cardinality(copies \cup pulled) /\ Cardinality(outs) \in Nat
        /\ Cardinality(copies \cup pulled) \in Nat
    BY <1>2, <1>4, FS_Subset, FS_CardinalityType
  <1>6. Cardinality(outs) <= 2 * Cardinality(replies)
    BY <1>1, <1>3, <1>4, <1>5
  <1> QED BY <1>6 DEF replies, outs

(* Whatever overlaps, dies or goes unanswered: a reply the history tells   *)
(* of was sent under that name, and counts at most twice; a stored picture *)
(* has its file whole, unless another pull has opened it again; the quota  *)
(* never runs ahead of the replies sent (ingest_chat_history,              *)
(* store_inbound_media, send_chat_reply, record_kakao_send_usage).         *)
THEOREM HistoryHolds == ProfileSpec => []HistoryIsBacked
  <1>1. ChatInv => Chat!HistoryIsBacked
    <2> SUFFICES ASSUME ChatInv PROVE Chat!HistoryIsBacked
      OBVIOUS
    <2> DEFINE sent == UNION {Chat!Outbound(chat) : chat \in Chats}
    <2>1. sent = Sent
      BY DEF Sent, Chat!Outbound, ChatInv, ChatServerOK
    <2>2. ASSUME NEW n \in Contacts PROVE {m \in sent : m.chat \in Chat!ThreadOf(n)} = SentTo(chatServer, n)
      BY <2>1 DEF Sent, SentTo
    <2> HIDE DEF sent
    <2>3. ASSUME NEW n \in Contacts
          PROVE  Chat!OutboundCount(n) <= 2 * Chat!Cardinality({m \in sent : m.chat \in Chat!ThreadOf(n)})
      BY <2>2, TwoForAReply, SameCardinality DEF Chat!OutboundCount
    <2>4. ASSUME NEW n \in Contacts, NEW s \in chatStore[n]
          PROVE  /\ s.out => \E chat \in Chat!ThreadOf(n) : \E m \in Chat!Outbound(chat) : m.id = s.id
                 /\ s.ref => s.id \in chatMedia \cup chatSpoilt
      BY DEF ChatFiles, ChatInv, HistoryOK, Backed, SentTo, Chat!Stored, Chat!Outbound
    <2>5. ASSUME NEW c \in Ceilings, Chat!QuotaState(chatUsage, c) = "over_limit"
          PROVE  Chat!Cardinality(sent) > c
      <3>1. chatUsage > c /\ c \in Nat
        BY <2>5, ChatAssumption DEF Chat!QuotaState
      <3>2. chatUsage \in Nat /\ chatUsage <= Cardinality(Sent)
        BY ProcsAssumption, FinitelyManyReplies DEF ChatInv, ChatQuotaOK
      <3> QED BY <2>1, <3>1, <3>2, ProcsAssumption, FinitelyManyReplies, SameCardinality
    <2> QED BY <2>3, <2>4, <2>5 DEF Chat!HistoryIsBacked, sent
  <1>2. ChatInv => HistoryIsBacked
    BY <1>1 DEF HistoryIsBacked
  <1>3. ProfileInit => ChatInv
    BY ChatInit, ProcsAssumption DEF ProfileInit
  <1>4. ChatInv /\ [Chat!Next]_chatVars => ChatInv'
    BY ChatStep
  <1> QED BY <1>2, <1>3, <1>4, PartsRun, PTL DEF ProfileSpec

-----------------------------------------------------------------------------
(* The ledgers of the hooks.                                               *)

\* What a hook holds in memory: counts that were earned, and a size of the log
\* of which half is within its bound.
HookCommandOK(uses, c) ==
  /\ c.cmd = "count" =>
       /\ c.surface \in Surfaces /\ DOMAIN c.seen = Surfaces
       /\ \A s \in Surfaces : c.seen[s] \in Nat /\ c.seen[s] <= uses[s]
  /\ c.cmd = "rotate" => c.seen \in Nat /\ c.seen <= 2 * MaxLines

HookCommandsOK ==
  /\ DOMAIN hookProc = Procs
  /\ \A p \in Procs : HookCommandOK(hookUses, hookProc[p])

HookCountsOK ==
  /\ DOMAIN hookCounts = Surfaces /\ hookUses \in [Surfaces -> Nat]
  /\ \A s \in Surfaces : hookCounts[s] \in Nat /\ hookCounts[s] <= hookUses[s]

\* The hooks that have appended a line and not yet dealt with the size.
Measuring == {p \in Procs : hookProc[p].cmd \in {"measure", "rotate"}}

HookLogOK ==
  /\ hookLines \in Nat /\ hookUnrotated \in Nat /\ hookKills \in Nat
  /\ hookUnrotated <= hookKills /\ hookKills <= MaxKills
  /\ hookLines <= MaxLines + hookUnrotated + Cardinality(Measuring)

HookInv == HookCommandsOK /\ HookCountsOK /\ HookLogOK

LEMMA FinitelyManyMeasuring ==
  /\ IsFiniteSet(Measuring) /\ Cardinality(Measuring) \in Nat
  /\ Cardinality(Measuring) <= Cardinality(Procs) /\ Cardinality(Procs) \in Nat
  <1>1. Measuring \subseteq Procs
    BY DEF Measuring
  <1> QED BY <1>1, ProcsAssumption, FS_Subset, FS_CardinalityType

LEMMA HookInit == Hooks!Init => HookInv
  <1> SUFFICES ASSUME Hooks!Init PROVE HookInv
    OBVIOUS
  <1>1. /\ hookLines = 0 /\ hookKills = 0 /\ hookUnrotated = 0
        /\ hookCounts = [s \in Surfaces |-> 0] /\ hookUses = [s \in Surfaces |-> 0]
        /\ DOMAIN hookProc = Procs /\ \A p \in Procs : hookProc[p].cmd = "none"
    BY DEF Hooks!Init, Hooks!Idle
  <1>2. HookCommandsOK /\ HookCountsOK
    BY <1>1 DEF HookCommandsOK, HookCommandOK, HookCountsOK
  <1>3. HookLogOK
    BY <1>1, FinitelyManyMeasuring, HooksAssumption DEF HookLogOK
  <1> QED BY <1>2, <1>3 DEF HookInv

\* A hook goes on to d; uses are only ever added.
LEMMA HookGoesOn ==
  ASSUME HookInv, NEW p \in Procs, NEW d, hookProc' = [hookProc EXCEPT ![p] = d],
         HookCommandOK(hookUses', d),
         \A s \in Surfaces : hookUses'[s] \in Nat /\ hookUses[s] <= hookUses'[s]
  PROVE  HookCommandsOK'
  <1>1. DOMAIN hookProc' = Procs /\ hookProc'[p] = d
        /\ \A q \in Procs \ {p} : hookProc'[q] = hookProc[q]
    BY DEF HookInv, HookCommandsOK
  <1>2. ASSUME NEW q \in Procs PROVE HookCommandOK(hookUses', hookProc[q])
    <2>1. HookCommandOK(hookUses, hookProc[q])
      BY DEF HookInv, HookCommandsOK
    <2>2. hookUses \in [Surfaces -> Nat]
      BY DEF HookInv, HookCountsOK
    <2>3. hookProc[q].cmd = "count" =>
            \A s \in Surfaces : hookProc[q].seen[s] \in Nat /\ hookProc[q].seen[s] <= hookUses'[s]
      BY <2>1, <2>2 DEF HookCommandOK
    <2> QED BY <2>1, <2>3 DEF HookCommandOK
  <1> QED BY <1>1, <1>2 DEF HookCommandsOK

\* How many are to deal with the size, when a hook goes on to d.
LEMMA HookMeasures ==
  ASSUME HookInv, NEW p \in Procs, NEW d, hookProc' = [hookProc EXCEPT ![p] = d]
  PROVE  /\ (d.cmd \in {"measure", "rotate"} <=> p \in Measuring) =>
              Cardinality(Measuring') = Cardinality(Measuring)
         /\ d.cmd \in {"measure", "rotate"} /\ p \notin Measuring =>
              Cardinality(Measuring') = Cardinality(Measuring) + 1
         /\ d.cmd \notin {"measure", "rotate"} /\ p \in Measuring =>
              Cardinality(Measuring') = Cardinality(Measuring) - 1
  <1>1. DOMAIN hookProc' = Procs /\ hookProc'[p] = d
        /\ \A q \in Procs \ {p} : hookProc'[q] = hookProc[q]
    BY DEF HookInv, HookCommandsOK
  <1>2. /\ (d.cmd \in {"measure", "rotate"} <=> p \in Measuring) => Measuring' = Measuring
        /\ d.cmd \in {"measure", "rotate"} => Measuring' = Measuring \cup {p}
        /\ d.cmd \notin {"measure", "rotate"} => Measuring' = Measuring \ {p}
    BY <1>1 DEF Measuring
  <1>3. p \notin Measuring => Cardinality(Measuring \cup {p}) = Cardinality(Measuring) + 1
    BY FinitelyManyMeasuring, FS_AddElement
  <1>4. p \in Measuring => Cardinality(Measuring \ {p}) = Cardinality(Measuring) - 1
    BY FinitelyManyMeasuring, FS_RemoveElement
  <1> HIDE DEF Measuring
  <1> QED BY Zenon, <1>2, <1>3, <1>4

LEMMA HookStep == HookInv /\ [Hooks!Next]_hookVars => HookInv'
  <1> SUFFICES ASSUME HookInv, [Hooks!Next]_hookVars PROVE HookInv'
    OBVIOUS
  <1> USE HooksAssumption, FinitelyManyMeasuring
  <1>0. hookUses' = hookUses => \A s \in Surfaces : hookUses'[s] \in Nat /\ hookUses[s] <= hookUses'[s]
    BY DEF HookInv, HookCountsOK
  <1>1. CASE Hooks!ClearQa
    <2>1. hookLines' = 0 /\ UNCHANGED <<hookCounts, hookUses, hookProc, hookKills, hookUnrotated>>
      BY <1>1 DEF Hooks!ClearQa
    <2>2. Measuring' = Measuring
      BY <2>1 DEF Measuring
    <2> HIDE DEF Measuring
    <2> QED BY <2>1, <2>2 DEF HookInv, HookCommandsOK, HookCountsOK, HookLogOK
  <1>2. ASSUME NEW state, Hooks!SetConsent(state) PROVE HookInv'
    BY <1>2 DEF Hooks!SetConsent, HookInv, HookCommandsOK, HookCountsOK, HookLogOK, Measuring
\* A hook that writes nothing, and has not more to measure than it had.
  <1>3. ASSUME NEW p \in Procs, NEW d, hookProc' = [hookProc EXCEPT ![p] = d],
               UNCHANGED <<hookLines, hookCounts, hookUses, hookKills, hookUnrotated>>,
               HookCommandOK(hookUses, d), (d.cmd \in {"measure", "rotate"} <=> p \in Measuring)
        PROVE  HookInv'
    <2>1. HookCommandsOK'
      BY <1>3, <1>0, HookGoesOn
    <2>2. Cardinality(Measuring') = Cardinality(Measuring)
      BY <1>3, HookMeasures
    <2> QED BY <1>3, <2>1, <2>2 DEF HookInv, HookCountsOK, HookLogOK
  <1>4. ASSUME NEW p \in Procs, Hooks!InvalidPayload(p) PROVE HookInv'
    <2> DEFINE d == [cmd |-> "append"]
    <2>1. /\ hookProc[p] = Hooks!Idle /\ hookProc' = [hookProc EXCEPT ![p] = d]
          /\ UNCHANGED <<hookLines, hookCounts, hookUses, hookKills, hookUnrotated>>
      BY <1>4 DEF Hooks!InvalidPayload, Hooks!Start
    <2>2. d.cmd = "append" /\ p \notin Measuring
      BY <2>1 DEF Measuring, Hooks!Idle
    <2>3. HookCommandOK(hookUses, d)
      BY DEF HookCommandOK
    <2> HIDE DEF d
    <2> QED BY <1>3, <2>1, <2>2, <2>3
  <1>5. ASSUME NEW p \in Procs, Hooks!AppendQa(p) PROVE HookInv'
    <2> DEFINE d == [cmd |-> "measure"]
    <2>1. /\ hookProc[p].cmd = "append" /\ hookProc' = [hookProc EXCEPT ![p] = d]
          /\ hookLines' = hookLines + 1
          /\ UNCHANGED <<hookCounts, hookUses, hookKills, hookUnrotated>>
      BY <1>5 DEF Hooks!AppendQa
    <2>2. d.cmd = "measure" /\ p \notin Measuring
      BY <2>1 DEF Measuring
    <2>3. HookCommandOK(hookUses, d)
      BY DEF HookCommandOK
    <2> HIDE DEF d
    <2>4. HookCommandsOK' /\ Cardinality(Measuring') = Cardinality(Measuring) + 1
      BY <2>1, <2>2, <2>3, <1>0, HookGoesOn, HookMeasures
    <2> QED BY <2>1, <2>4 DEF HookInv, HookCountsOK, HookLogOK
  <1>6. ASSUME NEW p \in Procs, Hooks!MeasureQa(p) PROVE HookInv'
    <2>1. /\ hookProc[p].cmd = "measure" /\ p \in Measuring
          /\ UNCHANGED <<hookLines, hookCounts, hookUses, hookKills, hookUnrotated>>
      BY <1>6 DEF Hooks!MeasureQa, Measuring
    <2>2. CASE hookLines > MaxLines
      <3> DEFINE d == [cmd |-> "rotate", seen |-> hookLines]
      <3>1. hookProc' = [hookProc EXCEPT ![p] = d]
        BY <1>6, <2>2 DEF Hooks!MeasureQa
      <3>2. hookLines \in Nat /\ hookLines <= 2 * MaxLines
        BY DEF HookInv, HookLogOK
      <3>3. HookCommandOK(hookUses, d) /\ d.cmd = "rotate"
        BY <3>2 DEF HookCommandOK
      <3> HIDE DEF d
      <3> QED BY <1>3, <2>1, <3>1, <3>3
    <2>3. CASE ~(hookLines > MaxLines)
      <3>1. hookProc' = [hookProc EXCEPT ![p] = Hooks!Idle]
        BY <1>6, <2>3 DEF Hooks!MeasureQa, Hooks!End
      <3>2. HookCommandOK(hookUses, Hooks!Idle) /\ Hooks!Idle.cmd = "none"
        BY DEF HookCommandOK, Hooks!Idle
      <3>3. HookCommandsOK' /\ Cardinality(Measuring') = Cardinality(Measuring) - 1
        BY <2>1, <3>1, <3>2, <1>0, HookGoesOn, HookMeasures
      <3>4. Cardinality(Measuring') \in Nat
        BY <3>3, ProcsAssumption, FS_Subset, FS_CardinalityType DEF Measuring
      <3> QED BY <2>1, <2>3, <3>3, <3>4 DEF HookInv, HookCountsOK, HookLogOK
    <2> QED BY <2>2, <2>3
  <1>7. ASSUME NEW p \in Procs, Hooks!RotateQa(p) PROVE HookInv'
    <2>1. /\ hookProc[p].cmd = "rotate" /\ p \in Measuring
          /\ hookProc' = [hookProc EXCEPT ![p] = Hooks!Idle]
          /\ hookLines' = hookProc[p].seen - hookProc[p].seen \div 2
          /\ hookUnrotated' = 0 /\ UNCHANGED <<hookCounts, hookUses, hookKills>>
      BY <1>7 DEF Hooks!RotateQa, Hooks!End, Measuring
    <2>2. HookCommandOK(hookUses, Hooks!Idle) /\ Hooks!Idle.cmd = "none"
      BY DEF HookCommandOK, Hooks!Idle
    <2>3. HookCommandsOK' /\ Cardinality(Measuring') = Cardinality(Measuring) - 1
      BY <2>1, <2>2, <1>0, HookGoesOn, HookMeasures
    <2>4. Cardinality(Measuring') \in Nat
      BY ProcsAssumption, FS_Subset, FS_CardinalityType DEF Measuring
    <2>5. hookProc[p].seen \in Nat /\ hookProc[p].seen <= 2 * MaxLines
      BY <2>1 DEF HookInv, HookCommandsOK, HookCommandOK
    <2>6. hookLines' \in Nat /\ hookLines' <= MaxLines
      BY <2>1, <2>5
    <2> QED BY <2>1, <2>3, <2>4, <2>6 DEF HookInv, HookCountsOK, HookLogOK
  <1>8. ASSUME NEW p \in Procs, NEW s \in Surfaces, Hooks!LoadCounts(p, s) PROVE HookInv'
    <2> DEFINE d == [cmd |-> "count", surface |-> s, seen |-> hookCounts]
    <2>1. /\ hookProc[p] = Hooks!Idle /\ hookProc' = [hookProc EXCEPT ![p] = d]
          /\ UNCHANGED <<hookLines, hookCounts, hookUses, hookKills, hookUnrotated>>
      BY <1>8 DEF Hooks!LoadCounts, Hooks!Start
    <2>2. d.cmd = "count" /\ p \notin Measuring
      BY <2>1 DEF Measuring, Hooks!Idle
    <2>3. HookCommandOK(hookUses, d)
      BY DEF HookCommandOK, HookInv, HookCountsOK
    <2> HIDE DEF d
    <2> QED BY <1>3, <2>1, <2>2, <2>3
  <1>9. ASSUME NEW p \in Procs, Hooks!SaveCounts(p) PROVE HookInv'
    <2> DEFINE c == hookProc[p]
    <2>1. /\ c.cmd = "count" /\ hookProc' = [hookProc EXCEPT ![p] = Hooks!Idle]
          /\ hookCounts' = [c.seen EXCEPT ![c.surface] = @ + 1]
          /\ hookUses' = [hookUses EXCEPT ![c.surface] = @ + 1]
          /\ UNCHANGED <<hookLines, hookKills, hookUnrotated>> /\ p \notin Measuring
      BY <1>9 DEF Hooks!SaveCounts, Hooks!End, Measuring
    <2>2. /\ c.surface \in Surfaces /\ DOMAIN c.seen = Surfaces
          /\ \A s \in Surfaces : c.seen[s] \in Nat /\ c.seen[s] <= hookUses[s]
      BY <2>1 DEF HookInv, HookCommandsOK, HookCommandOK
    <2>3. hookUses \in [Surfaces -> Nat]
      BY DEF HookInv, HookCountsOK
    <2> HIDE DEF c
    <2>4. /\ hookUses' \in [Surfaces -> Nat]
          /\ \A s \in Surfaces : hookUses'[s] \in Nat /\ hookUses[s] <= hookUses'[s]
      BY <2>1, <2>2, <2>3
    <2>5. HookCountsOK'
      BY <2>1, <2>2, <2>3, <2>4 DEF HookCountsOK
    <2>6. HookCommandOK(hookUses', Hooks!Idle) /\ Hooks!Idle.cmd = "none"
      BY DEF HookCommandOK, Hooks!Idle
    <2>7. HookCommandsOK' /\ Cardinality(Measuring') = Cardinality(Measuring)
      BY <2>1, <2>4, <2>6, HookGoesOn, HookMeasures
    <2> QED BY <2>1, <2>5, <2>7 DEF HookInv, HookLogOK
  <1>10. ASSUME NEW p \in Procs, Hooks!Kill(p) PROVE HookInv'
    <2>1. /\ hookProc' = [hookProc EXCEPT ![p] = Hooks!Idle]
          /\ hookKills < MaxKills /\ hookKills' = hookKills + 1
          /\ hookUnrotated' = IF p \in Measuring THEN hookUnrotated + 1 ELSE hookUnrotated
          /\ UNCHANGED <<hookLines, hookCounts, hookUses>>
      BY <1>10 DEF Hooks!Kill, Hooks!End, Measuring
    <2>2. HookCommandOK(hookUses, Hooks!Idle) /\ Hooks!Idle.cmd = "none"
      BY DEF HookCommandOK, Hooks!Idle
    <2>3. /\ HookCommandsOK'
          /\ p \in Measuring => Cardinality(Measuring') = Cardinality(Measuring) - 1
          /\ p \notin Measuring => Cardinality(Measuring') = Cardinality(Measuring)
      BY <2>1, <2>2, <1>0, HookGoesOn, HookMeasures
    <2>4. HookLogOK'
      <3>1. CASE p \in Measuring
        BY <2>1, <2>3, <3>1 DEF HookInv, HookLogOK
      <3>2. CASE p \notin Measuring
        BY <2>1, <2>3, <3>2 DEF HookInv, HookLogOK
      <3> QED BY <3>1, <3>2
    <2> QED BY <2>1, <2>3, <2>4 DEF HookInv, HookCountsOK
  <1>11. CASE UNCHANGED hookVars
    BY <1>11 DEF hookVars, HookInv, HookCommandsOK, HookCountsOK, HookLogOK, Measuring
  <1> QED BY <1>1, <1>2, <1>4, <1>5, <1>6, <1>7, <1>8, <1>9, <1>10, <1>11 DEF Hooks!Next

(* Whichever hooks overlap or are killed, no use is invented, and the log  *)
(* exceeds its bound by a line at most for each hook that has yet to look  *)
(* at its size or died before, if the bound leaves room for that many      *)
(* (record_surface_use, append_qa_record, _rotate_if_needed).              *)
THEOREM HooksHold == ProfileSpec => []HookLedgersHold
  <1>1. HookInv => Hooks!CountsAreEarned /\ Hooks!QaLogBounded
    BY SameCardinality DEF HookInv, HookCountsOK, HookLogOK, Measuring, Hooks!CountsAreEarned,
       Hooks!QaLogBounded
  <1>2. HookInv => HookLedgersHold
    BY <1>1 DEF HookLedgersHold
  <1>3. ProfileInit => HookInv
    BY HookInit DEF ProfileInit
  <1>4. HookInv /\ [Hooks!Next]_hookVars => HookInv'
    BY HookStep
  <1> QED BY <1>2, <1>3, <1>4, PartsRun, PTL DEF ProfileSpec

-----------------------------------------------------------------------------
(* The words of a lesson.                                                  *)

InTheClass(sets, i, plan) == \E s \in sets : s.inClass /\ s.words = plan[i]

Uploading == cardCmd.kind \in {"upload", "resume", "direct"}

\* The sets are numbered as they are made.
CardSetsOK ==
  /\ IsFiniteSet(cardSets)
  /\ \A s \in cardSets :
       DOMAIN s = {"nr", "title", "words", "inClass"} /\ s.nr \in Nat /\ s.nr < Cardinality(cardSets)
  /\ \A s, t \in cardSets : s.nr = t.nr => s = t

CardCheckpointOK ==
  /\ IsFiniteSet(cardCheckpoint.completed)
  /\ cardBasis # ClassCard!Mixed =>
       /\ cardCheckpoint.completed \subseteq ClassCard!Parts(cardBasis)
       /\ \A i \in cardCheckpoint.completed : InTheClass(cardSets, i, cardBasis)
       /\ cardCheckpoint.status = "completed" =>
            cardCheckpoint.completed = ClassCard!Parts(cardBasis)

\* What an uploading command knows: the parts it calls done are in the class,
\* unless it took them from another plan; it has made the set it works on.
CardPlanOK ==
  /\ DOMAIN cardCmd = {"kind", "step", "plan", "of", "done", "execute"}
  /\ ClassCard!Parts(cardCmd.plan) \subseteq Nat /\ IsFiniteSet(cardCmd.done)
  /\ cardCmd.of # ClassCard!Mixed =>
       /\ cardCmd.of = cardCmd.plan /\ cardCmd.done \subseteq ClassCard!Parts(cardCmd.plan)
       /\ \A i \in cardCmd.done : InTheClass(cardSets, i, cardCmd.plan)

CardPartOK ==
  /\ cardCmd.step \in {"find", "create", "add", "record"} =>
       ClassCard!Parts(cardCmd.plan) \ cardCmd.done # {}
  /\ cardCmd.step = "add" => \E s \in cardSets :
       s.nr = Cardinality(cardSets) - 1 /\ s.words = cardCmd.plan[ClassCard!NextPart]
  /\ cardCmd.step = "record" => InTheClass(cardSets, ClassCard!NextPart, cardCmd.plan)

CardCmdOK ==
  /\ cardCmd.kind \in {"none", "verify", "upload", "resume", "direct"}
  /\ cardCmd.kind = "verify" => cardCmd.step \in {"completed", "recovery_required"}
  /\ Uploading => CardPlanOK /\ CardPartOK

CardInv ==
  ClassCard!Parts(cardManifest) \subseteq Nat /\ CardSetsOK /\ CardCheckpointOK /\ CardCmdOK

LEMMA CardInit == ClassCard!Init => CardInv
  <1> SUFFICES ASSUME ClassCard!Init PROVE CardInv
    OBVIOUS
  <1>1. /\ cardSets = {} /\ cardCheckpoint.completed = {} /\ cardCheckpoint.status = "none"
        /\ cardCmd.kind = "none" /\ ClassCard!Parts(cardManifest) = {}
    BY DEF ClassCard!Init, ClassCard!NoCommand, ClassCard!NothingPlanned, ClassCard!Parts
  <1>2. IsFiniteSet(cardSets) /\ IsFiniteSet(cardCheckpoint.completed)
    BY <1>1, FS_EmptySet
  <1>3. cardBasis = ClassCard!NothingPlanned
    BY DEF ClassCard!Init
  <1> QED BY <1>1, <1>2 DEF CardInv, CardSetsOK, CardCheckpointOK, CardCmdOK, Uploading

LEMMA PlansAreNumbered ==
  ASSUME NEW n, NEW k \in Nat PROVE ClassCard!Parts(ClassCard!SplitEvenly(n, k)) \subseteq Nat
BY DEF ClassCard!Parts, ClassCard!SplitEvenly

LEMMA NextPartIsOpen ==
  ASSUME ClassCard!Parts(cardCmd.plan) \subseteq Nat, ClassCard!Parts(cardCmd.plan) \ cardCmd.done # {}
  PROVE  ClassCard!NextPart \in ClassCard!Parts(cardCmd.plan) \ cardCmd.done
  <1> DEFINE open == ClassCard!Parts(cardCmd.plan) \ cardCmd.done
  <1>1. open \subseteq Nat /\ open # {}
    OBVIOUS
  <1> HIDE DEF open
  <1>2. \E x \in open : \A y \in open : x <= y
    BY <1>1, HasLeast
  <1>3. ClassCard!Min(open) \in open
    BY <1>2 DEF ClassCard!Min
  <1> QED BY <1>3 DEF ClassCard!NextPart, open

\* The first part that is not completed comes after completed ones only.
LEMMA PartsBefore ==
  ASSUME NEW completed, IsFiniteSet(completed)
  PROVE  /\ ClassCard!ResumeStartIndex(completed) \in Nat
         /\ 0 .. ClassCard!ResumeStartIndex(completed) - 1 \subseteq completed
  <1> DEFINE n == Cardinality(completed)
             open == 0 .. n \ completed
  <1>1. n \in Nat
    BY FS_CardinalityType
  <1>2. open # {}
    <2> SUFFICES ASSUME 0 .. n \subseteq completed PROVE FALSE
      OBVIOUS
    <2>1. Cardinality(0 .. n) = n + 1
      BY <1>1, FS_Interval
    <2>2. Cardinality(0 .. n) <= n
      BY FS_Subset
    <2> HIDE DEF n
    <2> QED BY <1>1, <2>1, <2>2
  <1>3. open \subseteq Nat
    BY <1>1
  <1> HIDE DEF n
  <1>4. \E x \in open : \A y \in open : x <= y
    <2> HIDE DEF open
    <2> QED BY <1>2, <1>3, HasLeast
  <1> DEFINE start == ClassCard!Min(open)
  <1>5. start \in open /\ \A y \in open : start <= y
    BY <1>4 DEF ClassCard!Min
  <1>6. start = ClassCard!ResumeStartIndex(completed)
    BY SameCardinality DEF ClassCard!ResumeStartIndex, n
  <1> HIDE DEF start
  <1>7. start \in Nat /\ 0 .. start - 1 \subseteq completed
    BY <1>1, <1>5
  <1> QED BY <1>6, <1>7

\* What was in the class stays there.
LEMMA CheckpointStays ==
  ASSUME CardCheckpointOK, UNCHANGED <<cardCheckpoint, cardBasis>>,
         \A s \in cardSets : s.inClass => \E t \in cardSets' : t.inClass /\ t.words = s.words
  PROVE  CardCheckpointOK'
  <1>1. \A i, plan : InTheClass(cardSets, i, plan) => InTheClass(cardSets', i, plan)
    BY DEF InTheClass
  <1> QED BY <1>1 DEF CardCheckpointOK

\* A command goes to another step.
LEMMA CardGoesTo ==
  ASSUME Uploading, CardPlanOK, NEW step, cardCmd' = [cardCmd EXCEPT !.step = step],
         \A s \in cardSets : s.inClass => \E t \in cardSets' : t.inClass /\ t.words = s.words
  PROVE  /\ Uploading' /\ CardPlanOK'
         /\ cardCmd'.kind = cardCmd.kind /\ cardCmd'.step = step /\ cardCmd'.plan = cardCmd.plan
         /\ cardCmd'.of = cardCmd.of /\ cardCmd'.done = cardCmd.done
         /\ ClassCard!NextPart' = ClassCard!NextPart
  <1>1. /\ cardCmd'.kind = cardCmd.kind /\ cardCmd'.step = step /\ cardCmd'.plan = cardCmd.plan
        /\ cardCmd'.of = cardCmd.of /\ cardCmd'.done = cardCmd.done
        /\ DOMAIN cardCmd' = DOMAIN cardCmd
    BY DEF CardPlanOK
  <1>2. \A i, plan : InTheClass(cardSets, i, plan) => InTheClass(cardSets', i, plan)
    BY DEF InTheClass
  <1> QED BY <1>1, <1>2 DEF CardPlanOK, Uploading, ClassCard!NextPart

\* A set made or moved to the class keeps the numbers in order.
LEMMA SetMade ==
  ASSUME CardSetsOK, NEW title, NEW words, NEW inClass,
         cardSets' = cardSets \cup {[nr |-> Cardinality(cardSets), title |-> title,
                                     words |-> words, inClass |-> inClass]}
  PROVE  /\ CardSetsOK'
         /\ \A s \in cardSets : s.inClass => \E t \in cardSets' : t.inClass /\ t.words = s.words
         /\ \E t \in cardSets' : /\ t.nr = Cardinality(cardSets') - 1 /\ t.words = words
                                 /\ t.inClass = inClass
  <1> DEFINE set == [nr |-> Cardinality(cardSets), title |-> title, words |-> words,
                     inClass |-> inClass]
  <1>1. /\ DOMAIN set = {"nr", "title", "words", "inClass"} /\ set.nr = Cardinality(cardSets)
        /\ set.words = words /\ set.inClass = inClass
    OBVIOUS
  <1>2. cardSets' = cardSets \cup {set}
    OBVIOUS
  <1> HIDE DEF set
  <1>3. IsFiniteSet(cardSets) /\ Cardinality(cardSets) \in Nat
    BY FS_CardinalityType DEF CardSetsOK
  <1>4. set \notin cardSets
    BY <1>1, <1>3 DEF CardSetsOK
  <1>5. IsFiniteSet(cardSets') /\ Cardinality(cardSets') = Cardinality(cardSets) + 1
    <2>1. IsFiniteSet(cardSets \cup {set})
          /\ Cardinality(cardSets \cup {set}) = Cardinality(cardSets) + 1
      BY <1>3, <1>4, FS_AddElement
    <2> QED BY <1>2, <2>1, Zenon
  <1>6. ASSUME NEW s \in cardSets'
        PROVE  DOMAIN s = {"nr", "title", "words", "inClass"} /\ s.nr \in Nat
               /\ s.nr < Cardinality(cardSets')
    <2>1. CASE s = set
      BY <1>1, <1>3, <1>5, <2>1
    <2>2. CASE s \in cardSets
      <3>1. /\ DOMAIN s = {"nr", "title", "words", "inClass"} /\ s.nr \in Nat
            /\ s.nr < Cardinality(cardSets)
        BY <2>2 DEF CardSetsOK
      <3> QED BY <1>3, <1>5, <3>1
    <2> QED BY <1>2, <2>1, <2>2
  <1>7. \A s, t \in cardSets' : s.nr = t.nr => s = t
    <2>1. \A s \in cardSets : s.nr # set.nr
      BY <1>1, <1>3 DEF CardSetsOK
    <2> QED BY <1>2, <2>1 DEF CardSetsOK
  <1>8. set.nr = Cardinality(cardSets') - 1
    BY <1>1, <1>3, <1>5
  <1> QED BY <1>1, <1>2, <1>5, <1>6, <1>7, <1>8 DEF CardSetsOK

LEMMA LastSetMoved ==
  ASSUME CardSetsOK, NEW last \in cardSets, last.nr = Cardinality(cardSets) - 1,
         cardSets' = {IF s.nr = Cardinality(cardSets) - 1 THEN [s EXCEPT !.inClass = TRUE] ELSE s :
                        s \in cardSets}
  PROVE  /\ CardSetsOK'
         /\ \A s \in cardSets : s.inClass => \E t \in cardSets' : t.inClass /\ t.words = s.words
         /\ \E t \in cardSets' : t.inClass /\ t.words = last.words
  <1> DEFINE moved == [last EXCEPT !.inClass = TRUE]
  <1>1. /\ DOMAIN moved = {"nr", "title", "words", "inClass"} /\ moved.nr = last.nr
        /\ moved.words = last.words /\ moved.inClass = TRUE
    BY DEF CardSetsOK
  <1>2. cardSets' = (cardSets \ {last}) \cup {moved}
    <2>1. \A s \in cardSets : s.nr = Cardinality(cardSets) - 1 <=> s = last
      BY DEF CardSetsOK
    <2> QED BY <2>1
  <1> HIDE DEF moved
  <1>3. IsFiniteSet(cardSets) /\ Cardinality(cardSets) \in Nat
    BY FS_CardinalityType DEF CardSetsOK
  <1>4. \A s \in cardSets \ {last} : s.nr # moved.nr
    BY <1>1 DEF CardSetsOK
  <1>5. IsFiniteSet(cardSets') /\ Cardinality(cardSets') = Cardinality(cardSets)
    <2>1. IsFiniteSet(cardSets \ {last})
          /\ Cardinality(cardSets \ {last}) = Cardinality(cardSets) - 1
      BY <1>3, FS_RemoveElement
    <2>2. moved \notin cardSets \ {last}
      BY <1>4
    <2>3. IsFiniteSet((cardSets \ {last}) \cup {moved})
          /\ Cardinality((cardSets \ {last}) \cup {moved}) = Cardinality(cardSets \ {last}) + 1
      BY <2>1, <2>2, FS_AddElement
    <2>4. Cardinality(cardSets') = Cardinality((cardSets \ {last}) \cup {moved})
          /\ IsFiniteSet(cardSets')
      BY <1>2, <2>3, Zenon
    <2> QED BY <1>3, <2>1, <2>3, <2>4
  <1>6. CardSetsOK'
    <2>1. \A s \in cardSets' : DOMAIN s = {"nr", "title", "words", "inClass"} /\ s.nr \in Nat
                               /\ s.nr < Cardinality(cardSets)
      BY <1>1, <1>2 DEF CardSetsOK
    <2>2. \A s, t \in cardSets' : s.nr = t.nr => s = t
      BY <1>1, <1>2, <1>4 DEF CardSetsOK
    <2> QED BY <1>5, <2>1, <2>2 DEF CardSetsOK
  <1>7. \A s \in cardSets : s.inClass => \E t \in cardSets' : t.inClass /\ t.words = s.words
    <2> SUFFICES ASSUME NEW s \in cardSets, s.inClass
                 PROVE  \E t \in cardSets' : t.inClass /\ t.words = s.words
      OBVIOUS
    <2>1. CASE s = last
      BY <1>1, <1>2, <2>1
    <2>2. CASE s # last
      BY <1>2, <2>2
    <2> QED BY <2>1, <2>2
  <1> QED BY <1>1, <1>2, <1>6, <1>7

\* The checkpoint says what the command knows.
LEMMA CheckpointWritten ==
  ASSUME CardInv, Uploading, UNCHANGED cardSets, NEW status,
         status = "completed" => ClassCard!Parts(cardCmd.plan) \subseteq cardCmd.done,
         ClassCard!WriteCheckpoint(status, cardCmd.done, cardCmd.of)
  PROVE  CardCheckpointOK'
  <1>1. /\ cardCheckpoint'.completed = cardCmd.done /\ cardCheckpoint'.status = status
        /\ cardBasis' = cardCmd.of
    BY DEF ClassCard!WriteCheckpoint
  <1>2. CardPlanOK
    BY DEF CardInv, CardCmdOK
  <1> QED BY <1>1, <1>2 DEF CardCheckpointOK, CardPlanOK

\* The part the command works on is in the class: it is done.
LEMMA PartDone ==
  ASSUME CardInv, Uploading, UNCHANGED cardSets, cardCmd.step \in {"find", "record"},
         InTheClass(cardSets, ClassCard!NextPart, cardCmd.plan),
         cardCmd' = [cardCmd EXCEPT !.step = "part", !.done = cardCmd.done \cup {ClassCard!NextPart}]
  PROVE  /\ CardCmdOK'
         /\ IsFiniteSet(cardCmd.done \cup {ClassCard!NextPart})
         /\ cardCmd.of # ClassCard!Mixed =>
              /\ cardCmd.of = cardCmd.plan
              /\ cardCmd.done \cup {ClassCard!NextPart} \subseteq ClassCard!Parts(cardCmd.plan)
              /\ \A i \in cardCmd.done \cup {ClassCard!NextPart} :
                   InTheClass(cardSets, i, cardCmd.plan)
  <1> DEFINE done == cardCmd.done \cup {ClassCard!NextPart}
  <1>1. CardPlanOK /\ CardPartOK
    BY DEF CardInv, CardCmdOK
  <1>2. ClassCard!NextPart \in ClassCard!Parts(cardCmd.plan)
    BY <1>1, NextPartIsOpen DEF CardPlanOK, CardPartOK
  <1>3. IsFiniteSet(done)
    BY <1>1, FS_AddElement DEF CardPlanOK
  <1>4. cardCmd.of # ClassCard!Mixed =>
          /\ cardCmd.of = cardCmd.plan /\ done \subseteq ClassCard!Parts(cardCmd.plan)
          /\ \A i \in done : InTheClass(cardSets, i, cardCmd.plan)
    BY <1>1, <1>2 DEF CardPlanOK
  <1>5. /\ cardCmd'.kind = cardCmd.kind /\ cardCmd'.step = "part" /\ cardCmd'.plan = cardCmd.plan
        /\ cardCmd'.of = cardCmd.of /\ cardCmd'.done = done /\ DOMAIN cardCmd' = DOMAIN cardCmd
    BY <1>1 DEF CardPlanOK
  <1> HIDE DEF done
  <1>6. Uploading' /\ CardPlanOK' /\ CardPartOK'
    BY <1>1, <1>3, <1>4, <1>5 DEF Uploading, CardPlanOK, CardPartOK
  <1>7. CardCmdOK'
    BY <1>5, <1>6 DEF CardCmdOK, Uploading
  <1> QED BY <1>3, <1>4, <1>7 DEF done

LEMMA CardStep == CardInv /\ [ClassCard!Next]_cardVars => CardInv'
  <1> SUFFICES ASSUME CardInv, [ClassCard!Next]_cardVars PROVE CardInv'
    OBVIOUS
  <1>0. /\ CardSetsOK /\ CardCheckpointOK /\ CardCmdOK /\ ClassCard!Parts(cardManifest) \subseteq Nat
        /\ Uploading => CardPlanOK /\ CardPartOK
    BY DEF CardInv, CardCmdOK
  <1>1. ASSUME UNCHANGED cardSets
        PROVE  /\ CardSetsOK'
               /\ \A s \in cardSets : s.inClass => \E t \in cardSets' : t.inClass /\ t.words = s.words
               /\ UNCHANGED <<cardCheckpoint, cardBasis>> => CardCheckpointOK'
    BY <1>0, <1>1, CheckpointStays DEF CardSetsOK
  <1>2. cardCmd' = ClassCard!NoCommand => CardCmdOK'
    BY DEF CardCmdOK, Uploading, ClassCard!NoCommand
\* A command begins.
  <1>3. ASSUME NEW kind \in {"upload", "resume", "direct"}, NEW step \in {"prepare", "part"},
               NEW plan, NEW of, NEW done, NEW execute,
               cardCmd' = [kind |-> kind, step |-> step, plan |-> plan, of |-> of, done |-> done,
                           execute |-> execute],
               UNCHANGED cardSets, ClassCard!Parts(plan) \subseteq Nat, IsFiniteSet(done),
               of # ClassCard!Mixed => /\ of = plan /\ done \subseteq ClassCard!Parts(plan)
                                       /\ \A i \in done : InTheClass(cardSets, i, plan)
        PROVE  CardCmdOK'
    <2>1. /\ cardCmd'.kind = kind /\ cardCmd'.step = step /\ cardCmd'.plan = plan
          /\ cardCmd'.of = of /\ cardCmd'.done = done
          /\ DOMAIN cardCmd' = {"kind", "step", "plan", "of", "done", "execute"}
      BY <1>3
    <2>2. Uploading' /\ CardPlanOK' /\ CardPartOK'
      BY <1>3, <2>1 DEF Uploading, CardPlanOK, CardPartOK
    <2> QED BY <1>3, <2>1, <2>2 DEF CardCmdOK
\* A command goes on, and no set is made.
  <1>4. ASSUME NEW step, Uploading, UNCHANGED cardSets, cardCmd' = [cardCmd EXCEPT !.step = step],
               step \notin {"add", "record"},
               step \in {"find", "create"} =>
                 ClassCard!Parts(cardCmd.plan) \ cardCmd.done # {}
        PROVE  CardCmdOK'
    <2>1. /\ Uploading' /\ CardPlanOK' /\ cardCmd'.kind = cardCmd.kind /\ cardCmd'.step = step
          /\ cardCmd'.plan = cardCmd.plan /\ cardCmd'.done = cardCmd.done
      BY <1>0, <1>1, <1>4, CardGoesTo
    <2> QED BY <1>4, <2>1 DEF CardCmdOK, CardPartOK, Uploading
  <1>5. cardCmd = ClassCard!NoCommand => ~Uploading
    BY DEF Uploading, ClassCard!NoCommand
  <1>6. ASSUME cardCmd.kind # "none",
               cardCmd.step \notin {"completed", "recovery_required"} \/ cardCmd.kind # "verify"
        PROVE  Uploading
    BY <1>0, <1>6 DEF CardCmdOK, Uploading
  <1>7. CASE ClassCard!AddWord
    BY <1>0, <1>1, <1>7 DEF ClassCard!AddWord, CardInv, CardCmdOK, Uploading, CardPlanOK, CardPartOK,
       ClassCard!NextPart
  <1>8. ASSUME NEW span \in Spans, NEW execute \in BOOLEAN, ClassCard!PrepareManifest(span, execute)
        PROVE  CardInv'
    <2> DEFINE plan == ClassCard!SplitEvenly(cardWords, span)
    <2>1. /\ cardManifest' = plan /\ UNCHANGED <<cardCheckpoint, cardSets, cardBasis>>
          /\ cardCmd' = [kind |-> "upload", step |-> "prepare", plan |-> plan, of |-> plan,
                         done |-> {}, execute |-> execute]
      BY <1>8 DEF ClassCard!PrepareManifest
    <2>2. ClassCard!Parts(plan) \subseteq Nat
      BY CardAssumption, PlansAreNumbered
    <2> HIDE DEF plan
    <2>3. CardCmdOK'
      BY <1>3, <2>1, <2>2, FS_EmptySet
    <2> QED BY <1>1, <2>1, <2>2, <2>3 DEF CardInv
  <1>9. CASE ClassCard!PrepareCheckpoint
    <2>1. /\ cardCmd.kind = "upload" /\ UNCHANGED <<cardManifest, cardSets>> /\ Uploading
          /\ cardCheckpoint'.completed = {} /\ cardCheckpoint'.status = "planned"
          /\ \/ cardCmd' = [cardCmd EXCEPT !.step = "part"]
             \/ cardCmd' = ClassCard!NoCommand
      BY <1>9 DEF ClassCard!PrepareCheckpoint, ClassCard!WriteCheckpoint, ClassCard!GoTo, Uploading
    <2>2. CardCmdOK'
      BY <1>2, <1>4, <2>1
    <2>3. CardCheckpointOK'
      BY <2>1, FS_EmptySet DEF CardCheckpointOK
    <2> QED BY <1>0, <1>1, <2>1, <2>2, <2>3 DEF CardInv
  <1>10. CASE ClassCard!Resume
    <2> DEFINE start == ClassCard!ResumeStartIndex(cardCheckpoint.completed)
               plan == ClassCard!SplitEvenly(cardWords, DefaultSpan)
               of == IF start = 0 \/ plan = cardBasis THEN plan ELSE ClassCard!Mixed
               done == IF start = 0 THEN {} ELSE 0 .. start - 1
    <2>1. /\ UNCHANGED <<cardManifest, cardCheckpoint, cardSets, cardBasis>>
          /\ cardCmd' = [kind |-> "resume", step |-> "part", plan |-> plan, of |-> of,
                         done |-> done, execute |-> TRUE]
      BY <1>10 DEF ClassCard!Resume
    <2>2. ClassCard!Parts(plan) \subseteq Nat
      BY CardAssumption, PlansAreNumbered
    <2>3. start \in Nat /\ 0 .. start - 1 \subseteq cardCheckpoint.completed
      BY <1>0, PartsBefore DEF CardCheckpointOK
    <2> HIDE DEF start, plan
    <2>4. IsFiniteSet(done) /\ done \subseteq cardCheckpoint.completed /\ (start = 0 => done = {})
      BY <2>3, FS_EmptySet, FS_Interval
    <2> HIDE DEF done
    <2>5. of # ClassCard!Mixed => /\ of = plan /\ done \subseteq ClassCard!Parts(plan)
                                  /\ \A i \in done : InTheClass(cardSets, i, plan)
      BY <1>0, <2>4 DEF CardCheckpointOK
    <2> HIDE DEF of
    <2>6. CardCmdOK'
      BY <1>3, <2>1, <2>2, <2>4, <2>5
    <2> QED BY <1>0, <1>1, <2>1, <2>6 DEF CardInv
  <1>11. CASE ClassCard!DirectUpload
    <2>1. /\ UNCHANGED <<cardManifest, cardCheckpoint, cardSets, cardBasis>>
          /\ cardCmd' = [kind |-> "direct", step |-> "part", plan |-> cardManifest,
                         of |-> cardManifest, done |-> {}, execute |-> TRUE]
      BY <1>11 DEF ClassCard!DirectUpload
    <2>2. CardCmdOK'
      BY <1>0, <1>3, <2>1, FS_EmptySet
    <2> QED BY <1>0, <1>1, <2>1, <2>2 DEF CardInv
  <1>12. CASE ClassCard!Recover
    <2>1. /\ UNCHANGED <<cardManifest, cardSets, cardCmd, cardBasis>>
          /\ cardCheckpoint'.completed = cardCheckpoint.completed
          /\ cardCheckpoint'.status = "recovered"
      BY <1>12 DEF ClassCard!Recover, ClassCard!WriteCheckpoint
    <2>2. CardCheckpointOK'
      BY <1>0, <2>1 DEF CardCheckpointOK
    <2>3. CardCmdOK'
      BY <1>0, <2>1 DEF CardCmdOK, Uploading, CardPlanOK, CardPartOK, ClassCard!NextPart
    <2> QED BY <1>0, <1>1, <2>1, <2>2, <2>3 DEF CardInv
  <1>13. CASE ClassCard!WritePart
    <2>1. /\ cardCmd.kind # "none" /\ cardCmd.step = "part" /\ UNCHANGED <<cardManifest, cardSets>>
          /\ ClassCard!Parts(cardCmd.plan) \ cardCmd.done # {}
          /\ ClassCard!WriteCheckpoint("uploading", cardCmd.done, cardCmd.of)
          /\ \/ cardCmd' = [cardCmd EXCEPT !.step = "find"]
             \/ cardCmd' = [cardCmd EXCEPT !.step = "create"]
      BY <1>13 DEF ClassCard!WritePart, ClassCard!GoTo
    <2>2. CardCheckpointOK' /\ CardCmdOK'
      BY <1>4, <1>6, <2>1, CheckpointWritten
    <2> QED BY <1>0, <1>1, <2>1, <2>2 DEF CardInv
  <1>14. CASE ClassCard!FindSet
    <2>1. /\ cardCmd.kind = "direct" /\ cardCmd.step = "find" /\ Uploading
          /\ UNCHANGED <<cardManifest, cardCheckpoint, cardSets, cardBasis>>
      BY <1>14 DEF ClassCard!FindSet, Uploading
    <2>2. \/ cardCmd' = [cardCmd EXCEPT !.step = "create"]
          \/ cardCmd' = ClassCard!NoCommand
          \/ /\ InTheClass(cardSets, ClassCard!NextPart, cardCmd.plan)
             /\ cardCmd' = [cardCmd EXCEPT !.step = "part",
                                           !.done = cardCmd.done \cup {ClassCard!NextPart}]
      BY <1>14 DEF ClassCard!FindSet, ClassCard!GoTo, ClassCard!Shows, InTheClass
    <2>3. CardCmdOK'
      BY <1>0, <1>2, <1>4, <2>1, <2>2, PartDone DEF CardPartOK
    <2> QED BY <1>0, <1>1, <2>1, <2>3 DEF CardInv
  <1>15. ASSUME NEW added \in BOOLEAN, ClassCard!CreateSet(added) PROVE CardInv'
    <2>0. PICK i, w, c :
            i = ClassCard!NextPart /\ w = cardCmd.plan[i] /\ c = added
      OBVIOUS
    <2> DEFINE set == [nr |-> Cardinality(cardSets), title |-> i, words |-> w, inClass |-> c]
    <2>1. /\ Uploading /\ cardCmd.step = "create" /\ cardSets' = cardSets \cup {set}
          /\ UNCHANGED <<cardManifest, cardCheckpoint, cardBasis>>
          /\ \/ added /\ cardCmd' = [cardCmd EXCEPT !.step = "record"]
             \/ cardCmd' = ClassCard!NoCommand
             \/ cardCmd' = [cardCmd EXCEPT !.step = "add"]
      BY <1>6, <1>15, <2>0, SameCardinality DEF ClassCard!CreateSet, ClassCard!GoTo
    <2>2. /\ CardSetsOK'
          /\ \A s \in cardSets : s.inClass => \E t \in cardSets' : t.inClass /\ t.words = s.words
          /\ \E t \in cardSets' : /\ t.nr = Cardinality(cardSets') - 1
                                  /\ t.words = w
                                  /\ t.inClass = c
      <3>1. CardSetsOK
        BY <1>0
      <3>2. cardSets' = cardSets \cup {set}
        BY <2>1
      <3>3. \E t \in cardSets' : /\ t.nr = Cardinality(cardSets') - 1
                               /\ t.words = w
                               /\ t.inClass = c
        BY <3>1, <3>2, SetMade
      <3> QED BY <3>1, <3>2, <3>3, SetMade
    <2> HIDE DEF set
    <2>3. ASSUME cardCmd' # ClassCard!NoCommand PROVE CardCmdOK'
      <3>1. \/ added /\ cardCmd' = [cardCmd EXCEPT !.step = "record"]
            \/ cardCmd' = [cardCmd EXCEPT !.step = "add"]
        BY <2>1, <2>3
      <3>2. /\ Uploading' /\ CardPlanOK'
            /\ cardCmd'.kind = cardCmd.kind /\ cardCmd'.plan = cardCmd.plan
            /\ cardCmd'.done = cardCmd.done /\ ClassCard!NextPart' = ClassCard!NextPart
            /\ \/ added /\ cardCmd'.step = "record"
               \/ cardCmd'.step = "add"
        BY <1>0, <2>1, <2>2, <3>1, CardGoesTo
      <3>3. ClassCard!Parts(cardCmd'.plan) \ cardCmd'.done # {}
        BY <1>0, <2>1, <3>2 DEF CardPartOK
      <3>4. cardCmd'.plan[ClassCard!NextPart'] = w
        BY <2>0, <3>2
      <3>5. added => InTheClass(cardSets', ClassCard!NextPart', cardCmd'.plan)
        BY <2>0, <2>2, <3>4 DEF InTheClass
      <3>6. \E t \in cardSets' : /\ t.nr = Cardinality(cardSets') - 1
                               /\ t.words = cardCmd'.plan[ClassCard!NextPart']
        BY <2>2, <3>4, Zenon
      <3>7. CardPartOK'
        BY <3>2, <3>3, <3>5, <3>6, Zenon DEF CardPartOK
      <3> QED BY <3>2, <3>7 DEF CardCmdOK, Uploading
    <2> QED BY <1>0, <1>2, <2>1, <2>2, <2>3, CheckpointStays DEF CardInv
  <1>16. CASE ClassCard!AddToClass
    <2>1. /\ Uploading /\ cardCmd.step = "add"
          /\ cardSets' = {IF s.nr = Cardinality(cardSets) - 1 THEN [s EXCEPT !.inClass = TRUE]
                          ELSE s : s \in cardSets}
          /\ cardCmd' = [cardCmd EXCEPT !.step = "record"]
          /\ UNCHANGED <<cardManifest, cardCheckpoint, cardBasis>>
      BY <1>6, <1>16, SameCardinality DEF ClassCard!AddToClass, ClassCard!GoTo
    <2>2. PICK last \in cardSets :
            last.nr = Cardinality(cardSets) - 1 /\ last.words = cardCmd.plan[ClassCard!NextPart]
      BY <1>0, <2>1 DEF CardPartOK
    <2>3. /\ CardSetsOK'
          /\ \A s \in cardSets : s.inClass => \E t \in cardSets' : t.inClass /\ t.words = s.words
          /\ \E t \in cardSets' : t.inClass /\ t.words = last.words
      BY <1>0, <2>1, <2>2, LastSetMoved
    <2>4. /\ Uploading' /\ CardPlanOK'
          /\ cardCmd'.kind = cardCmd.kind /\ cardCmd'.plan = cardCmd.plan
          /\ cardCmd'.done = cardCmd.done /\ ClassCard!NextPart' = ClassCard!NextPart
          /\ cardCmd'.step = "record"
      BY <1>0, <2>1, <2>3, CardGoesTo
    <2>5. CardPartOK'
      BY <1>0, <2>1, <2>2, <2>3, <2>4 DEF CardPartOK, InTheClass
    <2>6. CardCmdOK'
      BY <2>4, <2>5 DEF CardCmdOK, Uploading
    <2> QED BY <1>0, <2>1, <2>3, <2>6, CheckpointStays DEF CardInv
  <1>17. CASE ClassCard!RecordPart
    <2> DEFINE done == cardCmd.done \cup {ClassCard!NextPart}
    <2>1. /\ Uploading /\ cardCmd.step = "record" /\ UNCHANGED <<cardManifest, cardSets>>
          /\ cardCheckpoint'.status = "part_completed" /\ cardCheckpoint'.completed = done
          /\ cardBasis' = cardCmd.of
          /\ cardCmd' = [cardCmd EXCEPT !.step = "part", !.done = done]
      BY <1>6, <1>17 DEF ClassCard!RecordPart, ClassCard!WriteCheckpoint
    <2>2. /\ CardCmdOK' /\ IsFiniteSet(done)
          /\ cardCmd.of # ClassCard!Mixed =>
               /\ cardCmd.of = cardCmd.plan /\ done \subseteq ClassCard!Parts(cardCmd.plan)
               /\ \A i \in done : InTheClass(cardSets, i, cardCmd.plan)
      BY <1>0, <2>1, PartDone DEF CardPartOK
    <2> HIDE DEF done
    <2>3. CardCheckpointOK'
      BY <2>1, <2>2 DEF CardCheckpointOK
    <2> QED BY <1>0, <1>1, <2>1, <2>2, <2>3 DEF CardInv
  <1>18. CASE ClassCard!Finish
    <2>1. /\ Uploading /\ UNCHANGED <<cardManifest, cardSets>>
          /\ ClassCard!Parts(cardCmd.plan) \subseteq cardCmd.done
          /\ ClassCard!WriteCheckpoint("completed", cardCmd.done, cardCmd.of)
          /\ \/ cardCmd' = ClassCard!NoCommand
             \/ cardCmd' = [cardCmd EXCEPT !.step = "completed"]
      BY <1>6, <1>18 DEF ClassCard!Finish, ClassCard!GoTo
    <2>2. CardCheckpointOK' /\ CardCmdOK'
      BY <1>2, <1>4, <2>1, CheckpointWritten
    <2> QED BY <1>0, <1>1, <2>1, <2>2 DEF CardInv
  <1>19. CASE ClassCard!FailPart
    <2>1. /\ Uploading /\ UNCHANGED <<cardManifest, cardSets, cardBasis>>
          /\ cardCheckpoint'.completed = cardCheckpoint.completed
          /\ cardCheckpoint'.status = "recovery_required"
          /\ cardCmd' = [cardCmd EXCEPT !.step = "recovery_required"]
      BY <1>19 DEF ClassCard!FailPart, ClassCard!WriteCheckpoint, ClassCard!GoTo, Uploading
    <2>2. CardCheckpointOK' /\ CardCmdOK'
      BY <1>0, <1>4, <2>1 DEF CardCheckpointOK
    <2> QED BY <1>0, <1>1, <2>1, <2>2 DEF CardInv
  <1>20. CASE ClassCard!UpdateRow
    BY <1>0, <1>1, <1>2, <1>20 DEF ClassCard!UpdateRow, CardInv
  <1>21. ASSUME NEW found \in SUBSET (0 .. DefaultSpan - 1), ClassCard!Verify(found) PROVE CardInv'
    <2> DEFINE plan == ClassCard!SplitEvenly(cardWords, DefaultSpan)
               status == IF found = ClassCard!Parts(plan) THEN "completed" ELSE "recovery_required"
    <2>1. /\ UNCHANGED <<cardManifest, cardSets>> /\ found \subseteq ClassCard!Parts(plan)
          /\ cardCheckpoint'.completed = found /\ cardCheckpoint'.status = status
          /\ cardBasis' = IF \A i \in found : InTheClass(cardSets, i, plan)
                          THEN plan ELSE ClassCard!Mixed
          /\ cardCmd' = [kind |-> "verify", step |-> status]
      BY <1>21 DEF ClassCard!Verify, ClassCard!WriteCheckpoint, InTheClass
    <2> HIDE DEF plan
    <2>2. IsFiniteSet(found)
      <3>1. 0 \in Int /\ DefaultSpan - 1 \in Int
        BY CardAssumption
      <3> QED BY <3>1, FS_Interval, FS_Subset
    <2>3. CardCheckpointOK'
      BY <2>1, <2>2 DEF CardCheckpointOK
    <2>4. CardCmdOK'
      BY <2>1 DEF CardCmdOK, Uploading
    <2> QED BY <1>0, <1>1, <2>1, <2>3, <2>4 DEF CardInv
  <1>22. ASSUME NEW writing \in BOOLEAN, ClassCard!Kill(writing) PROVE CardInv'
    <2>1. /\ cardCmd' = ClassCard!NoCommand /\ UNCHANGED <<cardManifest, cardSets>>
          /\ \/ UNCHANGED <<cardCheckpoint, cardBasis>>
             \/ cardCheckpoint'.completed = {} /\ cardCheckpoint'.status = "torn"
      BY <1>22 DEF ClassCard!Kill, ClassCard!WriteCheckpoint
    <2>2. CardCheckpointOK'
      BY <1>1, <2>1, FS_EmptySet DEF CardCheckpointOK
    <2> QED BY <1>0, <1>1, <1>2, <2>1, <2>2 DEF CardInv
  <1>23. CASE UNCHANGED cardVars
    BY <1>0, <1>1, <1>23 DEF cardVars, CardInv, CardCmdOK, Uploading, CardPlanOK, CardPartOK,
       ClassCard!NextPart
  <1> QED
    BY <1>7, <1>8, <1>9, <1>10, <1>11, <1>12, <1>13, <1>14, <1>15, <1>16, <1>17, <1>18, <1>19, <1>20,
       <1>21, <1>22, <1>23 DEF ClassCard!Next

(* For any words, spans and sets: what the checkpoint calls completed is   *)
(* in the class with its very words, and an upload only when all its parts *)
(* are, unless indexes of one plan were carried over to another or verify  *)
(* took a set of other words for a part (run_classcard_upload_sequence,    *)
(* resume_execute_upload, record_verification_result).                     *)
THEOREM UploadsHold == ProfileSpec => []CompletedIsInTheClass
  <1>1. CardInv => ClassCard!CompletedIsInTheClass
    BY DEF CardInv, CardCheckpointOK, InTheClass, ClassCard!CompletedIsInTheClass
  <1>2. CardInv => CompletedIsInTheClass
    BY <1>1 DEF CompletedIsInTheClass
  <1>3. ProfileInit => CardInv
    BY CardInit DEF ProfileInit
  <1>4. CardInv /\ [ClassCard!Next]_cardVars => CardInv'
    BY CardStep
  <1> QED BY <1>2, <1>3, <1>4, PartsRun, PTL DEF ProfileSpec

-----------------------------------------------------------------------------
(* The schedule.                                                           *)

\* The pieces of a log are in the order they were made.
Pieces(c) == [run : 1..c, part : Nat \ {0}]
Earlier(t, u) == t.run < u.run \/ (t.run = u.run /\ t.part < u.part)
InOrder(text, c) ==
  /\ text \in Seq(Pieces(c))
  /\ \A i, j \in 1..Len(text) : i < j => Earlier(text[i], text[j])

\* Each run between two pieces begins there.
NoGap(text) ==
  \A i, j \in 1..Len(text) : \A n \in Nat :
    i < j /\ text[i].run < n /\ n <= text[j].run =>
      \E k \in 1..Len(text) : i < k /\ k <= j /\ text[k].run = n /\ text[k].part = 1

EndsWith(text, c) ==
  Len(text) > 0 => text[Len(text)].run = c /\ text[Len(text)].part = LineSize[c]

\* Plans are approved with the command line that is handed over.
JobsOK ==
  /\ \A plan \in DOMAIN jobStatus :
       /\ jobStatus[plan] = [is |-> jobStatus[plan].is, shown |-> plan.argv]
       /\ jobStatus[plan].is = "approved" => plan.argv \in jobGranted
  /\ jobs \subseteq jobGranted

Busy(p) == jobProc[p].step # "none"
LogOK ==
  /\ jobCount \in 0..MaxRuns /\ jobQuiet \in BOOLEAN /\ InOrder(jobLog, jobCount)
  /\ DOMAIN jobProc = Procs
  /\ \A p \in Procs :
       \/ jobProc[p] = Jobs!Idle
       \/ /\ jobProc[p].step \in {"open", "write"}
          /\ jobProc[p] = [step |-> jobProc[p].step, text |-> jobProc[p].text]
          /\ InOrder(jobProc[p].text, jobCount)

\* Without kills and overlaps.
QuietOK ==
  /\ NoGap(jobLog)
  /\ (\A p \in Procs : ~Busy(p)) => EndsWith(jobLog, jobCount)
  /\ \A p \in Procs : Busy(p) =>
       /\ NoGap(jobProc[p].text) /\ EndsWith(jobProc[p].text, jobCount)
       /\ \A q \in Procs : Busy(q) => q = p

JobInv == JobsOK /\ LogOK /\ (jobQuiet => QuietOK)

LEMMA JobInit == Jobs!Init => JobInv
  <1> SUFFICES ASSUME Jobs!Init PROVE JobInv
    OBVIOUS
  <1>1. JobsOK
    BY DEF Jobs!Init, JobsOK
  <1>2. InOrder(<<>>, 0) /\ NoGap(<<>>) /\ EndsWith(<<>>, 0)
    BY DEF InOrder, NoGap, EndsWith
  <1>3. LogOK
    BY <1>2, ScheduleAssumption DEF ScheduleAssumption, Jobs!Init, LogOK
  <1>4. \A p \in Procs : ~Busy(p)
    BY DEF Jobs!Init, Busy, Jobs!Idle
  <1>5. QuietOK
    BY <1>2, <1>4 DEF Jobs!Init, QuietOK
  <1> QED BY <1>1, <1>3, <1>5 DEF JobInv

\* Part of a text that leaves nothing out.
LEMMA Excerpt ==
  ASSUME NEW c \in Nat, NEW text, InOrder(text, c), NEW m \in 1..(Len(text) + 1), NEW n \in 0..Len(text)
  PROVE  LET rest == SubSeq(text, m, n) IN
         /\ InOrder(rest, c)
         /\ NoGap(text) => NoGap(rest)
         /\ n = Len(text) /\ EndsWith(text, c) => EndsWith(rest, c)
  <1> DEFINE excerpt == SubSeq(text, m, n)
             size == IF m <= n THEN n - m + 1 ELSE 0
  <1>1. text \in Seq(Pieces(c)) /\ Len(text) \in Nat
    BY DEF InOrder
  <1>2. /\ excerpt \in Seq(Pieces(c)) /\ Len(excerpt) = size /\ size \in Nat
        /\ \A i \in 1..size : excerpt[i] = text[m + i - 1]
    BY <1>1, SubSeqProperties
  <1>3. \A i \in 1..size : m + i - 1 \in 1..Len(text)
    BY <1>1
  <1> HIDE DEF excerpt, size
  <1>4. InOrder(excerpt, c)
    <2> SUFFICES ASSUME NEW i \in 1..size, NEW j \in 1..size, i < j PROVE Earlier(excerpt[i], excerpt[j])
      BY <1>2 DEF InOrder
    <2>1. m + i - 1 < m + j - 1
      BY <1>2
    <2> QED BY <1>2, <1>3, <2>1 DEF InOrder
  <1>5. ASSUME NoGap(text) PROVE NoGap(excerpt)
    <2> SUFFICES ASSUME NEW i \in 1..Len(excerpt), NEW j \in 1..Len(excerpt), NEW r \in Nat, i < j,
                        excerpt[i].run < r, r <= excerpt[j].run
                 PROVE  \E k \in 1..Len(excerpt) : /\ i < k /\ k <= j /\ excerpt[k].run = r
                                                   /\ excerpt[k].part = 1
      BY DEF NoGap
    <2>1. m + i - 1 < m + j - 1
      BY <1>2
    <2>2. PICK l \in 1..Len(text) : /\ m + i - 1 < l /\ l <= m + j - 1
                                    /\ text[l].run = r /\ text[l].part = 1
      BY <1>2, <1>3, <1>5, <2>1 DEF NoGap
    <2>3. l - m + 1 \in 1..Len(excerpt) /\ i < l - m + 1 /\ l - m + 1 <= j /\ m + (l - m + 1) - 1 = l
      BY <1>1, <1>2, <2>2
    <2>4. excerpt[l - m + 1] = text[l]
      BY <1>2, <2>3
    <2> QED BY <2>2, <2>3, <2>4
  <1>6. ASSUME n = Len(text), EndsWith(text, c) PROVE EndsWith(excerpt, c)
    <2> SUFFICES ASSUME size > 0 PROVE excerpt[size].run = c /\ excerpt[size].part = LineSize[c]
      BY <1>2 DEF EndsWith
    <2>1. m + size - 1 = Len(text) /\ size \in 1..size /\ Len(text) > 0
      BY <1>1, <1>2, <1>6 DEF size
    <2>2. excerpt[size] = text[Len(text)]
      BY <1>2, <2>1
    <2> QED BY <1>6, <2>1, <2>2 DEF EndsWith
  <1> QED BY <1>4, <1>5, <1>6 DEF excerpt

\* The line of the next run, put behind a text.
LEMMA LineAdded ==
  ASSUME NEW c \in Nat, c + 1 \in 1..MaxRuns, NEW text, InOrder(text, c)
  PROVE  LET longer == text \o Jobs!Line(c + 1) IN
         /\ InOrder(longer, c + 1) /\ EndsWith(longer, c + 1)
         /\ NoGap(text) /\ EndsWith(text, c) => NoGap(longer)
  <1> DEFINE line == Jobs!Line(c + 1)
             n == LineSize[c + 1]
             m == Len(text)
             longer == text \o line
  <1>1. n \in Nat \ {0}
    BY ScheduleAssumption DEF ScheduleAssumption
  <1>2. text \in Seq(Pieces(c)) /\ m \in Nat
    BY DEF InOrder
  <1>3. text \in Seq(Pieces(c + 1))
    <2>1. Pieces(c) \subseteq Pieces(c + 1)
      BY DEF Pieces
    <2> QED BY <1>2, <2>1, SeqMonotonic
  <1>4. /\ line \in Seq(Pieces(c + 1)) /\ Len(line) = n
        /\ \A i \in 1..n : line[i].run = c + 1 /\ line[i].part = i
    <2>1. line = [i \in 1..n |-> [run |-> c + 1, part |-> i]]
      BY DEF Jobs!Line
    <2>2. \A i \in 1..n : [run |-> c + 1, part |-> i] \in Pieces(c + 1)
      BY <1>1 DEF Pieces
    <2> HIDE DEF line, n
    <2> QED BY <1>1, <2>1, <2>2
  <1> HIDE DEF line, n, m
  <1>5. /\ longer \in Seq(Pieces(c + 1)) /\ Len(longer) = m + n
        /\ \A i \in 1..(m + n) : longer[i] = IF i <= m THEN text[i] ELSE line[i - m]
    BY <1>3, <1>4, ConcatProperties DEF m
  <1> HIDE DEF longer
  <1>6. \A i \in 1..m : longer[i] = text[i] /\ text[i].run \in 1..c /\ text[i].part \in Nat \ {0}
    <2> SUFFICES ASSUME NEW i \in 1..m
                 PROVE  longer[i] = text[i] /\ text[i].run \in 1..c /\ text[i].part \in Nat \ {0}
      OBVIOUS
    <2>1. text[i] \in Pieces(c)
      BY <1>2 DEF m
    <2>2. i \in 1..(m + n) /\ i <= m
      BY <1>1, <1>2
    <2> QED BY <1>5, <2>1, <2>2 DEF Pieces
  <1>7. \A i \in (m + 1)..(m + n) : longer[i].run = c + 1 /\ longer[i].part = i - m
    <2> SUFFICES ASSUME NEW i \in (m + 1)..(m + n)
                 PROVE  longer[i].run = c + 1 /\ longer[i].part = i - m
      OBVIOUS
    <2>1. i \in 1..(m + n) /\ ~(i <= m) /\ i - m \in 1..n
      BY <1>1, <1>2
    <2> QED BY <1>4, <1>5, <2>1
  <1>8. ASSUME NEW i \in 1..(m + n) PROVE i \in 1..m \/ i \in (m + 1)..(m + n)
    BY <1>1, <1>2
  <1>9. InOrder(longer, c + 1)
    <2> SUFFICES ASSUME NEW i \in 1..(m + n), NEW j \in 1..(m + n), i < j
                 PROVE  Earlier(longer[i], longer[j])
      BY <1>5 DEF InOrder
    <2>1. CASE i \in 1..m /\ j \in 1..m
      BY <1>6, <2>1 DEF InOrder, m
    <2>2. CASE i \in 1..m /\ j \in (m + 1)..(m + n)
      BY <1>6, <1>7, <2>2 DEF Earlier
    <2>3. CASE i \in (m + 1)..(m + n) /\ j \in (m + 1)..(m + n)
      <3>1. i - m < j - m
        BY <1>1, <1>2
      <3> QED BY <1>7, <2>3, <3>1 DEF Earlier
    <2>4. ~(i \in (m + 1)..(m + n) /\ j \in 1..m)
      BY <1>1, <1>2
    <2> QED BY <1>8, <2>1, <2>2, <2>3, <2>4
  <1>10. EndsWith(longer, c + 1)
    <2>1. m + n \in (m + 1)..(m + n) /\ m + n - m = n
      BY <1>1, <1>2
    <2>2. longer[m + n].run = c + 1 /\ longer[m + n].part = n
      BY <1>1, <1>2, <1>7, <2>1
    <2> QED BY <1>5, <2>2 DEF EndsWith, n
  <1>11. ASSUME NoGap(text), EndsWith(text, c) PROVE NoGap(longer)
    <2> SUFFICES ASSUME NEW i \in 1..(m + n), NEW j \in 1..(m + n), NEW r \in Nat, i < j,
                        longer[i].run < r, r <= longer[j].run
                 PROVE  \E k \in 1..(m + n) : /\ i < k /\ k <= j /\ longer[k].run = r
                                              /\ longer[k].part = 1
      BY <1>5 DEF NoGap
    <2>1. CASE j \in 1..m
      <3>1. i \in 1..m /\ text[i].run < r /\ r <= text[j].run
        BY <1>2, <1>6, <2>1
      <3>2. PICK k \in 1..m : i < k /\ k <= j /\ text[k].run = r /\ text[k].part = 1
        BY <1>11, <2>1, <3>1 DEF NoGap, m
      <3> QED
        <4>1. k \in 1..(m + n)
          BY <1>1, <1>2
        <4> QED BY <1>6, <3>2, <4>1
    <2>2. CASE j \in (m + 1)..(m + n)
      <3>1. longer[j].run = c + 1
        BY <1>7, <2>2
      <3>2. i \in 1..m
        BY <1>7, <1>8, <3>1
      <3>3. CASE r = c + 1
        <4>1. m + 1 \in (m + 1)..(m + n) /\ m + 1 - m = 1 /\ i < m + 1 /\ m + 1 <= j /\ m + 1 \in 1..(m + n)
          BY <1>1, <1>2, <2>2, <3>2
        <4>2. longer[m + 1].run = c + 1 /\ longer[m + 1].part = 1
          BY <1>1, <1>2, <1>7, <4>1
        <4> QED BY <3>3, <4>1, <4>2
      <3>4. CASE r <= c
        <4>1. m \in 1..m /\ m > 0 /\ text[m].run = c
          BY <1>2, <1>11, <3>2 DEF EndsWith, m
        <4>2. text[i].run < r /\ r <= text[m].run
          BY <1>6, <3>2, <3>4, <4>1
        <4>3. i < m
          BY <1>2, <1>6, <3>2, <4>1, <4>2
        <4>4. PICK k \in 1..m : i < k /\ k <= m /\ text[k].run = r /\ text[k].part = 1
          BY <1>11, <3>2, <4>1, <4>2, <4>3 DEF NoGap, m
        <4>5. k \in 1..(m + n) /\ k <= j
          BY <1>1, <1>2, <2>2, <4>4
        <4> QED BY <1>6, <4>4, <4>5
      <3> QED BY <3>1, <3>3, <3>4
    <2> QED BY <1>8, <2>1, <2>2
  <1> QED BY <1>9, <1>10, <1>11 DEF longer, line


LEMMA LaterRuns ==
  ASSUME NEW c \in Nat, NEW text, InOrder(text, c) PROVE InOrder(text, c + 1)
  <1>1. Pieces(c) \subseteq Pieces(c + 1)
    BY DEF Pieces
  <1>2. text \in Seq(Pieces(c + 1))
    BY <1>1, SeqMonotonic DEF InOrder
  <1> QED BY <1>2 DEF InOrder

\* What a run-now makes of the log it read.
LEMMA NextText ==
  ASSUME NEW c \in Nat, c + 1 \in 1..MaxRuns, NEW text, InOrder(text, c)
  PROVE  LET next == Jobs!Cut(text \o Jobs!Line(c + 1)) IN
         /\ InOrder(next, c + 1)
         /\ EndsWith(next, c + 1)
         /\ NoGap(text) /\ EndsWith(text, c) => NoGap(next)
  <1> DEFINE longer == text \o Jobs!Line(c + 1)
  <1>1. /\ InOrder(longer, c + 1) /\ EndsWith(longer, c + 1)
        /\ NoGap(text) /\ EndsWith(text, c) => NoGap(longer)
    BY LineAdded
  <1> HIDE DEF longer
  <1>2. Len(longer) \in Nat /\ MaxLog \in Nat
    BY <1>1, ScheduleAssumption DEF InOrder, ScheduleAssumption
  <1>3. CASE Len(longer) <= MaxLog
    <2>1. Jobs!Cut(longer) = longer
      BY <1>3 DEF Jobs!Cut
    <2> QED BY <1>1, <2>1 DEF longer
  <1>4. CASE ~(Len(longer) <= MaxLog)
    <2> DEFINE m == Len(longer) - MaxLog + 1
               n == Len(longer)
    <2>1. Jobs!Cut(longer) = SubSeq(longer, m, n)
      BY <1>4 DEF Jobs!Cut
    <2>2. m \in 1..(Len(longer) + 1) /\ n \in 0..Len(longer)
      BY <1>2, <1>4
    <2>3. n = Len(longer)
      OBVIOUS
    <2> HIDE DEF m, n
    <2>4. /\ InOrder(SubSeq(longer, m, n), c + 1)
          /\ NoGap(longer) => NoGap(SubSeq(longer, m, n))
          /\ EndsWith(longer, c + 1) => EndsWith(SubSeq(longer, m, n), c + 1)
      BY <1>1, <2>2, <2>3, Excerpt
    <2> QED BY <1>1, <2>1, <2>4 DEF longer
  <1> QED BY <1>3, <1>4

LEMMA JobStep == JobInv /\ [Jobs!Next]_jobVars => JobInv'
  <1> SUFFICES ASSUME JobInv, [Jobs!Next]_jobVars PROVE JobInv'
    OBVIOUS
  <1>1. JobsOK /\ LogOK /\ (jobQuiet => QuietOK)
    BY DEF JobInv
  <1>2. ASSUME UNCHANGED <<jobStatus, jobGranted, jobs>> PROVE JobsOK'
    BY <1>1, <1>2 DEF JobsOK
  <1>3. ASSUME UNCHANGED <<jobLog, jobCount, jobQuiet, jobProc>>
        PROVE  LogOK' /\ (jobQuiet' => QuietOK')
    BY <1>1, <1>3 DEF LogOK, QuietOK, Busy
  <1>4. ASSUME NEW request \in Requests, NEW folder \in Folders, Jobs!Register(request, folder)
        PROVE  JobInv'
    <2> DEFINE plan == Jobs!PlanOf(request, folder)
    <2>1. plan.argv = Jobs!ActionOf(request, folder)
      BY DEF Jobs!PlanOf
    <2>2. ASSUME Jobs!HasStatus(plan, "approved") PROVE JobsOK'
      <3>1. jobs' = jobs \cup {plan.argv} /\ UNCHANGED <<jobStatus, jobGranted>>
        BY <1>4, <2>1, <2>2 DEF Jobs!Register
      <3> HIDE DEF plan
      <3>2. plan.argv \in jobGranted
        BY <1>1, <2>2 DEF Jobs!HasStatus, JobsOK
      <3> QED BY <1>1, <3>1, <3>2 DEF JobsOK
    <2>3. ASSUME ~Jobs!HasStatus(plan, "approved") PROVE JobsOK'
      <3>1. /\ UNCHANGED <<jobs, jobGranted>>
            /\ jobStatus' = IF plan \in DOMAIN jobStatus THEN jobStatus
                            ELSE [q \in DOMAIN jobStatus \cup {plan} |->
                                    IF q = plan THEN [is |-> "planned", shown |-> plan.argv]
                                    ELSE jobStatus[q]]
        BY <1>4, <2>1, <2>3 DEF Jobs!Register
      <3> HIDE DEF plan
      <3>2. CASE plan \in DOMAIN jobStatus
        BY <1>1, <3>1, <3>2 DEF JobsOK
      <3>3. CASE plan \notin DOMAIN jobStatus
        <4>1. /\ DOMAIN jobStatus' = DOMAIN jobStatus \cup {plan}
              /\ jobStatus'[plan] = [is |-> "planned", shown |-> plan.argv]
              /\ \A q \in DOMAIN jobStatus : jobStatus'[q] = jobStatus[q]
          BY <3>1, <3>3
        <4> QED BY <1>1, <3>1, <4>1 DEF JobsOK
      <3> QED BY <3>2, <3>3
    <2>4. JobsOK'
      BY <2>2, <2>3
    <2> QED BY <1>3, <1>4, <2>4 DEF JobInv, Jobs!Register
  <1>5. ASSUME NEW plan \in DOMAIN jobStatus, NEW answer \in {"approved", "denied"},
               Jobs!Answer(plan, answer)
        PROVE  JobInv'
    <2>1. /\ DOMAIN jobStatus' = DOMAIN jobStatus
          /\ \A q \in DOMAIN jobStatus :
               jobStatus'[q] = IF q = plan THEN [is |-> answer, shown |-> plan.argv] ELSE jobStatus[q]
      BY <1>1, <1>5 DEF Jobs!Answer, JobsOK
    <2>2. jobGranted' = IF answer = "approved" THEN jobGranted \cup {plan.argv} ELSE jobGranted
      <3>1. jobStatus[plan].shown = plan.argv
        BY <1>1 DEF JobsOK
      <3> QED BY <1>5, <3>1 DEF Jobs!Answer
    <2>3. jobs' = jobs
      BY <1>5 DEF Jobs!Answer
    <2>4. JobsOK'
      BY <1>1, <2>1, <2>2, <2>3 DEF JobsOK
    <2> QED BY <1>3, <1>5, <2>4 DEF JobInv, Jobs!Answer
  <1>6. \A p \in Procs : Busy(p) =>
          /\ jobProc[p].step \in {"open", "write"}
          /\ jobProc[p] = [step |-> jobProc[p].step, text |-> jobProc[p].text]
          /\ InOrder(jobProc[p].text, jobCount)
    BY <1>1 DEF LogOK, Busy, Jobs!Idle
  <1>7. /\ jobCount \in Nat /\ jobCount \in 0..MaxRuns /\ MaxRuns \in Nat /\ InOrder(jobLog, jobCount)
        /\ DOMAIN jobProc = Procs /\ jobQuiet \in BOOLEAN
    BY <1>1, ScheduleAssumption DEF LogOK, ScheduleAssumption
  <1>8. ASSUME NEW p \in Procs, Jobs!LoadRuns(p) PROVE JobInv'
    <2> DEFINE text == Jobs!Cut(jobLog \o Jobs!Line(jobCount + 1))
    <2>1. /\ jobProc[p] = Jobs!Idle /\ jobCount' = jobCount + 1 /\ jobCount + 1 \in 1..MaxRuns
          /\ jobLog' = jobLog /\ jobQuiet' = (jobQuiet /\ \A q \in Procs : jobProc[q] = Jobs!Idle)
          /\ jobProc' = [jobProc EXCEPT ![p] = [step |-> "open", text |-> text]]
      BY <1>7, <1>8 DEF Jobs!LoadRuns
    <2>2. /\ InOrder(text, jobCount + 1) /\ EndsWith(text, jobCount + 1)
          /\ NoGap(jobLog) /\ EndsWith(jobLog, jobCount) => NoGap(text)
      BY <1>7, <2>1, NextText
    <2> HIDE DEF text
    <2>3. /\ DOMAIN jobProc' = Procs /\ jobProc'[p] = [step |-> "open", text |-> text]
          /\ \A q \in Procs : q # p => jobProc'[q] = jobProc[q]
      BY <1>7, <2>1
    <2>4. LogOK'
      <3>1. InOrder(jobLog', jobCount')
        BY <1>7, <2>1, LaterRuns
      <3>2. \A q \in Procs : \/ jobProc'[q] = Jobs!Idle
                             \/ /\ jobProc'[q].step \in {"open", "write"}
                                /\ jobProc'[q] = [step |-> jobProc'[q].step, text |-> jobProc'[q].text]
                                /\ InOrder(jobProc'[q].text, jobCount')
        <4> SUFFICES ASSUME NEW q \in Procs, jobProc'[q] # Jobs!Idle
                     PROVE  /\ jobProc'[q].step \in {"open", "write"}
                            /\ jobProc'[q] = [step |-> jobProc'[q].step, text |-> jobProc'[q].text]
                            /\ InOrder(jobProc'[q].text, jobCount')
          OBVIOUS
        <4>1. CASE q = p
          BY <2>1, <2>2, <2>3, <4>1
        <4>2. CASE q # p
          <5>1. /\ jobProc'[q] = jobProc[q] /\ jobProc[q].step \in {"open", "write"}
                /\ jobProc[q] = [step |-> jobProc[q].step, text |-> jobProc[q].text]
                /\ InOrder(jobProc[q].text, jobCount)
            BY <1>1, <2>3, <4>2 DEF LogOK
          <5> QED BY <1>7, <2>1, <5>1, LaterRuns
        <4> QED BY <4>1, <4>2
      <3>3. jobCount' \in 0..MaxRuns
        BY <1>7, <2>1
      <3>4. jobQuiet' \in BOOLEAN
        BY <2>1
      <3> QED BY <2>3, <3>1, <3>2, <3>3, <3>4 DEF LogOK
    <2>5. ASSUME jobQuiet' PROVE QuietOK'
      <3>1. jobQuiet /\ \A q \in Procs : jobProc[q] = Jobs!Idle
        BY <2>1, <2>5
      <3>2. \A q \in Procs : ~Busy(q)
        BY <3>1 DEF Busy, Jobs!Idle
      <3>3. NoGap(jobLog) /\ NoGap(text)
        BY <1>1, <2>2, <3>1, <3>2 DEF QuietOK
      <3>4. Busy(p)' /\ \A q \in Procs : Busy(q)' => q = p
        BY <2>3, <3>2 DEF Busy
      <3> QED BY <2>1, <2>2, <2>3, <3>3, <3>4 DEF QuietOK
    <2>6. JobsOK'
      BY <1>2, <1>8 DEF Jobs!LoadRuns
    <2> QED BY <2>4, <2>5, <2>6 DEF JobInv
  <1>9. ASSUME NEW p \in Procs, Jobs!OpenRuns(p) PROVE JobInv'
    <2>1. /\ Busy(p) /\ jobLog' = <<>> /\ jobCount' = jobCount /\ jobQuiet' = jobQuiet
          /\ jobProc' = [jobProc EXCEPT ![p].step = "write"]
      BY <1>9 DEF Jobs!OpenRuns, Busy
    <2>2. /\ DOMAIN jobProc' = Procs /\ jobProc'[p] = [step |-> "write", text |-> jobProc[p].text]
          /\ \A q \in Procs : q # p => jobProc'[q] = jobProc[q]
      BY <1>6, <1>7, <2>1
    <2>3. InOrder(<<>>, jobCount) /\ NoGap(<<>>)
      BY DEF InOrder, NoGap
    <2>4. LogOK'
      <3>1. \A q \in Procs : \/ jobProc'[q] = Jobs!Idle
                             \/ /\ jobProc'[q].step \in {"open", "write"}
                                /\ jobProc'[q] = [step |-> jobProc'[q].step, text |-> jobProc'[q].text]
                                /\ InOrder(jobProc'[q].text, jobCount)
        BY <1>1, <1>6, <2>1, <2>2 DEF LogOK
      <3> QED BY <1>7, <2>1, <2>2, <2>3, <3>1 DEF LogOK
    <2>5. ASSUME jobQuiet' PROVE QuietOK'
      <3>1. \A q \in Procs : (Busy(q)' <=> Busy(q)) /\ (Busy(q) => jobProc'[q].text = jobProc[q].text)
        BY <2>1, <2>2 DEF Busy
      <3>2. QuietOK
        BY <1>1, <2>1, <2>5
      <3> QED BY <2>1, <2>3, <3>1, <3>2 DEF QuietOK
    <2>6. JobsOK'
      BY <1>2, <1>9 DEF Jobs!OpenRuns
    <2> QED BY <2>4, <2>5, <2>6 DEF JobInv
  <1>10. ASSUME NEW p \in Procs, Jobs!WriteRuns(p) PROVE JobInv'
    <2>1. /\ Busy(p) /\ jobLog' = jobProc[p].text /\ jobCount' = jobCount /\ jobQuiet' = jobQuiet
          /\ jobProc' = [jobProc EXCEPT ![p] = Jobs!Idle]
      BY <1>10 DEF Jobs!WriteRuns, Busy
    <2>2. /\ DOMAIN jobProc' = Procs /\ jobProc'[p] = Jobs!Idle
          /\ \A q \in Procs : q # p => jobProc'[q] = jobProc[q]
      BY <1>7, <2>1
    <2>3. LogOK'
      BY <1>1, <1>6, <1>7, <2>1, <2>2 DEF LogOK
    <2>4. ASSUME jobQuiet' PROVE QuietOK'
      <3>1. QuietOK
        BY <1>1, <2>1, <2>4
      <3>2. NoGap(jobProc[p].text) /\ EndsWith(jobProc[p].text, jobCount)
        BY <2>1, <3>1 DEF QuietOK
      <3>3. \A q \in Procs : ~Busy(q)'
        BY <2>1, <2>2, <3>1 DEF QuietOK, Busy, Jobs!Idle
      <3> QED BY <2>1, <3>2, <3>3 DEF QuietOK
    <2>5. JobsOK'
      BY <1>2, <1>10 DEF Jobs!WriteRuns
    <2> QED BY <2>3, <2>4, <2>5 DEF JobInv
  <1>11. ASSUME NEW p \in Procs, Jobs!Kill(p) PROVE JobInv'
    <2>1. /\ jobCount' = jobCount /\ jobQuiet' = FALSE
          /\ jobProc' = [jobProc EXCEPT ![p] = Jobs!Idle]
      BY <1>11 DEF Jobs!Kill
    <2>2. /\ DOMAIN jobProc' = Procs /\ jobProc'[p] = Jobs!Idle
          /\ \A q \in Procs : q # p => jobProc'[q] = jobProc[q]
      BY <1>7, <2>1
    <2>3. InOrder(jobLog', jobCount)
      <3>1. CASE jobProc[p].step = "write"
        <4>1. PICK n \in 0..(Len(jobProc[p].text) - 1) : jobLog' = SubSeq(jobProc[p].text, 1, n)
          BY <1>11, <3>1 DEF Jobs!Kill
        <4>2. InOrder(jobProc[p].text, jobCount)
          BY <1>6, <3>1 DEF Busy
        <4>3. 1 \in 1..(Len(jobProc[p].text) + 1) /\ n \in 0..Len(jobProc[p].text)
          BY <4>2 DEF InOrder
        <4> QED BY <1>7, <4>1, <4>2, <4>3, Excerpt
      <3>2. CASE jobProc[p].step # "write"
        BY <1>7, <1>11, <3>2 DEF Jobs!Kill
      <3> QED BY <3>1, <3>2
    <2>4. LogOK'
      BY <1>1, <1>7, <2>1, <2>2, <2>3 DEF LogOK
    <2>5. JobsOK'
      BY <1>2, <1>11 DEF Jobs!Kill
    <2> QED BY <2>1, <2>4, <2>5 DEF JobInv
  <1>12. CASE UNCHANGED jobVars
    BY <1>2, <1>3, <1>12 DEF jobVars, JobInv
  <1> QED BY <1>4, <1>5, <1>8, <1>9, <1>10, <1>11, <1>12 DEF Jobs!Next

(* What is handed to the scheduler was approved, and the log of runs keeps *)
(* the order and the latest run, for logs and lines of any length          *)
(* (build_job_plan, _register, _append_run_log, _read_run_log).            *)
THEOREM ScheduleHolds == ProfileSpec => []ScheduledIsApproved
  <1>1. ASSUME JobInv PROVE Jobs!ScheduledIsApproved
    <2> DEFINE starts == Jobs!Runs(jobLog)
    <2>1. JobsOK /\ LogOK /\ (jobQuiet => QuietOK)
      BY <1>1 DEF JobInv
    <2>2. InOrder(jobLog, jobCount) /\ jobCount \in Nat
      BY <2>1 DEF LogOK
    <2>3. jobLog \in Seq(Pieces(jobCount)) /\ Len(jobLog) \in Nat /\ DOMAIN jobLog = 1..Len(jobLog)
      BY <2>2 DEF InOrder
    <2>4. \A i \in 1..Len(jobLog) : /\ jobLog[i] \in Pieces(jobCount)
                                    /\ jobLog[i] = [run |-> jobLog[i].run, part |-> jobLog[i].part]
                                    /\ jobLog[i].run \in Nat /\ jobLog[i].run <= jobCount
                                    /\ jobLog[i].part \in Nat \ {0}
      <3>1. \A i \in 1..Len(jobLog) : jobLog[i] \in Pieces(jobCount)
        BY <2>3
      <3>2. \A piece \in Pieces(jobCount) : /\ piece = [run |-> piece.run, part |-> piece.part]
                                            /\ piece.run \in Nat /\ piece.run <= jobCount
                                            /\ piece.part \in Nat \ {0}
        BY <2>2 DEF Pieces
      <3> QED BY <3>1, <3>2
    <2>5. ASSUME NEW i \in starts
          PROVE  /\ Jobs!Whole(jobLog) /\ i \in 1..Len(jobLog) /\ jobLog[i].part = 1
                 /\ starts = {k \in 1..Len(jobLog) : jobLog[k].part = 1}
      BY <2>3, <2>5 DEF Jobs!Runs
    <2> HIDE DEF starts
    <2>6. ASSUME NEW i \in starts PROVE jobLog[i].run <= jobCount
      <3>1. i \in 1..Len(jobLog)
        BY <2>5, <2>6
      <3> QED BY <2>2, <2>4, <3>1
    <2>7. ASSUME NEW i \in starts, NEW j \in starts, i < j
          PROVE  /\ jobLog[i].run < jobLog[j].run
                 /\ jobQuiet => \/ jobLog[j].run = jobLog[i].run + 1
                               \/ \E k \in starts : i < k /\ k < j
      <3>1. i \in 1..Len(jobLog) /\ j \in 1..Len(jobLog) /\ jobLog[i].part = 1 /\ jobLog[j].part = 1
        BY <2>5, <2>7
      <3>2. jobLog[i].run < jobLog[j].run
        BY <2>2, <2>7, <3>1 DEF InOrder, Earlier
      <3>3. ASSUME jobQuiet, jobLog[j].run # jobLog[i].run + 1
            PROVE  \E k \in starts : i < k /\ k < j
        <4> DEFINE n == jobLog[i].run + 1
        <4>1. /\ n \in Nat /\ jobLog[i].run < n /\ n <= jobLog[j].run
          <5>1. jobLog[i].run \in Nat /\ jobLog[j].run \in Nat
            BY <2>4, <3>1
          <5> QED BY <3>2, <5>1
        <4> HIDE DEF n
        <4>2. PICK k \in 1..Len(jobLog) : i < k /\ k <= j /\ jobLog[k].run = n /\ jobLog[k].part = 1
          BY <2>1, <2>7, <3>1, <3>3, <4>1 DEF QuietOK, NoGap
        <4>3. k \in starts
          BY <2>5, <4>2
        <4>4. k # j
          BY <3>3, <4>2 DEF n
        <4> QED BY <3>1, <4>2, <4>3, <4>4
      <3> QED BY <3>2, <3>3
    <2>8. ASSUME NEW i \in starts, jobQuiet, \A p \in Procs : jobProc[p] = Jobs!Idle
          PROVE  \E k \in starts : jobLog[k].run = jobCount
      <3> DEFINE T == {k \in 1..Len(jobLog) : jobLog[k].run = jobCount}
      <3>1. i \in 1..Len(jobLog) /\ Jobs!Whole(jobLog)
        BY <2>5
      <3>2. EndsWith(jobLog, jobCount)
        BY <2>1, <2>8 DEF QuietOK, Busy, Jobs!Idle
      <3>3. Len(jobLog) \in T
        BY <2>3, <3>1, <3>2 DEF EndsWith
      <3>4. T \subseteq Nat
        OBVIOUS
      <3>5. PICK k \in T : \A l \in T : k <= l
        <4> HIDE DEF T
        <4> QED BY <3>3, <3>4, HasLeast
      <3>6. k \in 1..Len(jobLog) /\ jobLog[k].run = jobCount
        OBVIOUS
      <3>7. ASSUME jobLog[k].part # 1 PROVE FALSE
        <4>1. k > 1 /\ jobLog[k - 1] = [jobLog[k] EXCEPT !.part = @ - 1]
          BY <2>3, <3>1, <3>6, <3>7 DEF Jobs!Whole
        <4>2. k - 1 \in 1..Len(jobLog)
          BY <2>3, <3>6, <4>1
        <4>3. jobLog[k - 1].run = jobLog[k].run
          BY <2>4, <3>6, <4>1
        <4>4. k - 1 \in T
          BY <3>6, <4>2, <4>3
        <4> HIDE DEF T
        <4> QED BY <3>5, <3>6, <4>4
      <3>8. k \in starts
        BY <2>5, <2>8, <3>6, <3>7
      <3> QED BY <3>6, <3>8
    <2> QED BY <2>1, <2>6, <2>7, <2>8 DEF Jobs!ScheduledIsApproved, JobsOK, starts
  <1>2. JobInv => ScheduledIsApproved
    BY <1>1 DEF ScheduledIsApproved
  <1>3. ProfileInit => JobInv
    BY JobInit DEF ProfileInit
  <1> QED BY <1>2, <1>3, JobStep, PartsRun, PTL DEF ProfileSpec

-----------------------------------------------------------------------------
(* The journal.                                                            *)

\* Days a week apart are the same weekday.
LEMMA Quotients ==
  ASSUME NEW W \in Nat \ {0}, NEW q \in Int, NEW s \in 0..(W - 1), NEW p \in Int,
         NEW r \in 0..(W - 1), W * q + s = W * p + r
  PROVE  s = r
  <1>1. W * (q - p) = r - s
    OBVIOUS
  <1>2. CASE q - p >= 1
    <2>1. W * (q - p) >= W
      BY <1>2, SMTT(30)
    <2> QED BY <1>1, <2>1
  <1>3. CASE q - p <= -1
    <2>1. W * (q - p) <= -W
      BY <1>3, SMTT(30)
    <2> QED BY <1>1, <2>1
  <1>4. CASE q = p
    BY <1>1, <1>4
  <1> QED BY <1>2, <1>3, <1>4

LEMMA AWeekOn ==
  ASSUME NEW W \in Nat \ {0}, NEW x \in Nat PROVE (x + W) % W = x % W
  <1>1. \A y \in Nat : y = W * (y \div W) + (y % W) /\ y % W \in 0..(W - 1) /\ y \div W \in Int
    BY SMTT(30)
  <1> DEFINE q == (x + W) \div W
             p == x \div W
             s == (x + W) % W
             r == x % W
  <1>2. x + W = W * q + s /\ s \in 0..(W - 1) /\ q \in Int
    BY <1>1
  <1>3. x = W * p + r /\ r \in 0..(W - 1) /\ p + 1 \in Int /\ p \in Int
    BY <1>1
  <1> HIDE DEF q, p, s, r
  <1>4. W * q + s = W * (p + 1) + r
    BY <1>2, <1>3
  <1>5. \A i, j \in Int : \A k, l \in 0..(W - 1) : W * i + k = W * j + l => k = l
    BY Quotients
  <1>6. s = r
    BY <1>2, <1>3, <1>4, <1>5
  <1> QED BY <1>6 DEF s, r

\* Every later day has its like in the week after any day.
LEMMA InTheWeekAhead ==
  ASSUME NEW W \in Nat \ {0}, NEW s \in Nat, NEW d \in Nat, s < d
  PROVE  \E t \in (s + 1)..(s + W) : (t - 1) % W = (d - 1) % W
  <1> DEFINE T == {t \in Nat : s < t /\ (t - 1) % W = (d - 1) % W}
  <1>1. PICK t \in T : \A u \in T : t <= u
    BY HasLeast
  <1>2. ASSUME t > s + W PROVE FALSE
    <2>1. t - W \in Nat /\ s < t - W /\ t - W - 1 \in Nat /\ t - W - 1 + W = t - 1
      BY <1>1, <1>2
    <2>2. (t - W - 1) % W = (d - 1) % W
      BY <1>1, <2>1, AWeekOn
    <2>3. t - W \in T
      BY <2>1, <2>2
    <2>4. t <= t - W /\ t \in Nat
      BY <1>1, <2>3
    <2> QED BY <2>4
  <1> QED BY <1>1, <1>2

\* The first and the last of some days.
LEMMA FirstDay ==
  ASSUME NEW days, days \subseteq Nat \ {0}
  PROVE  /\ Journal!FirstOf(days) = Journal!NoDay <=> days = {}
         /\ days # {} => /\ Journal!FirstOf(days) \in days
                         /\ \A day \in days : Journal!FirstOf(days) <= day
  <1>1. CASE days = {}
    BY <1>1 DEF Journal!FirstOf
  <1>2. CASE days # {}
    <2>1. \E x \in days : \A y \in days : x <= y
      BY <1>2, HasLeast
    <2>2. Journal!Min(days) \in days /\ \A day \in days : Journal!Min(days) <= day
      BY <2>1 DEF Journal!Min
    <2> QED BY <1>2, <2>2 DEF Journal!FirstOf, Journal!NoDay
  <1> QED BY <1>1, <1>2

LEMMA LastOne ==
  ASSUME NEW days, NEW bound \in Nat, days \subseteq 1..bound, days # {}
  PROVE  Journal!Max(days) \in days /\ \A day \in days : day <= Journal!Max(days)
  <1> DEFINE T == {bound - day : day \in days}
  <1>1. PICK t \in T : \A u \in T : t <= u
    <2>1. T \subseteq Nat
      OBVIOUS
    <2>2. T # {}
      <3>1. PICK day \in days : TRUE
        OBVIOUS
      <3>2. bound - day \in T
        OBVIOUS
      <3> QED BY <3>2
    <2> HIDE DEF T
    <2> QED BY <2>1, <2>2, HasLeast
  <1>2. PICK day \in days : t = bound - day
    BY <1>1
  <1>3. \A other \in days : bound - day <= bound - other
    BY <1>1, <1>2
  <1>4. \A other \in days : other <= day
    BY <1>3
  <1> QED BY <1>4 DEF Journal!Max

\* Lessons are given on days.
LessonsHaveDays == DOMAIN lessons \subseteq 1..LastDay

LEMMA JournalInit == Journal!Init => LessonsHaveDays
  BY DEF Journal!Init, LessonsHaveDays

LEMMA JournalStep == LessonsHaveDays /\ [Journal!Next]_journalVars => LessonsHaveDays'
  BY DEF LessonsHaveDays, Journal!Next, Journal!SetTimetable, Journal!Cancel, Journal!Give, journalVars

\* What the cell of a lesson says is due was given before, and is the last.
LEMMA DueIsTheLast ==
  ASSUME LessonsHaveDays, NEW d \in 1..LastDay
  PROVE  LET before == {t \in DOMAIN lessons : /\ t < d /\ lessons[t].homework = "given"
                                               /\ Journal!SubjectOf(t) = Journal!SubjectOf(d)}
         IN  /\ before # {} => /\ Journal!DueOn(d) \in before
                               /\ \A t \in before : t <= Journal!DueOn(d)
             /\ before = {} => Journal!DueOn(d) = 0
  <1> DEFINE before == {t \in DOMAIN lessons : /\ t < d /\ lessons[t].homework = "given"
                                               /\ Journal!SubjectOf(t) = Journal!SubjectOf(d)}
  <1>1. Journal!DueOn(d) = IF before = {} THEN 0 ELSE Journal!Max(before)
    BY DEF Journal!DueOn, Journal!PreviousHomework, Journal!NoDay
  <1>2. before # {} => Journal!Max(before) \in before /\ \A t \in before : t <= Journal!Max(before)
    <2>1. before \subseteq 1..LastDay
      BY DEF LessonsHaveDays
    <2> HIDE DEF before
    <2> QED BY <2>1, LastOne, JournalAssumption DEF JournalAssumption
  <1> HIDE DEF before
  <1>3. /\ before # {} => Journal!DueOn(d) \in before /\ \A t \in before : t <= Journal!DueOn(d)
        /\ before = {} => Journal!DueOn(d) = 0
    BY <1>1, <1>2
  <1> QED BY <1>3 DEF before

\* What the cell of a lesson announces, from the days ahead.
LEMMA AnnouncedIsAhead ==
  ASSUME NEW s \in 1..LastDay
  PROVE  LET likes == {d \in Journal!Ahead(s) :
                         /\ Journal!Scheduled(d) # NoSubject
                         /\ Journal!Label(Journal!Scheduled(d)) = Journal!Label(Journal!SubjectOf(s))}
             day == Journal!AnnouncedFor(s)
         IN  \/ day = 0
             \/ /\ likes # {} => day \in likes /\ \A d \in likes : day <= d
                /\ day \in Journal!Ahead(s)
  <1> DEFINE likes == {d \in Journal!Ahead(s) :
                         /\ Journal!Scheduled(d) # NoSubject
                         /\ Journal!Label(Journal!Scheduled(d)) = Journal!Label(Journal!SubjectOf(s))}
             active == {d \in Journal!Ahead(s) : Journal!ActiveOn(d)}
  <1>1. Journal!Ahead(s) \subseteq Nat \ {0}
    BY JournalAssumption DEF JournalAssumption, Journal!Ahead
  <1>2. likes \subseteq Nat \ {0} /\ active \subseteq Nat \ {0}
    BY <1>1
  <1>3. Journal!AnnouncedFor(s) =
          IF Journal!FirstOf(active) = 0 THEN 0
          ELSE IF Journal!FirstOf(likes) # 0 THEN Journal!FirstOf(likes) ELSE Journal!FirstOf(active)
    BY DEF Journal!AnnouncedFor, Journal!NextActiveDay, Journal!NextSameSubjectDay, Journal!NoDay
  <1>4. likes \subseteq Journal!Ahead(s) /\ active \subseteq Journal!Ahead(s)
    OBVIOUS
  <1> DEFINE day == Journal!AnnouncedFor(s)
  <1> HIDE DEF likes, active, day
  <1>5. /\ Journal!FirstOf(likes) = 0 <=> likes = {}
        /\ likes # {} => /\ Journal!FirstOf(likes) \in likes
                         /\ \A d \in likes : Journal!FirstOf(likes) <= d
        /\ Journal!FirstOf(active) = 0 <=> active = {}
        /\ active # {} => Journal!FirstOf(active) \in active
    BY <1>2, FirstDay DEF Journal!NoDay
  <1>6. \/ day = 0
        \/ /\ likes # {} => day \in likes /\ \A d \in likes : day <= d
           /\ day \in Journal!Ahead(s)
    BY <1>3, <1>4, <1>5 DEF day
  <1> QED BY <1>6 DEF likes, day

(* Two cells of one class agree about a homework, for any timetable,       *)
(* lessons and cancellations (_render_journal_cell,                        *)
(* _next_same_subject_day, previous_homework).                             *)
THEOREM HomeworkHolds == ProfileSpec => []HomeworkComesDue
  <1> DEFINE cells == Journal!JournalItems(1..LastDay)
             between(s, d) == {t \in (s + 1)..(d - 1) :
                                 Journal!Label(Journal!Scheduled(t)) = Journal!Label(Journal!SubjectOf(s))}
             held(t, s) == /\ t \in DOMAIN lessons /\ lessons[t].homework = "given"
                           /\ Journal!SubjectOf(t) = Journal!SubjectOf(s)
  <1>1. ASSUME LessonsHaveDays PROVE Journal!HomeworkComesDue
    <2> SUFFICES ASSUME NEW s \in DOMAIN cells, NEW d \in DOMAIN cells, s < d,
                        lessons[s].homework = "given"
                 PROVE  /\ /\ cells[s].announced = d /\ Journal!SubjectOf(s) = Journal!SubjectOf(d)
                           /\ \A t \in DOMAIN lessons : s < t /\ t < d => Journal!OnTimetable(t)
                           => cells[d].due = s
                        /\ cells[d].due = s /\ Journal!OnTimetable(d) =>
                             /\ cells[s].announced <= d
                             /\ (\A t \in between(s, d) : held(t, s)) =>
                                  cells[s].announced \in {d, Journal!NoDay}
      BY DEF Journal!HomeworkComesDue
    <2>1. /\ s \in DOMAIN lessons /\ s \in 1..LastDay /\ d \in DOMAIN lessons /\ d \in 1..LastDay
          /\ cells[s].announced = Journal!AnnouncedFor(s) /\ cells[d].due = Journal!DueOn(d)
      <3>1. CASE \E day \in (1..LastDay) \cap DOMAIN lessons : Journal!Refused(day)
        BY <3>1 DEF Journal!JournalItems
      <3>2. CASE ~\E day \in (1..LastDay) \cap DOMAIN lessons : Journal!Refused(day)
        BY <3>2 DEF Journal!JournalItems
      <3> QED BY <3>1, <3>2
    <2>2. s \in Nat \ {0} /\ d \in Nat \ {0} /\ LastDay \in Nat /\ Horizon \in Nat
          /\ Journal!Ahead(s) = (s + 1)..(s + Horizon)
      BY <2>1, JournalAssumption DEF JournalAssumption, Journal!Ahead
    <2> DEFINE a == Journal!AnnouncedFor(s)
               due == Journal!DueOn(d)
               before == {t \in DOMAIN lessons : /\ t < d /\ lessons[t].homework = "given"
                                                 /\ Journal!SubjectOf(t) = Journal!SubjectOf(d)}
               likes == {t \in Journal!Ahead(s) :
                           /\ Journal!Scheduled(t) # NoSubject
                           /\ Journal!Label(Journal!Scheduled(t)) = Journal!Label(Journal!SubjectOf(s))}
    <2>3. /\ before # {} => due \in before /\ \A t \in before : t <= due
          /\ before = {} => due = 0
      BY <1>1, <2>1, DueIsTheLast
    <2>4. a = 0 \/ (a \in Journal!Ahead(s) /\ (likes # {} => a \in likes /\ \A t \in likes : a <= t))
      BY <2>1, AnnouncedIsAhead
    <2>5. \A t \in DOMAIN lessons : t \in Nat
      BY <1>1 DEF LessonsHaveDays
    <2> HIDE DEF cells, a, due
    <2>6. ASSUME a = d, Journal!SubjectOf(s) = Journal!SubjectOf(d),
                 \A t \in DOMAIN lessons : s < t /\ t < d => Journal!OnTimetable(t)
          PROVE  due = s
      <3>1. s \in before
        BY <2>1, <2>6
      <3>2. due \in before /\ s <= due /\ due \in Nat /\ due < d /\ due \in DOMAIN lessons
        BY <2>3, <2>5, <3>1
      <3>3. ASSUME s < due PROVE FALSE
        <4>1. /\ Journal!Scheduled(due) # NoSubject
              /\ Journal!Label(Journal!Scheduled(due)) = Journal!Label(Journal!SubjectOf(s))
          BY <2>6, <3>2, <3>3 DEF Journal!OnTimetable
        <4>2. d \in Journal!Ahead(s)
          BY <2>2, <2>4, <2>6
        <4>3. due \in likes
          BY <2>2, <3>2, <3>3, <4>1, <4>2
        <4> HIDE DEF likes
        <4> QED BY <2>2, <2>4, <2>6, <3>2, <4>3
      <3> QED BY <2>2, <3>2, <3>3
    <2>7. ASSUME due = s, Journal!OnTimetable(d)
          PROVE  a <= d /\ ((\A t \in between(s, d) : held(t, s)) => a \in {d, 0})
      <3>1. Journal!SubjectOf(s) = Journal!SubjectOf(d) /\ \A t \in before : t <= s
        <4> HIDE DEF before
        <4>1. due \in before /\ \A t \in before : t <= due
          BY <2>2, <2>3, <2>7
        <4> QED BY <2>7, <4>1 DEF before
      <3>2. PICK e \in (s + 1)..(s + Weekdays) : (e - 1) % Weekdays = (d - 1) % Weekdays
        BY <2>2, InTheWeekAhead, JournalAssumption DEF JournalAssumption
      <3>3. e \in likes
        <4>1. Journal!Scheduled(e) = Journal!Scheduled(d)
          BY <3>2 DEF Journal!Scheduled
        <4>2. e \in Journal!Ahead(s)
          BY <2>2, <3>2, JournalAssumption DEF JournalAssumption
        <4> QED BY <2>7, <3>1, <4>1, <4>2 DEF Journal!OnTimetable
      <3>4. d \in Journal!Ahead(s) => d \in likes
        BY <2>7, <3>1 DEF Journal!OnTimetable
      <3>5. a = 0 \/ (a \in likes /\ a \in Journal!Ahead(s) /\ \A t \in likes : a <= t)
        <4> HIDE DEF likes
        <4> QED BY <2>4, <3>3
      <3>6. a = 0 \/ (a \in likes /\ a \in Nat /\ s < a /\ a <= d)
        <4> HIDE DEF likes
        <4> QED BY <2>2, <3>4, <3>5
      <3>7. ASSUME \A t \in between(s, d) : held(t, s), a # 0 PROVE a = d
        <4>1. ASSUME a < d PROVE FALSE
          <5>1. a \in between(s, d)
            BY <2>2, <3>6, <3>7, <4>1
          <5>2. held(a, s)
            BY <3>7, <5>1
          <5>3. a \in before
            BY <3>1, <4>1, <5>2
          <5> QED BY <2>2, <3>1, <3>6, <3>7, <5>3
        <4> QED BY <2>2, <3>6, <3>7, <4>1
      <3> QED BY <2>2, <3>6, <3>7
    <2> QED BY <2>1, <2>6, <2>7 DEF a, due, Journal!NoDay
  <1>2. LessonsHaveDays => HomeworkComesDue
    BY <1>1 DEF HomeworkComesDue
  <1>3. ProfileInit => LessonsHaveDays
    BY JournalInit DEF ProfileInit
  <1> QED BY <1>2, <1>3, JournalStep, PartsRun, PTL DEF ProfileSpec

-----------------------------------------------------------------------------
(* The gate.                                                               *)

\* The rules before the approval's, and those it opens: more marks, more rules.
LEMMA RulesAreMonotone ==
  ASSUME NEW c, NEW d, c.tier = d.tier, c.marks \subseteq d.marks
  PROVE  /\ Gate!RuntimeOwned(c) \/ Gate!PublicWrite(c)
              => Gate!RuntimeOwned(d) \/ Gate!PublicWrite(d)
         /\ Gate!RawDbMutation(c) \/ Gate!DestructiveOnPrivate(c)
              => Gate!RawDbMutation(d) \/ Gate!DestructiveOnPrivate(d)
  <1>1. Gate!Mutates(c.marks) => Gate!Mutates(d.marks)
    BY DEF Gate!Mutates
  <1>2. Gate!RuntimeOwned(c) => Gate!RuntimeOwned(d)
    BY <1>1 DEF Gate!RuntimeOwned
  <1>3. Gate!PublicWrite(c) => Gate!PublicWrite(d)
    BY DEF Gate!PublicWrite
  <1>4. Gate!RawDbMutation(c) => Gate!RawDbMutation(d)
    BY DEF Gate!RawDbMutation
  <1>5. Gate!DestructiveOnPrivate(c) => Gate!DestructiveOnPrivate(d)
    BY DEF Gate!DestructiveOnPrivate
  <1> QED BY <1>2, <1>3, <1>4, <1>5

(* Whatever was asked before and whichever approval comes or goes, a call  *)
(* that does more than a refused one is refused (evaluate_tool_call).      *)
THEOREM GateHolds == ProfileSpec => []GateIsMonotone
  <1>1. Gate!GateIsMonotone
    <2>1. SUFFICES ASSUME NEW c \in Gate!Calls,
                          c.tier = gateCall.tier, gateCall.marks \subseteq c.marks,
                          Gate!EvaluateToolCall(gateCall, gateApproved) = "deny"
                   PROVE  Gate!EvaluateToolCall(c, gateApproved) = "deny"
      BY DEF Gate!GateIsMonotone
    <2>2. c.tier # "unknown" /\ c.tier # "read"
      BY <2>1 DEF Gate!EvaluateToolCall
    <2>3. CASE Gate!RuntimeOwned(gateCall) \/ Gate!PublicWrite(gateCall)
      BY <2>1, <2>2, <2>3, RulesAreMonotone DEF Gate!EvaluateToolCall
    <2>4. CASE ~(Gate!RuntimeOwned(gateCall) \/ Gate!PublicWrite(gateCall))
      <3>1. ~gateApproved /\ (Gate!RawDbMutation(gateCall) \/ Gate!DestructiveOnPrivate(gateCall))
        BY <2>1, <2>2, <2>4 DEF Gate!EvaluateToolCall
      <3> QED BY <2>1, <2>2, <3>1, RulesAreMonotone DEF Gate!EvaluateToolCall
    <2> QED BY <2>3, <2>4
  <1>2. GateIsMonotone
    BY <1>1 DEF GateIsMonotone
  <1> QED BY <1>2, PTL
=============================================================================
