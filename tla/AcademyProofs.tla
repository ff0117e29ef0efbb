---------------------------- MODULE AcademyProofs ----------------------------
(***************************************************************************)
(* The promises of AcademyImport and of WriteAction, the two ways rows get *)
(* into the academy's data, for any sources, runs, payloads, processes and *)
(* bounds.                                                                 *)
(*                                                                         *)
(* Imports.  The one approval of all imports changes only as               *)
(* ApprovalLedger lets it, so what is merged was granted, and what is      *)
(* spent stays spent.  The rest is about commands that do not overlap: the *)
(* invariant says of the one that runs what it left in the files so far.   *)
(*                                                                         *)
(* Write actions.  A transaction holds at every statement what the earlier *)
(* ones make of the database it began with (SoFar), and no one else writes *)
(* until it ends; past the last statement that is the whole of what the    *)
(* payload asks for.                                                       *)
(***************************************************************************)
EXTENDS AcademyImport, WriteAction, SequenceTheorems, TLAPS

-----------------------------------------------------------------------------
(* Imports.                                                                *)

\* What an apply has done when it comes to a step.
PastGate == {"read", "merge", "mark", "consume"}
BackingUp == {"backup", "copy"}
Merged == {"mark", "consume"}
ToMerge == {"persist", "approved?", "ensure", "read", "merge"} \cup BackingUp

FilesOK ==
  /\ plan \in [status : {"NONE", "NEEDS_APPROVAL", "APPLIED"}, source : Sources \cup {NoSource}]
  /\ store \in [Sources -> Nat] /\ backup \in [whole : BOOLEAN, of : [Sources -> Nat]]
  /\ pc \in [Procs -> {"idle", "unavailable?"} \cup ToMerge \cup Merged]
  /\ job \in [Procs -> Sources \cup {NoSource}]
  /\ \A p \in Procs : pc[p] \notin {"idle"} \cup BackingUp => job[p] \in Sources
  /\ snapshot \in [Procs -> [Sources -> Nat]]
  /\ merges \in Nat /\ kills \in Nat

\* An import that was let through; `backup create` has no source.
Through(p) == pc[p] \in PastGate \/ (pc[p] \in BackingUp /\ job[p] \in Sources)

Gated ==
  /\ \A p \in Procs : Through(p) => <<ImportId, ImportPlan>> \in cleared
  /\ merges > 0 => <<ImportId, ImportPlan>> \in cleared

\* The approval is used up or refused, which it stays.
Spent == Status("consumed") \/ Status("denied")

\* A command that runs alone finds its plan, its store and its backup as it
\* left them.
OneAtATime == \A p, q \in Procs : pc[p] # "idle" /\ pc[q] # "idle" => p = q
PlanIsItsOwn(p) ==
  job[p] \in Sources =>
    /\ pc[p] \in (ToMerge \cup {"mark"}) \ {"persist"} => plan.source = job[p]
    /\ pc[p] \in ToMerge \ {"persist"} => plan.status # "APPLIED"
    /\ pc[p] = "mark" => store[job[p]] > 0
StoreIsBackedUp(p) ==
  /\ pc[p] = "copy" => snapshot[p] = store /\ ~backup.whole
  /\ pc[p] \in {"read", "merge", "mark", "consume"} => backup.whole /\ Since(p)
  /\ pc[p] = "merge" => snapshot[p] = store
FirstMerge(p) == job[p] \in Sources /\ pc[p] \in ToMerge => merges <= kills

AppliedIsMerged == plan.status = "APPLIED" => store[plan.source] > 0
OneImportOld ==
  backup.whole => store = backup.of \/ \E s \in Sources : store = [backup.of EXCEPT ![s] = @ + 1]
TornForCause == ~backup.whole => merges = 0 \/ kills > 0 \/ \E p \in Procs : pc[p] = "copy"
MergesCounted ==
  \/ merges <= kills
  \/ merges = kills + 1 /\ (Spent \/ \E p \in Procs : pc[p] \in Merged)

Alone ==
  /\ OneAtATime
  /\ \A p \in Procs : PlanIsItsOwn(p) /\ StoreIsBackedUp(p) /\ FirstMerge(p)
  /\ AppliedIsMerged /\ OneImportOld /\ TornForCause /\ MergesCounted

Inv == FilesOK /\ Gated /\ (~overlap => Alone)

\* The one approval: whom it lets through a teacher granted, for that plan.
LedgerInv ==
  /\ DOMAIN ledger = {ImportId}
  /\ ledger[ImportId].status = "approved" => ImportId \in granted
  /\ <<ImportId, ImportPlan>> \in cleared =>
       ImportId \in granted /\ ledger[ImportId].plan = ImportPlan

-----------------------------------------------------------------------------
LEMMA InitInv == Init => Inv
  <1> SUFFICES ASSUME Init PROVE Inv
    OBVIOUS
  <1>1. FilesOK
    BY DEF Init, FilesOK, NoImportPlan, EmptyStore
  <1>2. Gated
    BY DEF Init, Gated, Through, PastGate, BackingUp
  <1>3. Alone
    BY DEF Init, Alone, OneAtATime, PlanIsItsOwn, StoreIsBackedUp, FirstMerge, AppliedIsMerged,
       OneImportOld, TornForCause, MergesCounted, NoImportPlan, ToMerge, BackingUp
  <1> QED
    BY <1>1, <1>2, <1>3 DEF Inv

(* Every step keeps what the ledger says, and what is spent spent.         *)
LEMMA LedgerStep ==
  ASSUME LedgerInv, [Next]_vars PROVE LedgerInv' /\ (Spent => Spent')
  <1> USE DEF LedgerInv, Spent, Status, L!HasStatus, L!Exists, ledgerVars
  <1>1. ASSUME NEW p \in Procs, CheckApproved(p) PROVE LedgerInv' /\ (Spent => Spent')
    BY <1>1 DEF CheckApproved, L!Clear
  <1>2. ASSUME NEW p \in Procs, Ensure(p) PROVE LedgerInv' /\ (Spent => Spent')
    BY <1>2 DEF Ensure, L!EnsureRequest, L!EnsureIn
  <1>3. ASSUME NEW p \in Procs, Consume(p) PROVE LedgerInv' /\ (Spent => Spent')
    BY <1>3 DEF Consume, L!Consume, L!ConsumeIn
  <1>4. ASSUME NEW actor \in L!Actors, Decide(actor) PROVE LedgerInv' /\ (Spent => Spent')
    BY <1>4 DEF Decide, L!Approve, L!MayApprove, L!ApproveIn, L!Deny, L!DenyIn, L!Actors
  <1>5. ASSUME NEW p \in Procs,
               \/ \E s \in Sources, withId \in BOOLEAN : StartApply(p, s, withId)
               \/ CheckUnavailable(p) \/ Persist(p) \/ CreateBackup(p) \/ BackUp(p) \/ FillBackup(p)
               \/ ReadStore(p) \/ Merge(p) \/ Mark(p) \/ Kill(p)
        PROVE  UNCHANGED ledgerVars
    BY <1>5 DEF StartApply, CheckUnavailable, Persist, CreateBackup, BackUp, FillBackup, ReadStore, Merge,
       Mark, Kill
  <1>6. ASSUME (\E s \in Sources : PlanImport(s)) \/ UNCHANGED vars PROVE UNCHANGED ledgerVars
    BY <1>6 DEF PlanImport, vars
  <1> QED
    BY <1>1, <1>2, <1>3, <1>4, <1>5, <1>6 DEF Next

\* Where a step of a command leads that has begun.
LEMMA GoesOn ==
  ASSUME FilesOK, NEW p \in Procs,
         NEW step \in {"idle", "unavailable?"} \cup ToMerge \cup Merged, Goto(p, step), job' = job,
         step \notin {"idle"} \cup BackingUp => job[p] \in Sources
  PROVE  /\ pc' \in [Procs -> {"idle", "unavailable?"} \cup ToMerge \cup Merged]
         /\ pc' = [pc EXCEPT ![p] = step]
         /\ job' \in [Procs -> Sources \cup {NoSource}]
         /\ \A q \in Procs : pc'[q] \notin {"idle"} \cup BackingUp => job'[q] \in Sources
  BY DEF FilesOK, Goto

\* Who has begun and makes no backup imports.
LEMMA HasSource ==
  ASSUME FilesOK, NEW p \in Procs, pc[p] \notin {"idle"} \cup BackingUp
  PROVE  job[p] \in Sources
  BY DEF FilesOK

LEMMA GateKept ==
  ASSUME FilesOK, Gated, NEW p \in Procs, NEW step, Goto(p, step), cleared' = cleared,
         \A q \in Procs : q # p => job'[q] = job[q],
         Through(p)' => Through(p), merges' > 0 => merges > 0 \/ Through(p)
  PROVE  Gated'
  <1>1. \A q \in Procs : q # p => (Through(q)' => Through(q))
    BY DEF FilesOK, Goto, Through
  <1> QED
    BY <1>1 DEF Gated

\* What a command writes are a plan and stores.
LEMMA FilesStep == Inv /\ [Next]_vars => FilesOK' /\ Gated'
  <1> SUFFICES ASSUME Inv, [Next]_vars PROVE FilesOK' /\ Gated'
    OBVIOUS
  <1>a. FilesOK /\ Gated
    BY DEF Inv
  <1>b. ASSUME NEW p \in Procs, NEW step, Goto(p, step) PROVE pc'[p] = step
    BY <1>a, <1>b DEF FilesOK, Goto
  <1> USE DEF PastGate, Merged, ToMerge, BackingUp
  <1>1. ASSUME NEW p \in Procs, NEW s \in Sources, NEW withId \in BOOLEAN, StartApply(p, s, withId)
        PROVE  FilesOK' /\ Gated'
    <2>1. FilesOK'
      BY <1>a, <1>1 DEF StartApply, Goto, FilesOK
    <2>2. Gated'
      <3>1. /\ Goto(p, "unavailable?") /\ job' = [job EXCEPT ![p] = s]
            /\ cleared' = cleared /\ merges' = merges
        BY <1>1 DEF StartApply, ledgerVars
      <3>2. \A q \in Procs : q # p => job'[q] = job[q]
        BY <1>a, <3>1 DEF FilesOK
      <3> QED
        BY <1>a, <1>b, <3>1, <3>2, GateKept DEF Through
    <2> QED
      BY <2>1, <2>2
  <1>2. ASSUME NEW p \in Procs, CheckUnavailable(p) PROVE FilesOK' /\ Gated'
    <2>1. PICK step \in {"idle", "persist"} : Goto(p, step)
      BY <1>2 DEF CheckUnavailable
    <2>2. /\ pc[p] = "unavailable?"
          /\ UNCHANGED <<cleared, plan, store, backup, job, snapshot, kills, merges>>
      BY <1>2 DEF CheckUnavailable, ledgerVars
    <2>3. FilesOK'
      BY <1>a, <2>1, <2>2, GoesOn, HasSource DEF FilesOK
    <2>4. Gated'
      BY <1>a, <1>b, <2>1, <2>2, GateKept DEF Through
    <2> QED
      BY <2>3, <2>4
  <1>3. ASSUME NEW p \in Procs, Kill(p) PROVE FilesOK' /\ Gated'
    <2>1. /\ pc[p] # "idle" /\ Goto(p, "idle") /\ kills' = kills + 1
          /\ UNCHANGED <<cleared, plan, store, backup, job, snapshot, merges>>
      BY <1>3 DEF Kill, ledgerVars
    <2>2. FilesOK'
      BY <1>a, <2>1, GoesOn, HasSource DEF FilesOK
    <2>3. Gated'
      BY <1>a, <1>b, <2>1, GateKept DEF Through
    <2> QED
      BY <2>2, <2>3
  <1>4. ASSUME NEW p \in Procs, Persist(p) PROVE FilesOK' /\ Gated'
    <2>1. /\ pc[p] = "persist" /\ Goto(p, "approved?")
          /\ plan' = [status |-> "NEEDS_APPROVAL", source |-> job[p]]
          /\ UNCHANGED <<cleared, store, backup, job, snapshot, kills, merges>>
      BY <1>4 DEF Persist, ledgerVars
    <2>2. FilesOK'
      BY <1>a, <2>1, GoesOn, HasSource DEF FilesOK
    <2>3. Gated'
      BY <1>a, <1>b, <2>1, GateKept DEF Through
    <2> QED
      BY <2>2, <2>3
  <1>5. ASSUME NEW p \in Procs, CheckApproved(p) PROVE FilesOK' /\ Gated'
    <2>1. /\ pc[p] = "approved?"
          /\ UNCHANGED <<plan, store, backup, job, snapshot, kills, merges>>
      BY <1>5 DEF CheckApproved
    <2>2. \/ Goto(p, "backup") /\ cleared' = cleared \cup {<<ImportId, ImportPlan>>}
          \/ Goto(p, "ensure") /\ cleared' = cleared
      BY <1>5 DEF CheckApproved, L!Clear, ledgerVars
    <2>3. FilesOK'
      BY <1>a, <2>1, <2>2, GoesOn, HasSource DEF FilesOK
    <2>4. CASE Goto(p, "ensure") /\ cleared' = cleared
      <3>1. Gated'
        BY <1>a, <1>b, <2>1, <2>4, GateKept DEF Through
      <3> QED
        BY <2>3, <3>1
    <2>5. CASE cleared' = cleared \cup {<<ImportId, ImportPlan>>}
      BY <2>3, <2>5 DEF Gated
    <2> QED
      BY <2>2, <2>4, <2>5
  <1>6. ASSUME NEW p \in Procs, Ensure(p) \/ Consume(p) PROVE FilesOK' /\ Gated'
    <2>1. /\ pc[p] \in {"ensure", "consume"} /\ Goto(p, "idle")
          /\ UNCHANGED <<cleared, plan, store, backup, job, snapshot, kills, merges>>
      BY <1>6 DEF Ensure, L!EnsureRequest, Consume, L!Consume
    <2>2. FilesOK'
      BY <1>a, <2>1, GoesOn DEF FilesOK
    <2>3. Gated'
      BY <1>a, <1>b, <2>1, GateKept DEF Through
    <2> QED
      BY <2>2, <2>3
  <1>7. ASSUME NEW p \in Procs, BackUp(p) PROVE FilesOK' /\ Gated'
    <2>1. /\ pc[p] = "backup" /\ Goto(p, "copy")
          /\ backup' = [backup EXCEPT !.whole = FALSE] /\ snapshot' = [snapshot EXCEPT ![p] = store]
          /\ UNCHANGED <<cleared, plan, store, job, kills, merges>>
      BY <1>7 DEF BackUp, ledgerVars
    <2>2. FilesOK'
      BY <1>a, <2>1, GoesOn, HasSource DEF FilesOK
    <2>3. Gated'
      BY <1>a, <1>b, <2>1, GateKept DEF Through
    <2> QED
      BY <2>2, <2>3
  <1>8. ASSUME NEW p \in Procs, FillBackup(p) PROVE FilesOK' /\ Gated'
    <2>1. /\ pc[p] = "copy"
          /\ \E whole \in BOOLEAN : backup' = [whole |-> whole, of |-> snapshot[p]]
          /\ UNCHANGED <<cleared, plan, store, job, snapshot, kills, merges>>
      BY <1>a, <1>8 DEF FillBackup, ledgerVars, FilesOK
    <2>2. \/ Goto(p, "idle")
          \/ Goto(p, "read") /\ job[p] \in Sources
      BY <1>a, <1>8 DEF FillBackup, FilesOK
    <2>3. backup' \in [whole : BOOLEAN, of : [Sources -> Nat]]
      BY <1>a, <2>1 DEF FilesOK
    <2>4. FilesOK'
      BY <1>a, <2>1, <2>2, <2>3, GoesOn DEF FilesOK
    <2>5. Gated'
      BY <1>a, <1>b, <2>1, <2>2, GateKept DEF Through
    <2> QED
      BY <2>4, <2>5
  <1>9. ASSUME NEW p \in Procs, ReadStore(p) PROVE FilesOK' /\ Gated'
    <2>1. /\ pc[p] = "read" /\ Goto(p, "merge") /\ snapshot' = [snapshot EXCEPT ![p] = store]
          /\ UNCHANGED <<cleared, plan, store, backup, job, kills, merges>>
      BY <1>9 DEF ReadStore, ledgerVars
    <2>2. FilesOK'
      BY <1>a, <2>1, GoesOn, HasSource DEF FilesOK
    <2>3. Gated'
      BY <1>a, <1>b, <2>1, GateKept DEF Through
    <2> QED
      BY <2>2, <2>3
  <1>10. ASSUME NEW p \in Procs, Merge(p) PROVE FilesOK' /\ Gated'
    <2>1. /\ pc[p] = "merge" /\ Goto(p, "mark") /\ merges' = merges + 1
          /\ store' = [snapshot[p] EXCEPT ![job[p]] = @ + 1]
          /\ UNCHANGED <<cleared, plan, backup, job, snapshot, kills>>
      BY <1>10 DEF Merge, ledgerVars
    <2>2. snapshot[p] \in [Sources -> Nat] /\ job[p] \in Sources
      BY <1>a, <2>1, HasSource DEF FilesOK
    <2>3. store' \in [Sources -> Nat]
      BY <2>1, <2>2
    <2>4. FilesOK'
      BY <1>a, <2>1, <2>2, <2>3, GoesOn DEF FilesOK
    <2>5. Gated'
      BY <1>a, <1>b, <2>1, GateKept DEF Through
    <2> QED
      BY <2>4, <2>5
  <1>11. ASSUME NEW p \in Procs, Mark(p) PROVE FilesOK' /\ Gated'
    <2>1. /\ pc[p] = "mark" /\ Goto(p, "consume") /\ plan' = [plan EXCEPT !.status = "APPLIED"]
          /\ UNCHANGED <<cleared, store, backup, job, snapshot, kills, merges>>
      BY <1>11 DEF Mark, ledgerVars
    <2>2. FilesOK'
      BY <1>a, <2>1, GoesOn, HasSource DEF FilesOK
    <2>3. Gated'
      BY <1>a, <1>b, <2>1, GateKept DEF Through
    <2> QED
      BY <2>2, <2>3
  <1>12. ASSUME NEW p \in Procs, CreateBackup(p) PROVE FilesOK' /\ Gated'
    <2>1. /\ Goto(p, "backup") /\ job' = [job EXCEPT ![p] = NoSource]
          /\ UNCHANGED <<cleared, plan, store, backup, snapshot, kills, merges>>
      BY <1>12 DEF CreateBackup, ledgerVars
    <2>2. FilesOK'
      BY <1>a, <2>1 DEF FilesOK, Goto
    <2>3. ~Through(p)' /\ \A q \in Procs : q # p => job'[q] = job[q]
      BY <1>a, <1>b, <2>1, ImportAssumption DEF Through, FilesOK
    <2>4. Gated'
      BY <1>a, <2>1, <2>3, GateKept
    <2> QED
      BY <2>2, <2>4
  <1>13. CASE \E s \in Sources : PlanImport(s)
    <2>1. UNCHANGED <<cleared, store, backup, pc, job, snapshot, kills, merges>>
      BY <1>13 DEF PlanImport, ledgerVars
    <2>2. plan' \in [status : {"NONE", "NEEDS_APPROVAL", "APPLIED"}, source : Sources \cup {NoSource}]
      BY <1>13 DEF PlanImport
    <2> QED
      BY <1>a, <2>1, <2>2 DEF FilesOK, Gated, Through
  <1>14. CASE (\E actor \in L!Actors : Decide(actor)) \/ UNCHANGED vars
    <2>1. UNCHANGED <<cleared, plan, store, backup, pc, job, snapshot, kills, merges>>
      BY <1>14 DEF Decide, L!Approve, L!Deny, vars, ledgerVars
    <2> QED
      BY <1>a, <2>1 DEF FilesOK, Gated, Through
  <1> QED
    BY <1>1, <1>2, <1>3, <1>4, <1>5, <1>6, <1>7, <1>8, <1>9, <1>10, <1>11, <1>12, <1>13, <1>14
       DEF Next

-----------------------------------------------------------------------------
\* A step of a command that runs alone: the others are idle.
LEMMA OneGoesOn ==
  ASSUME FilesOK, OneAtATime, NEW p \in Procs, pc[p] # "idle", NEW step, Goto(p, step),
         PlanIsItsOwn(p)', StoreIsBackedUp(p)', FirstMerge(p)',
         AppliedIsMerged', OneImportOld', TornForCause', MergesCounted'
  PROVE  Alone'
  <1>1. \A q \in Procs : q # p => pc[q] = "idle"
    BY DEF OneAtATime
  <1>2. \A q \in Procs : q # p => pc'[q] = "idle"
    BY <1>1 DEF Goto, FilesOK
  <1> QED
    BY <1>2 DEF Alone, OneAtATime, PlanIsItsOwn, StoreIsBackedUp, FirstMerge, ToMerge, BackingUp

\* Merges are counted as before if nothing is merged and no merger ends.
LEMMA NoMerge ==
  ASSUME FilesOK, MergesCounted, NEW p \in Procs, NEW step, Goto(p, step), Spent => Spent',
         UNCHANGED <<merges, kills>>, pc[p] \in Merged => step \in Merged \/ Spent'
  PROVE  MergesCounted'
  BY DEF MergesCounted, FilesOK, Goto, Merged

\* A backup is as torn as before if none is written.
LEMMA NoCopy ==
  ASSUME FilesOK, TornForCause, NEW p \in Procs, pc[p] # "copy", NEW step, Goto(p, step),
         UNCHANGED <<backup, merges, kills>>
  PROVE  TornForCause'
  BY DEF TornForCause, FilesOK, Goto

\* A step that leaves the store, the backup and what was read of them.
LEMMA NoWrite ==
  ASSUME FilesOK, NEW p \in Procs, NEW step, Goto(p, step), StoreIsBackedUp(p), OneImportOld,
         UNCHANGED <<store, backup, job, snapshot>>,
         step \notin {"copy", "read", "merge", "mark"}, step = "consume" => pc[p] = "mark"
  PROVE  StoreIsBackedUp(p)' /\ OneImportOld'
  <1>1. pc'[p] = step
    BY DEF FilesOK, Goto
  <1> QED
    BY <1>1 DEF StoreIsBackedUp, OneImportOld, Since

LEMMA AloneStep ==
  ASSUME LedgerInv, Inv, [Next]_vars, ~overlap'
  PROVE  Alone'
  <1>a. /\ FilesOK /\ Gated /\ (Spent => Spent')
        /\ FilesOK' /\ (~overlap => Alone)
    BY FilesStep, LedgerStep DEF Inv
  <1>b. ASSUME NEW p \in Procs, pc[p] # "idle", ~overlap
        PROVE  /\ OneAtATime /\ AppliedIsMerged /\ OneImportOld /\ TornForCause /\ MergesCounted
               /\ PlanIsItsOwn(p) /\ StoreIsBackedUp(p) /\ FirstMerge(p)
               /\ snapshot[p] \in [Sources -> Nat]
               /\ pc[p] \notin BackingUp => job[p] \in Sources
    BY <1>a, <1>b DEF FilesOK, Alone
  <1>c. ASSUME NEW p \in Procs, NEW step, Goto(p, step) PROVE pc'[p] = step
    BY <1>a, <1>c DEF FilesOK, Goto
  <1>d. ASSUME NEW p \in Procs, ~overlap, \A q \in Procs : pc[q] = "idle",
               NEW step \in {"unavailable?", "backup"}, Goto(p, step),
               job'[p] \in Sources => step = "unavailable?",
               UNCHANGED <<plan, store, backup, snapshot, kills, merges>>
        PROVE  Alone'
    <2>1. \A q \in Procs : pc'[q] = IF q = p THEN step ELSE "idle"
      BY <1>a, <1>d DEF FilesOK, Goto
    <2>2. AppliedIsMerged' /\ OneImportOld' /\ MergesCounted'
      BY <1>a, <1>d DEF Alone, AppliedIsMerged, OneImportOld, MergesCounted, Merged
    <2>3. TornForCause'
      BY <1>a, <1>d DEF Alone, TornForCause
    <2> QED
      BY <1>d, <2>1, <2>2, <2>3 DEF Alone, OneAtATime, PlanIsItsOwn, StoreIsBackedUp, FirstMerge,
         ToMerge, BackingUp
  <1> USE DEF Merged, ToMerge, BackingUp
  <1>1. ASSUME NEW p \in Procs, NEW s \in Sources, NEW withId \in BOOLEAN, StartApply(p, s, withId)
        PROVE  Alone'
    <2>1. ~overlap /\ \A q \in Procs : pc[q] = "idle"
      BY <1>1 DEF StartApply, Active
    <2>2. Goto(p, "unavailable?") /\ UNCHANGED <<plan, store, backup, snapshot, kills, merges>>
      BY <1>1 DEF StartApply
    <2> QED
      BY <1>d, <2>1, <2>2
  <1>2. ASSUME NEW p \in Procs, CreateBackup(p) PROVE Alone'
    <2>1. ~overlap /\ \A q \in Procs : pc[q] = "idle"
      BY <1>2 DEF CreateBackup, Active
    <2>2. /\ Goto(p, "backup") /\ job' = [job EXCEPT ![p] = NoSource]
          /\ UNCHANGED <<plan, store, backup, snapshot, kills, merges>>
      BY <1>2 DEF CreateBackup
    <2>3. job'[p] \notin Sources
      BY <1>a, <2>2, ImportAssumption DEF FilesOK
    <2> QED
      BY <1>d, <2>1, <2>2, <2>3
  <1>3. ASSUME NEW p \in Procs, CheckUnavailable(p) PROVE Alone'
    <2>1. /\ pc[p] = "unavailable?" /\ ~overlap
          /\ UNCHANGED <<plan, store, backup, job, snapshot, kills, merges>>
      BY <1>3 DEF CheckUnavailable
    <2>2. PICK step \in {"idle", "persist"} : Goto(p, step) /\ (step = "persist" => ~Spent)
      BY <1>3 DEF CheckUnavailable, Unavailable, Spent
    <2>3. pc'[p] = step /\ \A q \in Procs : q # p => pc[q] = "idle"
      BY <1>b, <1>c, <2>1, <2>2 DEF OneAtATime
    <2>4. FirstMerge(p)'
      BY <1>b, <2>1, <2>2, <2>3 DEF FirstMerge, MergesCounted
    <2>5. PlanIsItsOwn(p)' /\ AppliedIsMerged'
      BY <1>b, <2>1, <2>3 DEF PlanIsItsOwn, AppliedIsMerged
    <2>6. MergesCounted' /\ TornForCause' /\ StoreIsBackedUp(p)' /\ OneImportOld'
      BY <1>a, <1>b, <2>1, <2>2, NoMerge, NoCopy, NoWrite
    <2> QED
      BY <1>a, <1>b, <2>1, <2>2, <2>4, <2>5, <2>6, OneGoesOn
  <1>4. ASSUME NEW p \in Procs, Kill(p) PROVE Alone'
    <2>1. /\ pc[p] # "idle" /\ ~overlap /\ Goto(p, "idle") /\ kills' = kills + 1
          /\ UNCHANGED <<plan, store, backup, job, snapshot, merges>>
      BY <1>4 DEF Kill
    <2>2. pc'[p] = "idle" /\ merges \in Nat /\ kills \in Nat
      BY <1>a, <1>c, <2>1 DEF FilesOK
    <2>3. FirstMerge(p)' /\ PlanIsItsOwn(p)' /\ AppliedIsMerged' /\ TornForCause'
      BY <1>b, <2>1, <2>2 DEF FirstMerge, PlanIsItsOwn, AppliedIsMerged, TornForCause
    <2>4. StoreIsBackedUp(p)' /\ OneImportOld'
      BY <1>a, <1>b, <2>1, NoWrite
    <2>5. MergesCounted'
      BY <1>b, <2>1, <2>2 DEF MergesCounted
    <2> QED
      BY <1>a, <1>b, <2>1, <2>3, <2>4, <2>5, OneGoesOn
  <1>5. ASSUME NEW p \in Procs, Persist(p) PROVE Alone'
    <2>1. /\ pc[p] = "persist" /\ ~overlap /\ Goto(p, "approved?")
          /\ plan' = [status |-> "NEEDS_APPROVAL", source |-> job[p]]
          /\ UNCHANGED <<store, backup, job, snapshot, kills, merges>>
      BY <1>5 DEF Persist
    <2>2. pc'[p] = "approved?"
      BY <1>c, <2>1
    <2>3. FirstMerge(p)' /\ PlanIsItsOwn(p)' /\ AppliedIsMerged'
      BY <1>a, <1>b, <2>1, <2>2 DEF FirstMerge, PlanIsItsOwn, AppliedIsMerged, FilesOK
    <2>4. MergesCounted' /\ TornForCause' /\ StoreIsBackedUp(p)' /\ OneImportOld'
      BY <1>a, <1>b, <2>1, NoMerge, NoCopy, NoWrite
    <2> QED
      BY <1>a, <1>b, <2>1, <2>3, <2>4, OneGoesOn
  <1>6. ASSUME NEW p \in Procs, CheckApproved(p) PROVE Alone'
    <2>1. /\ pc[p] = "approved?" /\ ~overlap
          /\ UNCHANGED <<plan, store, backup, job, snapshot, kills, merges>>
      BY <1>6 DEF CheckApproved
    <2>2. PICK step \in {"backup", "ensure"} : Goto(p, step)
      BY <1>6 DEF CheckApproved
    <2>3. pc'[p] = step
      BY <1>c, <2>2
    <2>4. FirstMerge(p)' /\ PlanIsItsOwn(p)' /\ AppliedIsMerged'
      BY <1>b, <2>1, <2>2, <2>3 DEF FirstMerge, PlanIsItsOwn, AppliedIsMerged
    <2>5. MergesCounted' /\ TornForCause' /\ StoreIsBackedUp(p)' /\ OneImportOld'
      BY <1>a, <1>b, <2>1, <2>2, NoMerge, NoCopy, NoWrite
    <2> QED
      BY <1>a, <1>b, <2>1, <2>2, <2>4, <2>5, OneGoesOn
  <1>7. ASSUME NEW p \in Procs, Ensure(p) PROVE Alone'
    <2>1. /\ pc[p] = "ensure" /\ ~overlap /\ Goto(p, "idle")
          /\ UNCHANGED <<plan, store, backup, job, snapshot, kills, merges>>
      BY <1>7 DEF Ensure
    <2>2. pc'[p] = "idle"
      BY <1>c, <2>1
    <2>3. FirstMerge(p)' /\ PlanIsItsOwn(p)' /\ AppliedIsMerged'
      BY <1>a, <1>b, <2>1, <2>2 DEF FirstMerge, PlanIsItsOwn, AppliedIsMerged, FilesOK
    <2>4. MergesCounted' /\ TornForCause' /\ StoreIsBackedUp(p)' /\ OneImportOld'
      BY <1>a, <1>b, <2>1, NoMerge, NoCopy, NoWrite
    <2> QED
      BY <1>a, <1>b, <2>1, <2>3, <2>4, OneGoesOn
  <1>8. ASSUME NEW p \in Procs, BackUp(p) PROVE Alone'
    <2>1. /\ pc[p] = "backup" /\ ~overlap /\ Goto(p, "copy")
          /\ backup' = [backup EXCEPT !.whole = FALSE] /\ snapshot' = [snapshot EXCEPT ![p] = store]
          /\ UNCHANGED <<plan, store, job, kills, merges>>
      BY <1>8 DEF BackUp
    <2>2. pc'[p] = "copy" /\ backup'.whole = FALSE /\ snapshot'[p] = store
      BY <1>a, <1>c, <2>1 DEF FilesOK
    <2>3. FirstMerge(p)' /\ PlanIsItsOwn(p)' /\ AppliedIsMerged'
      BY <1>b, <2>1, <2>2 DEF FirstMerge, PlanIsItsOwn, AppliedIsMerged
    <2>4. StoreIsBackedUp(p)' /\ OneImportOld' /\ TornForCause'
      BY <2>1, <2>2 DEF StoreIsBackedUp, OneImportOld, TornForCause
    <2>5. MergesCounted'
      BY <1>a, <1>b, <2>1, NoMerge
    <2> QED
      BY <1>a, <1>b, <2>1, <2>3, <2>4, <2>5, OneGoesOn
  <1>9. ASSUME NEW p \in Procs, FillBackup(p) PROVE Alone'
    <2>1. /\ pc[p] = "copy" /\ ~overlap
          /\ \E whole \in {TRUE, ~backup.whole} : backup' = [whole |-> whole, of |-> snapshot[p]]
          /\ UNCHANGED <<plan, store, job, snapshot, kills, merges>>
      BY <1>9 DEF FillBackup
    <2>2. PICK step \in {"idle", "read"} : Goto(p, step)
      BY <1>9 DEF FillBackup
    <2>3. backup' = [whole |-> TRUE, of |-> store] /\ pc'[p] = step
      BY <1>b, <1>c, <2>1, <2>2 DEF StoreIsBackedUp
    <2>4. FirstMerge(p)' /\ PlanIsItsOwn(p)' /\ AppliedIsMerged'
      BY <1>b, <2>1, <2>2, <2>3 DEF FirstMerge, PlanIsItsOwn, AppliedIsMerged
    <2>5. StoreIsBackedUp(p)' /\ OneImportOld' /\ TornForCause'
      BY <2>1, <2>2, <2>3 DEF StoreIsBackedUp, OneImportOld, TornForCause, Since
    <2>6. MergesCounted'
      BY <1>a, <1>b, <2>1, <2>2, NoMerge
    <2> QED
      BY <1>a, <1>b, <2>1, <2>2, <2>4, <2>5, <2>6, OneGoesOn
  <1>10. ASSUME NEW p \in Procs, ReadStore(p) PROVE Alone'
    <2>1. /\ pc[p] = "read" /\ ~overlap /\ Goto(p, "merge")
          /\ snapshot' = [snapshot EXCEPT ![p] = store]
          /\ UNCHANGED <<plan, store, backup, job, kills, merges>>
      BY <1>10 DEF ReadStore
    <2>2. pc'[p] = "merge" /\ snapshot'[p] = store
      BY <1>a, <1>c, <2>1 DEF FilesOK
    <2>3. FirstMerge(p)' /\ PlanIsItsOwn(p)' /\ AppliedIsMerged'
      BY <1>b, <2>1, <2>2 DEF FirstMerge, PlanIsItsOwn, AppliedIsMerged
    <2>4. StoreIsBackedUp(p)' /\ OneImportOld'
      BY <1>b, <2>1, <2>2 DEF StoreIsBackedUp, OneImportOld, Since
    <2>5. MergesCounted' /\ TornForCause'
      BY <1>a, <1>b, <2>1, NoMerge, NoCopy
    <2> QED
      BY <1>a, <1>b, <2>1, <2>3, <2>4, <2>5, OneGoesOn
  <1>11. ASSUME NEW p \in Procs, Merge(p) PROVE Alone'
    <2>1. /\ pc[p] = "merge" /\ ~overlap /\ Goto(p, "mark") /\ merges' = merges + 1
          /\ store' = [snapshot[p] EXCEPT ![job[p]] = @ + 1]
          /\ UNCHANGED <<plan, backup, job, snapshot, kills>>
      BY <1>11 DEF Merge
    <2>2. pc'[p] = "mark" /\ job[p] \in Sources /\ store \in [Sources -> Nat]
      BY <1>a, <1>b, <1>c, <2>1 DEF FilesOK
    <2>3. backup.whole /\ backup.of = store /\ snapshot[p] = store
      BY <1>b, <2>1 DEF StoreIsBackedUp, Since
    <2>4. store' = [store EXCEPT ![job[p]] = @ + 1] /\ store'[job[p]] > 0
      BY <2>1, <2>2, <2>3
    <2>5. FirstMerge(p)' /\ StoreIsBackedUp(p)' /\ OneImportOld' /\ TornForCause'
      BY <2>1, <2>2, <2>3, <2>4 DEF FirstMerge, StoreIsBackedUp, OneImportOld, TornForCause, Since
    <2>6. PlanIsItsOwn(p)' /\ AppliedIsMerged'
      BY <1>b, <2>1, <2>2, <2>4 DEF PlanIsItsOwn, AppliedIsMerged
    <2>7. MergesCounted'
      BY <1>a, <1>b, <2>1, <2>2 DEF MergesCounted, FirstMerge, FilesOK
    <2> QED
      BY <1>a, <1>b, <2>1, <2>5, <2>6, <2>7, OneGoesOn
  <1>12. ASSUME NEW p \in Procs, Mark(p) PROVE Alone'
    <2>1. /\ pc[p] = "mark" /\ ~overlap /\ Goto(p, "consume")
          /\ plan' = [plan EXCEPT !.status = "APPLIED"]
          /\ UNCHANGED <<store, backup, job, snapshot, kills, merges>>
      BY <1>12 DEF Mark
    <2>2. pc'[p] = "consume"
      BY <1>c, <2>1
    <2>3. FirstMerge(p)' /\ PlanIsItsOwn(p)' /\ AppliedIsMerged'
      BY <1>a, <1>b, <2>1, <2>2 DEF FirstMerge, PlanIsItsOwn, AppliedIsMerged, FilesOK
    <2>4. MergesCounted' /\ TornForCause' /\ StoreIsBackedUp(p)' /\ OneImportOld'
      BY <1>a, <1>b, <2>1, NoMerge, NoCopy, NoWrite
    <2> QED
      BY <1>a, <1>b, <2>1, <2>3, <2>4, OneGoesOn
  <1>13. ASSUME NEW p \in Procs, Consume(p) PROVE Alone'
    <2>1. /\ pc[p] = "consume" /\ ~overlap /\ Goto(p, "idle") /\ L!Consume(ImportId, ImportPlan)
          /\ UNCHANGED <<plan, store, backup, job, snapshot, kills, merges>>
      BY <1>13 DEF Consume
    <2>2. pc'[p] = "idle"
      BY <1>c, <2>1
    <2>3. Spent'
      <3>1. /\ ledger[ImportId].plan = ImportPlan /\ DOMAIN ledger = {ImportId}
            /\ ledger' = L!ConsumeIn(ledger, ImportId, ImportPlan)
        BY <1>a, <2>1 DEF Gated, Through, PastGate, LedgerInv, L!Consume
      <3>2. ledger'[ImportId].plan = ImportPlan /\ ledger'[ImportId].status = "consumed"
        BY <3>1 DEF L!ConsumeIn
      <3> QED
        BY <3>2 DEF Spent, Status, L!HasStatus
    <2>4. FirstMerge(p)' /\ PlanIsItsOwn(p)' /\ AppliedIsMerged'
      BY <1>b, <2>1, <2>2 DEF FirstMerge, PlanIsItsOwn, AppliedIsMerged
    <2>5. MergesCounted' /\ TornForCause' /\ StoreIsBackedUp(p)' /\ OneImportOld'
      BY <1>a, <1>b, <2>1, <2>3, NoMerge, NoCopy, NoWrite
    <2> QED
      BY <1>a, <1>b, <2>1, <2>4, <2>5, OneGoesOn
  <1>14. CASE \E s \in Sources : PlanImport(s)
    <2>1. /\ ~overlap /\ \A q \in Procs : pc[q] = "idle"
          /\ UNCHANGED <<store, backup, pc, job, snapshot, kills, merges>>
          /\ plan'.status = "NEEDS_APPROVAL"
      <3>1. PICK s \in Sources : PlanImport(s)
        BY <1>14
      <3>2. ~overlap /\ Active = {}
        BY <3>1 DEF PlanImport
      <3>3. \A q \in Procs : pc[q] = "idle"
        BY <3>2 DEF Active
      <3> QED
        BY <3>1, <3>2, <3>3 DEF PlanImport
    <2>2. AppliedIsMerged' /\ OneImportOld' /\ TornForCause' /\ MergesCounted'
      BY <1>a, <2>1 DEF Alone, AppliedIsMerged, OneImportOld, TornForCause, MergesCounted
    <2> QED
      BY <2>1, <2>2 DEF Alone, OneAtATime, PlanIsItsOwn, StoreIsBackedUp, FirstMerge
  <1>15. CASE (\E actor \in L!Actors : Decide(actor)) \/ UNCHANGED vars
    <2>1. UNCHANGED <<plan, store, backup, pc, job, snapshot, kills, merges, overlap>>
      BY <1>15 DEF Decide, vars
    <2>2. MergesCounted'
      BY <1>a, <2>1 DEF Alone, MergesCounted
    <2> QED
      BY <1>a, <2>1, <2>2 DEF Alone, OneAtATime, PlanIsItsOwn, StoreIsBackedUp, FirstMerge,
         AppliedIsMerged, OneImportOld, TornForCause, Since
  <1> QED
    BY <1>1, <1>2, <1>3, <1>4, <1>5, <1>6, <1>7, <1>8, <1>9, <1>10, <1>11, <1>12, <1>13, <1>14,
       <1>15 DEF Next

LEMMA StepInv == ASSUME LedgerInv PROVE Inv /\ [Next]_vars => Inv'
  BY FilesStep, AloneStep DEF Inv

LEMMA LedgerInit == Init => LedgerInv
  BY DEF Init, LedgerInv, L!Init, L!EmptyLedger, L!NoRecord

\* What holds throughout.
LEMMA Throughout == Spec => [](LedgerInv /\ Inv)
  <1>1. LedgerInv /\ Inv /\ [Next]_vars => LedgerInv' /\ Inv'
    BY LedgerStep, StepInv
  <1> QED
    BY <1>1, LedgerInit, InitInv, PTL DEF Spec

-----------------------------------------------------------------------------
(* As long as commands do not overlap, a plan on file as APPLIED is one    *)
(* whose rows are in the store (_mark_import_plan_applied).                *)
THEOREM AppliedIsInTheStore == Spec => []AppliedMeansMerged
  <1>1. Inv => AppliedMeansMerged
    BY DEF Inv, Alone, AppliedIsMerged, AppliedMeansMerged
  <1> QED
    BY <1>1, Throughout, PTL

(* As long as commands do not overlap, what an import does can be undone   *)
(* from before it merges until it is done, a whole backup is never more    *)
(* than one import old, and it takes a kill to leave a torn one            *)
(* (create_backup, which writes in place).                                 *)
THEOREM ImportsCanBeUndone == Spec => []BackupOneImportOld
  <1>1. Inv => BackupOneImportOld
    BY DEF Inv, Alone, StoreIsBackedUp, OneImportOld, TornForCause, BackupOneImportOld
  <1> QED
    BY <1>1, Throughout, PTL

(* Nothing is merged without a teacher's grant, whatever overlaps; and as  *)
(* long as commands do not, one approval is one merge and one more for     *)
(* each import killed before it consumed (apply_import).                   *)
THEOREM MergesAreAccountedFor == Spec => []MergesAccountedFor
  <1>1. LedgerInv /\ Inv => MergesAccountedFor
    <2> SUFFICES ASSUME LedgerInv, Inv PROVE MergesAccountedFor
      OBVIOUS
    <2>1. merges > 0 => ImportId \in granted
      BY DEF LedgerInv, Inv, Gated
    <2>2. ~overlap => merges <= kills + 1
      BY DEF Inv, FilesOK, Alone, MergesCounted
    <2> QED
      BY <2>1, <2>2 DEF MergesAccountedFor
  <1> QED
    BY <1>1, Throughout, PTL

-----------------------------------------------------------------------------
(* Write actions: the statements of a run.                                 *)

\* What the statements before the k-th make of a database.
Fresh(r, d) == d[Session(ClassOf[r])] = "none"
HasStub(r, d, s) ==
  d[Stub(ClassOf[r], s)] # "none" \/ (Fresh(r, d) /\ s \in Enrolled[ClassOf[r]])
ClassSoFar(r, d, k) ==
  [row \in Rows |->
     IF k <= 2 THEN d[row]
     ELSE IF row = Session(ClassOf[r]) /\ Fresh(r, d) THEN r
     ELSE IF \E i \in DOMAIN Payload[r] :
               i + 3 < k /\ row = Stub(ClassOf[r], Payload[r][i]) /\ HasStub(r, d, Payload[r][i])
          THEN r
     ELSE IF \E s \in Students : row = Stub(ClassOf[r], s) /\ HasStub(r, d, s) /\ d[row] = "none"
          THEN "null"
     ELSE d[row]]
ScoresSoFar(r, d, k) ==
  [row \in Rows |->
     IF row = Test /\ d[Test] = "none" /\ k > 3 THEN r
     ELSE IF \E i \in DOMAIN Payload[r] :
               /\ row = Result(ClassOf[r], Payload[r][i])
               /\ \/ 2 * i + 3 < k /\ d[row] = "none"
                  \/ i + 2 * Len(Payload[r]) + 4 < k
          THEN r
     ELSE d[row]]
SoFar(r, d, k) ==
  IF Template[r] = "record-class" THEN ClassSoFar(r, d, k) ELSE ScoresSoFar(r, d, k)

\* The ids a run has captured when it is at its k-th statement.
KnowsItsRows(r, caps, k) ==
  /\ k > 1 => caps.class = ClassOf[r]
  /\ k > (IF Template[r] = "record-class" THEN 3 ELSE 2) => caps.session = ClassOf[r]

-----------------------------------------------------------------------------
\* What a sequence put before another leaves of both.
LEMMA Joined ==
  ASSUME NEW S, NEW s \in Seq(S), NEW t \in Seq(S)
  PROVE  /\ s \o t \in Seq(S) /\ Len(s \o t) = Len(s) + Len(t)
         /\ \A i \in 1..Len(s) : (s \o t)[i] = s[i]
         /\ \A i \in 1..Len(t) : (s \o t)[Len(s) + i] = t[i]
  <1>1. Len(s) \in Nat /\ Len(t) \in Nat
    OBVIOUS
  <1>2. \A i \in 1..(Len(s) + Len(t)) : (s \o t)[i] = IF i <= Len(s) THEN s[i] ELSE t[i - Len(s)]
    BY ConcatProperties
  <1>3. ASSUME NEW i \in 1..Len(t) PROVE (s \o t)[Len(s) + i] = t[i]
    <2>1. Len(s) + i \in 1..(Len(s) + Len(t)) /\ ~(Len(s) + i <= Len(s)) /\ Len(s) + i - Len(s) = i
      BY <1>1
    <2> QED
      BY <1>2, <2>1
  <1>4. ASSUME NEW i \in 1..Len(s) PROVE (s \o t)[i] = s[i]
    <2>1. i \in 1..(Len(s) + Len(t)) /\ i <= Len(s)
      BY <1>1
    <2> QED
      BY <1>2, <2>1
  <1> QED
    BY <1>3, <1>4, ConcatProperties

\* The same of three.
LEMMA JoinedThree ==
  ASSUME NEW S, NEW s \in Seq(S), NEW t \in Seq(S), NEW u \in Seq(S)
  PROVE  /\ s \o t \o u \in Seq(S) /\ Len(s \o t \o u) = Len(s) + Len(t) + Len(u)
         /\ \A i \in 1..Len(s) : (s \o t \o u)[i] = s[i]
         /\ \A i \in 1..Len(t) : (s \o t \o u)[Len(s) + i] = t[i]
         /\ \A i \in 1..Len(u) : (s \o t \o u)[Len(s) + Len(t) + i] = u[i]
  <1> DEFINE start == s \o t
  <1>1. /\ start \in Seq(S) /\ Len(start) = Len(s) + Len(t)
        /\ \A i \in 1..Len(s) : start[i] = s[i]
        /\ \A i \in 1..Len(t) : start[Len(s) + i] = t[i]
    BY Joined
  <1> HIDE DEF start
  <1>2. /\ start \o u \in Seq(S) /\ Len(start \o u) = Len(start) + Len(u)
        /\ \A i \in 1..Len(start) : (start \o u)[i] = start[i]
        /\ \A i \in 1..Len(u) : (start \o u)[Len(start) + i] = u[i]
    <2>1. \A w \in Seq(S) :
            /\ w \o u \in Seq(S) /\ Len(w \o u) = Len(w) + Len(u)
            /\ \A i \in 1..Len(w) : (w \o u)[i] = w[i]
            /\ \A i \in 1..Len(u) : (w \o u)[Len(w) + i] = u[i]
      BY Joined
    <2> QED
      BY <1>1, <2>1
  <1>3. Len(s) \in Nat /\ Len(t) \in Nat /\ Len(u) \in Nat
    OBVIOUS
  <1>4. \A i \in 1..Len(s) : (start \o u)[i] = s[i]
    BY <1>1, <1>2, <1>3
  <1>5. \A i \in 1..Len(t) : (start \o u)[Len(s) + i] = t[i]
    BY <1>1, <1>2, <1>3
  <1> QED
    BY <1>1, <1>2, <1>4, <1>5 DEF start

\* The statements of a record-class run, by their place.
LEMMA ClassPlan ==
  ASSUME NEW r \in Runs, Template[r] = "record-class"
  PROVE  /\ Len(Payload[r]) \in Nat /\ Len(Plan(r)) = Len(Payload[r]) + 3
         /\ DOMAIN Payload[r] = 1..Len(Payload[r])
         /\ \A i \in DOMAIN Payload[r] : Payload[r][i] \in Students
         /\ Plan(r)[1] = Statement("select", "class")
         /\ Plan(r)[2] = Statement("ignore", "session")
         /\ Plan(r)[3] = Statement("select", "session")
         /\ \A i \in DOMAIN Payload[r] :
              Plan(r)[i + 3] = ForStudent("update", "stub", Payload[r][i])
  <1> DEFINE n == Len(Payload[r])
             head == <<Statement("select", "class")>>
             ensure == EnsureRow("session")
             all == Updates(r, "stub")
  <1>1. /\ Payload[r] \in Seq(Students) /\ n \in Nat /\ DOMAIN Payload[r] = 1..n
        /\ \A i \in DOMAIN Payload[r] : Payload[r][i] \in Students
    BY WriteAssumption DEF WriteAssumption
  <1>2. PICK S : /\ head \in Seq(S) /\ ensure \in Seq(S) /\ all \in Seq(S)
    <2> DEFINE S == {Statement("select", "class")} \cup {ensure[1], ensure[2]} \cup {all[i] : i \in 1..n}
    <2>1. head \in Seq(S)
      OBVIOUS
    <2>2. ensure \in Seq(S)
      BY DEF EnsureRow
    <2>3. all \in Seq(S)
      BY <1>1 DEF Updates
    <2> QED
      BY <2>1, <2>2, <2>3
  <1>3. Len(head) = 1 /\ head[1] = Statement("select", "class")
    OBVIOUS
  <1>4. /\ Len(ensure) = 2
        /\ ensure[1] = Statement("ignore", "session") /\ ensure[2] = Statement("select", "session")
    BY DEF EnsureRow
  <1>5. Len(all) = n /\ \A i \in 1..n : all[i] = ForStudent("update", "stub", Payload[r][i])
    BY <1>1 DEF Updates
  <1>6. Plan(r) = (head \o ensure) \o all
    BY DEF Plan
  <1> HIDE DEF head, ensure, all
  <1>7. /\ Len(head \o ensure \o all) = Len(head) + Len(ensure) + Len(all)
        /\ \A i \in 1..Len(head) : (head \o ensure \o all)[i] = head[i]
        /\ \A i \in 1..Len(ensure) : (head \o ensure \o all)[Len(head) + i] = ensure[i]
        /\ \A i \in 1..Len(all) : (head \o ensure \o all)[Len(head) + Len(ensure) + i] = all[i]
    BY <1>2, JoinedThree
  <1>8. ASSUME NEW i \in 1..n PROVE Plan(r)[i + 3] = all[i]
    <2>1. i \in 1..Len(all) /\ Len(head) + Len(ensure) + i = i + 3
      BY <1>1, <1>3, <1>4, <1>5
    <2> QED
      BY <1>6, <1>7, <2>1
  <1>9. /\ Len(Plan(r)) = n + 3 /\ Plan(r)[1] = head[1]
        /\ Plan(r)[2] = ensure[1] /\ Plan(r)[3] = ensure[2]
    BY <1>1, <1>3, <1>4, <1>5, <1>6, <1>7
  <1> QED
    BY <1>1, <1>3, <1>4, <1>5, <1>8, <1>9

\* The statements of a record-test-scores run, by their place.
LEMMA ScoresPlan ==
  ASSUME NEW r \in Runs, Template[r] # "record-class"
  PROVE  /\ Len(Payload[r]) \in Nat /\ Len(Plan(r)) = 3 * Len(Payload[r]) + 4
         /\ DOMAIN Payload[r] = 1..Len(Payload[r])
         /\ \A i \in DOMAIN Payload[r] : Payload[r][i] \in Students
         /\ Plan(r)[1] = Statement("select", "class")
         /\ Plan(r)[2] = Statement("select", "session")
         /\ Plan(r)[3] = Statement("ignore", "test")
         /\ Plan(r)[4] = Statement("select", "test")
         /\ \A i \in DOMAIN Payload[r] :
              /\ Plan(r)[2 * i + 3] = ForStudent("ignore", "result", Payload[r][i])
              /\ Plan(r)[2 * i + 4] = ForStudent("select", "result", Payload[r][i])
              /\ Plan(r)[i + 2 * Len(Payload[r]) + 4] = ForStudent("update", "result", Payload[r][i])
  <1> DEFINE n == Len(Payload[r])
             head == <<Statement("select", "class"), Statement("select", "session")>>
             ensure == EnsureRow("test")
             start == head \o ensure
             results == EnsureResults(r)
             all == Updates(r, "result")
  <1>1. /\ Payload[r] \in Seq(Students) /\ n \in Nat /\ DOMAIN Payload[r] = 1..n
        /\ \A i \in DOMAIN Payload[r] : Payload[r][i] \in Students
    BY WriteAssumption DEF WriteAssumption
  <1>2. PICK S : head \in Seq(S) /\ ensure \in Seq(S) /\ results \in Seq(S) /\ all \in Seq(S)
    <2> DEFINE S == {head[1], head[2]} \cup {ensure[1], ensure[2]}
                    \cup {results[i] : i \in 1..(2 * n)} \cup {all[i] : i \in 1..n}
    <2>1. head \in Seq(S)
      OBVIOUS
    <2>2. ensure \in Seq(S)
      BY DEF EnsureRow
    <2>3. results \in Seq(S)
      <3>1. 2 * n \in Nat
        BY <1>1
      <3>2. results \in [1..(2 * n) -> {results[i] : i \in 1..(2 * n)}]
        BY DEF EnsureResults
      <3> QED
        BY <3>1, <3>2
    <2>4. all \in Seq(S)
      BY <1>1 DEF Updates
    <2> QED
      BY <2>1, <2>2, <2>3, <2>4
  <1>3. /\ Len(head) = 2
        /\ head[1] = Statement("select", "class") /\ head[2] = Statement("select", "session")
    OBVIOUS
  <1>4. /\ Len(ensure) = 2
        /\ ensure[1] = Statement("ignore", "test") /\ ensure[2] = Statement("select", "test")
    BY DEF EnsureRow
  <1>5. Len(all) = n /\ \A i \in 1..n : all[i] = ForStudent("update", "result", Payload[r][i])
    BY <1>1 DEF Updates
  <1>6. /\ Len(results) = 2 * n
        /\ \A i \in 1..n : /\ results[2 * i - 1] = ForStudent("ignore", "result", Payload[r][i])
                           /\ results[2 * i] = ForStudent("select", "result", Payload[r][i])
    <2>1. 2 * n \in Nat
      BY <1>1
    <2>2. Len(results) = 2 * n
      BY <2>1 DEF EnsureResults
    <2>3. ASSUME NEW i \in 1..n
          PROVE  /\ results[2 * i - 1] = ForStudent("ignore", "result", Payload[r][i])
                 /\ results[2 * i] = ForStudent("select", "result", Payload[r][i])
      <3>1. /\ 2 * i - 1 \in 1..(2 * n) /\ (2 * i - 1) % 2 = 1 /\ (2 * i - 1 + 1) \div 2 = i
            /\ 2 * i \in 1..(2 * n) /\ (2 * i) % 2 # 1 /\ (2 * i + 1) \div 2 = i
        BY <1>1
      <3> QED
        BY <3>1 DEF EnsureResults
    <2> QED
      BY <2>2, <2>3
  <1>7. Plan(r) = start \o results \o all
    BY DEF Plan
  <1> HIDE DEF head, ensure, results, all
  <1>8. /\ start \in Seq(S) /\ Len(start) = Len(head) + Len(ensure)
        /\ \A i \in 1..Len(head) : start[i] = head[i]
        /\ \A i \in 1..Len(ensure) : start[Len(head) + i] = ensure[i]
    BY <1>2, Joined
  <1> HIDE DEF start
  <1>9. /\ Len(start \o results \o all) = Len(start) + Len(results) + Len(all)
        /\ \A i \in 1..Len(start) : (start \o results \o all)[i] = start[i]
        /\ \A i \in 1..Len(results) : (start \o results \o all)[Len(start) + i] = results[i]
        /\ \A i \in 1..Len(all) :
             (start \o results \o all)[Len(start) + Len(results) + i] = all[i]
    <2>1. \A w \in Seq(S) :
            /\ Len(w \o results \o all) = Len(w) + Len(results) + Len(all)
            /\ \A i \in 1..Len(w) : (w \o results \o all)[i] = w[i]
            /\ \A i \in 1..Len(results) : (w \o results \o all)[Len(w) + i] = results[i]
            /\ \A i \in 1..Len(all) : (w \o results \o all)[Len(w) + Len(results) + i] = all[i]
      BY <1>2, JoinedThree
    <2> QED
      BY <1>8, <2>1
  <1>10. Len(start) = 4 /\ start[1] = head[1] /\ start[2] = head[2]
         /\ start[3] = ensure[1] /\ start[4] = ensure[2]
    BY <1>3, <1>4, <1>8
  <1>11. /\ Len(Plan(r)) = 3 * n + 4 /\ Plan(r)[1] = start[1] /\ Plan(r)[2] = start[2]
         /\ Plan(r)[3] = start[3] /\ Plan(r)[4] = start[4]
    BY <1>1, <1>5, <1>6, <1>7, <1>9, <1>10
  <1>12. ASSUME NEW i \in 1..n
         PROVE  /\ Plan(r)[2 * i + 3] = results[2 * i - 1] /\ Plan(r)[2 * i + 4] = results[2 * i]
                /\ Plan(r)[i + 2 * n + 4] = all[i]
    <2>1. /\ 2 * i - 1 \in 1..Len(results) /\ Len(start) + (2 * i - 1) = 2 * i + 3
          /\ 2 * i \in 1..Len(results) /\ Len(start) + 2 * i = 2 * i + 4
      BY <1>1, <1>6, <1>10
    <2>2. i \in 1..Len(all) /\ Len(start) + Len(results) + i = i + 2 * n + 4
      BY <1>1, <1>5, <1>6, <1>10
    <2> QED
      BY <1>7, <1>9, <2>1, <2>2
  <1> QED
    BY <1>1, <1>3, <1>4, <1>5, <1>6, <1>10, <1>11, <1>12

\* The places of the statements about students' results.
LEMMA ScoresPlaces ==
  ASSUME NEW r \in Runs, Template[r] # "record-class", NEW k \in 1..Len(Plan(r)), k \notin {1, 2, 3, 4}
  PROVE  \E i \in DOMAIN Payload[r] :
           k = 2 * i + 3 \/ k = 2 * i + 4 \/ k = i + 2 * Len(Payload[r]) + 4
  <1> DEFINE n == Len(Payload[r])
  <1>1. n \in Nat /\ Len(Plan(r)) = 3 * n + 4 /\ DOMAIN Payload[r] = 1..n
    BY ScoresPlan
  <1>2. CASE k > 2 * n + 4
    <2>1. k - 2 * n - 4 \in 1..n /\ k = (k - 2 * n - 4) + 2 * n + 4
      BY <1>1, <1>2
    <2> QED
      BY <1>1, <2>1
  <1>3. CASE k <= 2 * n + 4
    <2> DEFINE i == (k - 3) \div 2
    <2>1. k \in Nat /\ k > 4
      BY <1>1
    <2>2. i \in 1..n /\ (k = 2 * i + 3 \/ k = 2 * i + 4)
      BY <1>1, <1>3, <2>1
    <2> QED
      BY <1>1, <2>2
  <1> QED
    BY <1>1, <1>2, <1>3

\* The rows of a database are different rows.
LEMMA RowsDiffer ==
  /\ Test # Index
  /\ \A c, s : Stub(c, s) # Test /\ Stub(c, s) # Index
               /\ Result(c, s) # Test /\ Result(c, s) # Index
  /\ \A c : /\ Session(c) # Test /\ Session(c) # Index
            /\ Class(c) # Test /\ Class(c) # Index
  /\ \A c, e, s : /\ Stub(c, s) # Session(e) /\ Result(c, s) # Session(e)
                  /\ Stub(c, s) # Class(e) /\ Result(c, s) # Class(e)
  /\ \A c, e : Class(c) # Session(e) /\ (Session(c) = Session(e) => c = e)
  /\ \A c, e, s, u : /\ Stub(c, s) # Result(e, u)
                     /\ Stub(c, s) = Stub(e, u) => c = e /\ s = u
                     /\ Result(c, s) = Result(e, u) => c = e /\ s = u
  BY DEF Test, Index, Stub, Result, Session, Class

\* Runs are not the marks of an empty row.
LEMMA RunsAreRuns == \A r \in Runs : r # "none" /\ r # "null"
  BY WriteAssumption DEF WriteAssumption

\* What statements make of a database is one.
LEMMA SoFarTyped ==
  ASSUME NEW r \in Runs, NEW d \in Databases, NEW k PROVE SoFar(r, d, k) \in Databases
  <1>1. ClassSoFar(r, d, k) \in Databases
    BY DEF ClassSoFar, Databases
  <1>2. ScoresSoFar(r, d, k) \in Databases
    BY DEF ScoresSoFar, Databases
  <1> QED
    BY <1>1, <1>2 DEF SoFar

\* At its first statement a run has changed nothing.
LEMMA SoFarStarts ==
  ASSUME NEW r \in Runs, NEW d \in Databases PROVE SoFar(r, d, 1) = d
  <1>1. d = [row \in Rows |-> d[row]]
    BY DEF Databases
  <1>2. CASE Template[r] = "record-class"
    BY <1>1, <1>2 DEF SoFar, ClassSoFar
  <1>3. CASE Template[r] # "record-class"
    <2>1. \A i \in DOMAIN Payload[r] : ~(2 * i + 3 < 1) /\ ~(i + 2 * Len(Payload[r]) + 4 < 1)
      BY <1>3, ScoresPlan
    <2> QED
      BY <1>1, <1>3, <2>1 DEF SoFar, ScoresSoFar
  <1> QED
    BY <1>2, <1>3

\* Past its last one it has done the whole of what it should.
LEMMA SoFarEnds ==
  ASSUME NEW r \in Runs, NEW d \in Databases
  PROVE  SoFar(r, d, Len(Plan(r)) + 1) = Intended(r, d)
  <1> DEFINE c == ClassOf[r]
             k == Len(Plan(r)) + 1
  <1>1. c \in Classes
    BY WriteAssumption DEF WriteAssumption
  <1>2. CASE Template[r] = "record-class"
    <2>1. k > 2 /\ \A i \in DOMAIN Payload[r] : i + 3 < k
      BY <1>2, ClassPlan
    <2>2. \A row \in Rows : SoFar(r, d, k)[row] = Intended(r, d)[row]
      <3> SUFFICES ASSUME NEW row \in Rows PROVE ClassSoFar(r, d, k)[row] = Intended(r, d)[row]
        BY <1>2 DEF SoFar
      <3>1. (\E i \in DOMAIN Payload[r] :
               i + 3 < k /\ row = Stub(c, Payload[r][i]) /\ HasStub(r, d, Payload[r][i]))
            <=> \E s \in {Payload[r][i] : i \in DOMAIN Payload[r]} :
                  row = Stub(c, s) /\ HasStub(r, d, s)
        BY <2>1
      <3> DEFINE listed == {Payload[r][i] : i \in DOMAIN Payload[r]}
                 fresh == row = Session(c) /\ Fresh(r, d)
                 own == \E s \in listed : row = Stub(c, s) /\ HasStub(r, d, s)
                 made == \E s \in Students : row = Stub(c, s) /\ HasStub(r, d, s) /\ d[row] = "none"
      <3>2. ClassSoFar(r, d, k)[row] =
              IF fresh THEN r ELSE IF own THEN r ELSE IF made THEN "null" ELSE d[row]
        <4>1. ~(k <= 2)
          BY <1>2, ClassPlan
        <4> HIDE DEF k, own
        <4> QED
          BY <3>1, <4>1 DEF ClassSoFar, own
      <3>3. Intended(r, d)[row] =
              IF fresh THEN r ELSE IF own THEN r ELSE IF made THEN "null" ELSE d[row]
        BY <1>2 DEF Intended, HasStub, Fresh
      <3> QED
        BY <3>2, <3>3
    <2>3. SoFar(r, d, k) = [row \in Rows |-> SoFar(r, d, k)[row]]
      BY <1>2 DEF SoFar, ClassSoFar
    <2>4. Intended(r, d) = [row \in Rows |-> Intended(r, d)[row]]
      BY <1>2 DEF Intended
    <2> QED
      BY <2>2, <2>3, <2>4
  <1>3. CASE Template[r] # "record-class"
    <2>1. k > 3 /\ \A i \in DOMAIN Payload[r] : i + 2 * Len(Payload[r]) + 4 < k
      BY <1>3, ScoresPlan
    <2>2. ASSUME NEW row \in Rows PROVE ScoresSoFar(r, d, k)[row] = Intended(r, d)[row]
      <3>1. (\E i \in DOMAIN Payload[r] :
               /\ row = Result(c, Payload[r][i])
               /\ \/ 2 * i + 3 < k /\ d[row] = "none"
                  \/ i + 2 * Len(Payload[r]) + 4 < k)
            <=> row \in {Result(c, s) : s \in {Payload[r][i] : i \in DOMAIN Payload[r]}}
        BY <2>1
      <3> HIDE DEF k
      <3> QED
        BY <1>3, <2>1, <3>1 DEF ScoresSoFar, Intended
    <2>3. SoFar(r, d, k) = [row \in Rows |-> ScoresSoFar(r, d, k)[row]]
      BY <1>3 DEF SoFar, ScoresSoFar
    <2>4. Intended(r, d) = [row \in Rows |-> Intended(r, d)[row]]
      BY <1>3 DEF Intended
    <2> QED
      BY <2>2, <2>3, <2>4
  <1> QED
    BY <1>2, <1>3

\* What one more statement makes of what the earlier ones made.
Applied(r, st, row, w) ==
  CASE st.op = "select" -> w
    [] st.op = "ignore" -> InsertOrIgnore(w, row, r)
    [] st.op = "update" -> IF w[row] = "none" THEN w ELSE [w EXCEPT ![row] = r]

\* Each statement takes a record-class run from one place to the next.
LEMMA ClassStep ==
  ASSUME NEW r \in Runs, NEW d \in Databases, NEW caps, NEW k \in 1..Len(Plan(r)),
         Template[r] = "record-class", KnowsItsRows(r, caps, k)
  PROVE  LET st == Plan(r)[k] IN
         SoFar(r, d, k + 1) = Applied(r, st, Target(r, st, caps), SoFar(r, d, k))
  <1> DEFINE c == ClassOf[r]
             st == Plan(r)[k]
             row == Target(r, st, caps)
             w == SoFar(r, d, k)
             n == Len(Payload[r])
  <1>1. c \in Classes /\ Enrolled[c] \subseteq Students
    BY WriteAssumption DEF WriteAssumption
  <1>2. /\ n \in Nat /\ Len(Plan(r)) = n + 3 /\ DOMAIN Payload[r] = 1..n
        /\ \A i \in DOMAIN Payload[r] : Payload[r][i] \in Students
    BY ClassPlan
  <1>3. d = [x \in Rows |-> d[x]]
    BY DEF Databases
  <1>4. \A j : SoFar(r, d, j) = ClassSoFar(r, d, j)
    BY DEF SoFar
  <1>5. CASE k = 1 \/ k = 3
    <2>1. st.op = "select"
      BY <1>5, ClassPlan DEF Statement
    <2>2. \A i \in DOMAIN Payload[r] : ~(i + 3 < 2) /\ ~(i + 3 < 3) /\ ~(i + 3 < 4)
      BY <1>2
    <2>3. SoFar(r, d, k + 1) = w
      BY <1>4, <1>5, <2>2 DEF ClassSoFar
    <2> QED
      BY <2>1, <2>3 DEF Applied
  <1>6. CASE k = 2
    <2>1. st.op = "ignore" /\ row = Session(c)
      BY <1>6, ClassPlan DEF Statement, Target, KnowsItsRows
    <2>2. w = d
      BY <1>3, <1>4, <1>6 DEF ClassSoFar
    <2>3. row \in Rows
      BY <1>1, <2>1 DEF Rows
    <2>4. \A i \in DOMAIN Payload[r] : ~(i + 3 < 3)
      BY <1>2
    <2>5. CASE d[row] # "none"
      <3>1. \A x \in Rows : ClassSoFar(r, d, 3)[x] = d[x]
        BY <2>1, <2>4, <2>5 DEF ClassSoFar, HasStub, Fresh
      <3>2. ClassSoFar(r, d, 3) = [x \in Rows |-> ClassSoFar(r, d, 3)[x]]
        BY DEF ClassSoFar
      <3>3. SoFar(r, d, 3) = d
        BY <1>3, <1>4, <3>1, <3>2
      <3> QED
        BY <1>6, <2>1, <2>2, <2>5, <3>3 DEF Applied, InsertOrIgnore
    <2>6. CASE d[row] = "none"
      <3>1. ASSUME NEW x \in Rows
            PROVE  ClassSoFar(r, d, 3)[x] = InsertOrIgnore(d, row, r)[x]
        <4>1. ClassSoFar(r, d, 3)[x] =
                IF x = row THEN r
                ELSE IF \E s \in Students : x = Stub(c, s) /\ HasStub(r, d, s) /\ d[x] = "none"
                THEN "null" ELSE d[x]
          BY <2>1, <2>4, <2>6 DEF ClassSoFar, Fresh
        <4>2. (\E s \in Students : x = Stub(c, s) /\ HasStub(r, d, s) /\ d[x] = "none")
              <=> \E e \in Classes : row = Session(e) /\ x \in {Stub(e, s) : s \in Enrolled[e]}
                                    /\ d[x] = "none"
          BY <1>1, <2>1, <2>6, RowsDiffer DEF HasStub, Fresh
        <4>3. InsertOrIgnore(d, row, r)[x] =
                IF x = row THEN r
                ELSE IF \E e \in Classes : row = Session(e) /\ x \in {Stub(e, s) : s \in Enrolled[e]}
                                          /\ d[x] = "none"
                THEN "null" ELSE d[x]
          BY <2>6 DEF InsertOrIgnore
        <4> QED
          BY <4>1, <4>2, <4>3
      <3>2. ClassSoFar(r, d, 3) = [x \in Rows |-> ClassSoFar(r, d, 3)[x]]
        BY DEF ClassSoFar
      <3>3. InsertOrIgnore(d, row, r) = [x \in Rows |-> InsertOrIgnore(d, row, r)[x]]
        BY <2>6 DEF InsertOrIgnore
      <3>4. SoFar(r, d, 3) = InsertOrIgnore(d, row, r)
        BY <1>4, <3>1, <3>2, <3>3
      <3> QED
        BY <1>6, <2>1, <2>2, <3>4 DEF Applied
    <2> QED
      BY <2>5, <2>6
  <1>7. CASE k > 3
    <2>1. PICK i \in DOMAIN Payload[r] : k = i + 3
      <3>1. k - 3 \in 1..n /\ k = (k - 3) + 3
        BY <1>2, <1>7
      <3> QED
        BY <1>2, <3>1
    <2> DEFINE u == Payload[r][i]
    <2>2. st.op = "update" /\ row = Stub(c, u) /\ u \in Students
      <3>1. st = ForStudent("update", "stub", u) /\ u \in Students
        BY <2>1, ClassPlan
      <3>2. caps.session = c
        BY <1>7 DEF KnowsItsRows
      <3> HIDE DEF st, u
      <3> QED
        BY <3>1, <3>2 DEF ForStudent, Target
    <2>3. row \in Rows
      BY <1>1, <2>2 DEF Rows
    <2>4. \A j \in DOMAIN Payload[r] : j + 3 < k + 1 <=> j + 3 < k \/ j = i
      BY <1>2, <2>1
    <2>5. w[row] = "none" <=> ~HasStub(r, d, u)
      BY <1>4, <1>7, <2>2, <2>3, RowsDiffer, RunsAreRuns DEF ClassSoFar, HasStub, Fresh
    <2>6. ASSUME NEW x \in Rows
          PROVE  ClassSoFar(r, d, k + 1)[x] = IF x = row /\ HasStub(r, d, u) THEN r ELSE w[x]
      <3> DEFINE Own(j) == j + 3 < k /\ x = Stub(c, Payload[r][j]) /\ HasStub(r, d, Payload[r][j])
                 fresh == x = Session(c) /\ Fresh(r, d)
                 made == \E s \in Students : x = Stub(c, s) /\ HasStub(r, d, s) /\ d[x] = "none"
      <3>1. w[x] = IF fresh THEN r ELSE IF \E j \in DOMAIN Payload[r] : Own(j) THEN r
                   ELSE IF made THEN "null" ELSE d[x]
        BY <1>4, <1>7 DEF ClassSoFar
      <3>2. (\E j \in DOMAIN Payload[r] :
               j + 3 < k + 1 /\ x = Stub(c, Payload[r][j]) /\ HasStub(r, d, Payload[r][j]))
            <=> (\E j \in DOMAIN Payload[r] : Own(j)) \/ (x = row /\ HasStub(r, d, u))
        BY <2>2, <2>4
      <3>3. ~(k + 1 <= 2)
        BY <1>7
      <3>4. ClassSoFar(r, d, k + 1)[x] =
              IF fresh THEN r
              ELSE IF (\E j \in DOMAIN Payload[r] : Own(j)) \/ (x = row /\ HasStub(r, d, u)) THEN r
              ELSE IF made THEN "null" ELSE d[x]
        BY <3>2, <3>3 DEF ClassSoFar
      <3> HIDE DEF Own, made, w, row
      <3> QED
        BY <3>1, <3>4
    <2>7. ClassSoFar(r, d, k + 1) = [x \in Rows |-> ClassSoFar(r, d, k + 1)[x]]
      BY DEF ClassSoFar
    <2>8. w = [x \in Rows |-> w[x]]
      BY <1>4 DEF ClassSoFar
    <2> HIDE DEF w, row
    <2>9. SoFar(r, d, k + 1) = IF w[row] = "none" THEN w ELSE [w EXCEPT ![row] = r]
      BY <1>4, <2>3, <2>5, <2>6, <2>7, <2>8
    <2> QED
      BY <2>2, <2>9 DEF Applied, w, row
  <1> QED
    BY <1>2, <1>5, <1>6, <1>7

\* The same of a record-test-scores run.
LEMMA ScoresStep ==
  ASSUME NEW r \in Runs, NEW d \in Databases, NEW caps, NEW k \in 1..Len(Plan(r)),
         Template[r] # "record-class", KnowsItsRows(r, caps, k)
  PROVE  LET st == Plan(r)[k] IN
         SoFar(r, d, k + 1) = Applied(r, st, Target(r, st, caps), SoFar(r, d, k))
  <1> DEFINE c == ClassOf[r]
             st == Plan(r)[k]
             row == Target(r, st, caps)
             w == SoFar(r, d, k)
             n == Len(Payload[r])
             Done(j, m, x) == \/ 2 * j + 3 < m /\ d[x] = "none"
                              \/ j + 2 * n + 4 < m
             Own(m, x) ==
               \E j \in DOMAIN Payload[r] : x = Result(c, Payload[r][j]) /\ Done(j, m, x)
             New(m, x) == x = Test /\ d[Test] = "none" /\ m > 3
  <1>1. c \in Classes
    BY WriteAssumption DEF WriteAssumption
  <1>2. /\ n \in Nat /\ Len(Plan(r)) = 3 * n + 4 /\ DOMAIN Payload[r] = 1..n
        /\ \A i \in DOMAIN Payload[r] : Payload[r][i] \in Students
    BY ScoresPlan
  <1>3. d = [x \in Rows |-> d[x]]
    BY DEF Databases
  <1>4. \A j : SoFar(r, d, j) = [x \in Rows |-> IF New(j, x) THEN r ELSE IF Own(j, x) THEN r ELSE d[x]]
    BY DEF SoFar, ScoresSoFar
  <1>5. k > 2 => caps.session = c
    BY DEF KnowsItsRows
  <1>p. \A i \in DOMAIN Payload[r] :
          /\ Plan(r)[2 * i + 3] = ForStudent("ignore", "result", Payload[r][i])
          /\ Plan(r)[2 * i + 4] = ForStudent("select", "result", Payload[r][i])
          /\ Plan(r)[i + 2 * n + 4] = ForStudent("update", "result", Payload[r][i])
    BY ScoresPlan
  <1>6. ASSUME st.op = "select",
               \A x \in Rows : New(k + 1, x) = New(k, x),
               \A x \in Rows : \A j \in DOMAIN Payload[r] : Done(j, k + 1, x) <=> Done(j, k, x)
        PROVE  SoFar(r, d, k + 1) = Applied(r, st, row, w)
    <2>1. \A x \in Rows : Own(k + 1, x) <=> Own(k, x)
      BY <1>6
    <2> HIDE DEF Own, New, Done
    <2>2. SoFar(r, d, k + 1) = w
      BY <1>4, <1>6, <2>1
    <2> QED
      BY <1>6, <2>2 DEF Applied
  <1>7. CASE k \in {1, 2, 4}
    <2>1. st.op = "select"
      BY <1>7, ScoresPlan DEF Statement
    <2>2. \A x \in Rows : \A j \in DOMAIN Payload[r] : ~Done(j, k + 1, x) /\ ~Done(j, k, x)
      BY <1>2, <1>7
    <2>3. \A x \in Rows : New(k + 1, x) = New(k, x)
      BY <1>7
    <2> HIDE DEF Done, New
    <2> QED
      BY <1>6, <2>1, <2>2, <2>3
  <1>8. ASSUME k = 3 PROVE SoFar(r, d, k + 1) = Applied(r, st, row, w)
    <2>1. st.op = "ignore" /\ row = Test
      BY <1>8, ScoresPlan DEF Statement, Target
    <2>2. \A x \in Rows : ~Own(3, x) /\ ~Own(4, x) /\ ~New(3, x) /\ (New(4, x) <=> x = Test /\ d[Test] = "none")
      BY <1>2
    <2> HIDE DEF Own, New
    <2>3. w = d
      BY <1>3, <1>4, <1>8, <2>2
    <2>4. SoFar(r, d, 4) = [x \in Rows |-> IF x = Test /\ d[Test] = "none" THEN r ELSE d[x]]
      BY <1>4, <2>2
    <2>5. InsertOrIgnore(d, Test, r) = [x \in Rows |-> IF x = Test /\ d[Test] = "none" THEN r ELSE d[x]]
      BY <1>3, RowsDiffer DEF InsertOrIgnore
    <2> HIDE DEF w, row, st
    <2>6. Applied(r, st, row, w) = InsertOrIgnore(d, Test, r)
      BY <2>1, <2>3 DEF Applied
    <2>7. k + 1 = 4
      BY <1>8
    <2>8. SoFar(r, d, k + 1) = SoFar(r, d, 4)
      BY <2>7
    <2> QED
      BY <2>4, <2>5, <2>6, <2>8
  <1>9. ASSUME NEW i \in DOMAIN Payload[r], k = 2 * i + 3
        PROVE  SoFar(r, d, k + 1) = Applied(r, st, row, w)
    <2>1. st.op = "ignore" /\ row = Result(c, Payload[r][i]) /\ row \in Rows
      <3>1. st = ForStudent("ignore", "result", Payload[r][i]) /\ Payload[r][i] \in Students /\ k > 2
        BY <1>2, <1>9, <1>p
      <3> HIDE DEF st
      <3>2. st.op = "ignore" /\ row = Result(c, Payload[r][i])
        BY <1>5, <3>1 DEF ForStudent, Target
      <3> QED
        BY <1>1, <3>1, <3>2 DEF Rows
    <2>2. \A x \in Rows : \A j \in DOMAIN Payload[r] :
            Done(j, k + 1, x) <=> Done(j, k, x) \/ (j = i /\ d[x] = "none")
      <3>1. ASSUME NEW j \in DOMAIN Payload[r]
            PROVE  /\ 2 * j + 3 < k + 1 <=> 2 * j + 3 < k \/ j = i
                   /\ ~(j + 2 * n + 4 < k + 1) /\ ~(j + 2 * n + 4 < k)
        <4>1. i \in 1..n /\ j \in 1..n /\ n \in Nat
          BY <1>2
        <4> HIDE DEF n
        <4> QED
          BY <1>9, <4>1
      <3> HIDE DEF n
      <3> QED
        BY <3>1
    <2>3. \A x \in Rows : New(k + 1, x) = New(k, x)
      BY <1>2, <1>9
    <2>4. row # Test
      BY <2>1, RowsDiffer
    <2>5. \A x \in Rows : Own(k + 1, x) <=> Own(k, x) \/ (x = row /\ d[x] = "none")
      BY <2>1, <2>2
    <2>6. ~New(k, row)
      BY <2>4
    <2>7. Own(k, row) => r # "none"
      BY RunsAreRuns
    <2> HIDE DEF Own, New, Done, row
    <2>8. w[row] = IF Own(k, row) THEN r ELSE d[row]
      BY <1>4, <2>1, <2>6
    <2>9. InsertOrIgnore(w, row, r) = IF w[row] # "none" THEN w ELSE [w EXCEPT ![row] = r]
      <3>1. w = [x \in Rows |-> w[x]]
        BY <1>4
      <3> QED
        BY <2>1, <3>1, RowsDiffer DEF InsertOrIgnore
    <2>10. ASSUME NEW x \in Rows
           PROVE  SoFar(r, d, k + 1)[x] = IF x = row /\ w[row] = "none" THEN r ELSE w[x]
      <3>1. w[x] = IF New(k, x) THEN r ELSE IF Own(k, x) THEN r ELSE d[x]
        BY <1>4
      <3>2. SoFar(r, d, k + 1)[x] =
              IF New(k, x) THEN r ELSE IF Own(k, x) \/ (x = row /\ d[x] = "none") THEN r ELSE d[x]
        BY <1>4, <2>3, <2>5
      <3> HIDE DEF w
      <3> QED
        BY <2>7, <2>8, <3>1, <3>2
    <2>11. SoFar(r, d, k + 1) = [x \in Rows |-> SoFar(r, d, k + 1)[x]] /\ w = [x \in Rows |-> w[x]]
      BY <1>4
    <2> HIDE DEF w, st
    <2>12. SoFar(r, d, k + 1) = IF w[row] # "none" THEN w ELSE [w EXCEPT ![row] = r]
      BY <2>1, <2>10, <2>11
    <2> QED
      BY <2>1, <2>9, <2>12 DEF Applied
  <1>10. ASSUME NEW i \in DOMAIN Payload[r], k = 2 * i + 4
         PROVE  SoFar(r, d, k + 1) = Applied(r, st, row, w)
    <2>1. st.op = "select"
      <3>1. st = ForStudent("select", "result", Payload[r][i])
        BY <1>10, <1>p
      <3> QED
        BY <3>1 DEF ForStudent
    <2>2. \A x \in Rows : \A j \in DOMAIN Payload[r] : Done(j, k + 1, x) <=> Done(j, k, x)
      <3>1. ASSUME NEW j \in DOMAIN Payload[r]
            PROVE  /\ 2 * j + 3 < k + 1 <=> 2 * j + 3 < k
                   /\ ~(j + 2 * n + 4 < k + 1) /\ ~(j + 2 * n + 4 < k)
        <4>1. i \in 1..n /\ j \in 1..n /\ n \in Nat
          BY <1>2
        <4> HIDE DEF n
        <4> QED
          BY <1>10, <4>1
      <3> HIDE DEF n
      <3> QED
        BY <3>1
    <2>3. \A x \in Rows : New(k + 1, x) = New(k, x)
      BY <1>2, <1>10
    <2> HIDE DEF Done, New
    <2> QED
      BY <1>6, <2>1, <2>2, <2>3
  <1>11. ASSUME NEW i \in DOMAIN Payload[r], k = i + 2 * n + 4
         PROVE  SoFar(r, d, k + 1) = Applied(r, st, row, w)
    <2>1. st.op = "update" /\ row = Result(c, Payload[r][i]) /\ row \in Rows
      <3>1. st = ForStudent("update", "result", Payload[r][i]) /\ Payload[r][i] \in Students /\ k > 2
        <4>1. st = ForStudent("update", "result", Payload[r][i])
          BY <1>11, <1>p
        <4> HIDE DEF st
        <4> QED
          BY <1>2, <1>11, <4>1
      <3> HIDE DEF st
      <3>2. st.op = "update" /\ row = Result(c, Payload[r][i])
        BY <1>5, <3>1 DEF ForStudent, Target
      <3> QED
        BY <1>1, <3>1, <3>2 DEF Rows
    <2>2. \A x \in Rows : \A j \in DOMAIN Payload[r] :
            /\ Done(j, k + 1, x) <=> Done(j, k, x) \/ j = i
            /\ d[x] = "none" => Done(j, k, x)
      <3>1. ASSUME NEW j \in DOMAIN Payload[r]
            PROVE  /\ 2 * j + 3 < k /\ 2 * j + 3 < k + 1
                   /\ j + 2 * n + 4 < k + 1 <=> j + 2 * n + 4 < k \/ j = i
        <4>1. i \in 1..n /\ j \in 1..n /\ n \in Nat
          BY <1>2
        <4> HIDE DEF n
        <4> QED
          BY <1>11, <4>1
      <3> HIDE DEF n
      <3> QED
        BY <3>1
    <2>3. \A x \in Rows : New(k + 1, x) = New(k, x)
      BY <1>2, <1>11
    <2>4. row # Test
      BY <2>1, RowsDiffer
    <2>5. \A x \in Rows : Own(k + 1, x) <=> Own(k, x) \/ x = row
      BY <2>1, <2>2
    <2>6. ~New(k, row) /\ (d[row] = "none" => Own(k, row))
      BY <2>1, <2>2, <2>4
    <2> HIDE DEF Own, New, Done, row
    <2>7. w[row] # "none"
      BY <1>4, <2>1, <2>6, RunsAreRuns
    <2>8. SoFar(r, d, k + 1) = [w EXCEPT ![row] = r]
      <3>1. \A x \in Rows : SoFar(r, d, k + 1)[x] = IF x = row THEN r ELSE w[x]
        BY <1>4, <2>3, <2>5
      <3>2. SoFar(r, d, k + 1) = [x \in Rows |-> SoFar(r, d, k + 1)[x]] /\ w = [x \in Rows |-> w[x]]
        BY <1>4
      <3> HIDE DEF w
      <3> QED
        BY <2>1, <3>1, <3>2
    <2> HIDE DEF w, st
    <2> QED
      BY <2>1, <2>7, <2>8 DEF Applied
  <1> HIDE DEF st, row, w, n
  <1> QED
    BY <1>7, <1>8, <1>9, <1>10, <1>11, ScoresPlaces DEF st, row, w, n

\* The ids captured once a statement is done.
Captured(caps, st, row) ==
  CASE st.op = "select" /\ st.table = "class" -> [caps EXCEPT !.class = row[2]]
    [] st.op = "select" /\ st.table = "session" -> [caps EXCEPT !.session = row[2]]
    [] OTHER -> caps
Ids == Classes \cup {"none"}

\* What is captured are the ids of the run's own rows.
LEMMA CaptureStep ==
  ASSUME NEW r \in Runs, NEW caps \in [class : Ids, session : Ids], NEW k \in 1..Len(Plan(r)),
         KnowsItsRows(r, caps, k)
  PROVE  LET st == Plan(r)[k]
             new == Captured(caps, st, Target(r, st, caps)) IN
         new \in [class : Ids, session : Ids] /\ KnowsItsRows(r, new, k + 1)
  <1> DEFINE st == Plan(r)[k]
             new == Captured(caps, st, Target(r, st, caps))
             Goal == new \in [class : Ids, session : Ids] /\ KnowsItsRows(r, new, k + 1)
  <1>1. ClassOf[r] \in Ids
    BY WriteAssumption DEF WriteAssumption, Ids
  <1>2. k \in Nat
    OBVIOUS
  <1>3. ASSUME st.op # "select" \/ st.table \notin {"class", "session"},
               k > (IF Template[r] = "record-class" THEN 3 ELSE 2)
        PROVE  Goal
    <2>1. new = caps
      BY <1>3 DEF Captured
    <2> HIDE DEF new
    <2> QED
      BY <1>2, <1>3, <2>1 DEF KnowsItsRows
  <1>4. ASSUME k = 1 PROVE Goal
    <2>1. st = Statement("select", "class")
      BY <1>4, ClassPlan, ScoresPlan
    <2>2. new = [caps EXCEPT !.class = ClassOf[r]]
      <3> HIDE DEF st
      <3> QED
        BY <2>1 DEF Captured, Statement, Target, Class
    <2> HIDE DEF new
    <2> QED
      BY <1>1, <1>4, <2>2 DEF KnowsItsRows
  <1>5. ASSUME st = Statement("select", "session"), k > 1 PROVE Goal
    <2>1. caps.class = ClassOf[r]
      BY <1>5 DEF KnowsItsRows
    <2>2. new = [caps EXCEPT !.session = ClassOf[r]]
      <3> HIDE DEF st
      <3> QED
        BY <1>5, <2>1 DEF Captured, Statement, Target, Session
    <2> HIDE DEF new
    <2> QED
      BY <1>1, <1>5, <2>1, <2>2 DEF KnowsItsRows
  <1>6. CASE Template[r] = "record-class"
    <2>1. CASE k = 2
      <3>1. st = Statement("ignore", "session")
        BY <1>6, <2>1, ClassPlan
      <3>2. new = caps
        <4> HIDE DEF st
        <4> QED
          BY <3>1 DEF Captured, Statement
      <3> HIDE DEF new
      <3> QED
        BY <1>6, <2>1, <3>2 DEF KnowsItsRows, new
    <2>2. CASE k > 3
      <3>1. k - 3 \in DOMAIN Payload[r] /\ k = (k - 3) + 3
        BY <1>6, <2>2, ClassPlan
      <3>2. st = ForStudent("update", "stub", Payload[r][k - 3])
        BY <1>6, <3>1, ClassPlan
      <3>3. st.op # "select"
        <4> HIDE DEF st
        <4> QED
          BY <3>2 DEF ForStudent
      <3> QED
        BY <1>3, <1>6, <2>2, <3>3
    <2>3. k = 3 => st = Statement("select", "session")
      BY <1>6, ClassPlan
    <2> QED
      BY <1>2, <1>4, <1>5, <2>1, <2>2, <2>3
  <1>7. CASE Template[r] # "record-class"
    <2>1. CASE k > 2
      <3>1. CASE k \in {3, 4}
        <4>1. st = Statement("ignore", "test") \/ st = Statement("select", "test")
          BY <1>7, <3>1, ScoresPlan
        <4>2. st.table = "test"
          <5> HIDE DEF st
          <5> QED
            BY <4>1 DEF Statement
        <4> QED
          BY <1>3, <1>7, <2>1, <4>2
      <3>2. CASE k \notin {1, 2, 3, 4}
        <4>1. PICK i \in DOMAIN Payload[r] :
                k = 2 * i + 3 \/ k = 2 * i + 4 \/ k = i + 2 * Len(Payload[r]) + 4
          BY <1>7, <3>2, ScoresPlaces
        <4>2. \E op \in {"ignore", "select", "update"} : st = ForStudent(op, "result", Payload[r][i])
          BY <1>7, <4>1, ScoresPlan
        <4>3. st.table = "result"
          <5> HIDE DEF st
          <5> QED
            BY <4>2 DEF ForStudent
        <4> QED
          BY <1>3, <1>7, <2>1, <4>3
      <3> QED
        BY <1>2, <2>1, <3>1, <3>2
    <2>2. k = 2 => st = Statement("select", "session")
      BY <1>7, ScoresPlan
    <2> QED
      BY <1>2, <1>4, <1>5, <2>1, <2>2
  <1> QED
    BY <1>6, <1>7

-----------------------------------------------------------------------------
(* Write actions: the invariant of all runs.                               *)
Places == {"idle", "copy", "begin", "execute", "audit"}
Under == {"copy", "begin", "execute"}

TablesOK ==
  /\ db \in Databases /\ at \in [Runs -> Places] /\ next \in [Runs -> Nat]
  /\ stamp \in [Runs -> 0..MaxSeconds] /\ clock \in 1..MaxSeconds
  /\ captures \in [Runs -> [class : Ids, session : Ids]] /\ crossed \in [Runs -> BOOLEAN]
  /\ DOMAIN backups = 1..MaxSeconds
  /\ registered \in [{Template[r] : r \in Runs} -> {"none", "pending", "approved", "denied"}]

\* A run under way is of a registered template, which stays registered.
LetIn(r) == at[r] \in Under => registered[Template[r]] = "approved" /\ stamp[r] \in 1..MaxSeconds

\* The transaction holds what the statements so far make of the database, to
\* which nobody else can write.
AtStart(r) == at[r] # "execute" => next[r] = 1
Writing(r) ==
  /\ writer = r
  /\ next[r] \in 1..(Len(Plan(r)) + 1)
  /\ KnowsItsRows(r, captures[r], next[r])
  /\ work = SoFar(r, db, next[r])
Transaction(r) == AtStart(r) /\ (at[r] = "execute" => Writing(r))

\* The backup is the database as it is, unless another one crossed it.
BackedUp(r) == at[r] \in {"begin", "execute"} /\ ~crossed[r] => backups[stamp[r]] = {db}

RunOK(r) == LetIn(r) /\ Transaction(r) /\ BackedUp(r)

WriteInv == TablesOK /\ \A r \in Runs : RunOK(r)

LEMMA WriteInitInv == WriteInit => WriteInv
  <1> SUFFICES ASSUME WriteInit PROVE WriteInv
    OBVIOUS
  <1>1. TablesOK
    <2>1. Empty \in Databases
      BY DEF Empty, Databases
    <2>2. 1 \in 1..MaxSeconds /\ 0 \in 0..MaxSeconds
      BY WriteAssumption DEF WriteAssumption
    <2>3. Unset \in [class : Ids, session : Ids]
      BY DEF Unset, Ids
    <2>4. stamp \in [Runs -> 0..MaxSeconds] /\ clock \in 1..MaxSeconds
      BY <2>2 DEF WriteInit
    <2> QED
      BY <2>1, <2>3, <2>4 DEF WriteInit, TablesOK, Places
  <1>2. \A r \in Runs : LetIn(r) /\ Transaction(r) /\ BackedUp(r)
    BY DEF WriteInit, LetIn, Transaction, AtStart, BackedUp, Under
  <1> QED
    BY <1>1, <1>2 DEF WriteInv, RunOK

\* What an action of one run does to itself.
LEMMA Arrives ==
  ASSUME TablesOK, NEW r \in Runs, NEW place \in Places, GotoStep(r, place)
  PROVE  /\ at' \in [Runs -> Places] /\ at'[r] = place
         /\ \A q \in Runs : q # r => at'[q] = at[q]
  BY DEF TablesOK, GotoStep

LEMMA Cleans ==
  ASSUME TablesOK, NEW r \in Runs,
         stamp' = [stamp EXCEPT ![r] = 0] /\ captures' = [captures EXCEPT ![r] = Unset],
         next' = [next EXCEPT ![r] = 1]
  PROVE  /\ stamp' \in [Runs -> 0..MaxSeconds] /\ captures' \in [Runs -> [class : Ids, session : Ids]]
         /\ next' \in [Runs -> Nat] /\ next'[r] = 1
         /\ \A q \in Runs : q # r => /\ stamp'[q] = stamp[q] /\ captures'[q] = captures[q]
                                     /\ next'[q] = next[q]
  <1>1. 0 \in 0..MaxSeconds /\ Unset \in [class : Ids, session : Ids]
    BY WriteAssumption DEF WriteAssumption, Unset, Ids
  <1> QED
    BY <1>1 DEF TablesOK

\* Two runs are not in a transaction at once.
LEMMA OneWriter ==
  ASSUME WriteInv, NEW r \in Runs, at[r] = "execute"
  PROVE  writer = r /\ \A q \in Runs : q # r => at[q] # "execute"
  BY DEF WriteInv, RunOK, Transaction, Writing

\* A run that no step of another one reaches.
LEMMA StaysOK ==
  ASSUME NEW q \in Runs, RunOK(q), at'[q] = at[q], stamp'[q] = stamp[q], next'[q] = next[q],
         captures'[q] = captures[q], registered' = registered,
         at[q] = "execute" => UNCHANGED <<db, work, writer>>,
         at[q] \in {"begin", "execute"} /\ ~crossed'[q] =>
           ~crossed[q] /\ db' = db /\ backups'[stamp[q]] = backups[stamp[q]]
  PROVE  RunOK(q)'
  <1>1. LetIn(q)'
    BY DEF RunOK, LetIn
  <1>2. Transaction(q)'
    BY DEF RunOK, Transaction, AtStart, Writing, KnowsItsRows, SoFar, ClassSoFar, ScoresSoFar,
       HasStub, Fresh
  <1>3. BackedUp(q)'
    BY DEF RunOK, BackedUp
  <1> QED
    BY <1>1, <1>2, <1>3 DEF RunOK

\* A run that is over, or never began.
LEMMA RestingIsOK ==
  ASSUME NEW q \in Runs, at'[q] \in {"idle", "audit"}, next'[q] = 1 PROVE RunOK(q)'
  BY DEF RunOK, LetIn, Transaction, AtStart, BackedUp, Under

\* A run that ends, its transaction with it.
LEMMA EndKeeps ==
  ASSUME WriteInv, NEW r \in Runs, End(r), UNCHANGED <<db, backups, clock, registered, indexer>>,
         UNCHANGED <<work, writer>> \/ at[r] = "execute"
  PROVE  WriteInv'
  <1>1. TablesOK
    BY DEF WriteInv
  <1>2. /\ at' \in [Runs -> Places] /\ at'[r] = "idle" /\ \A q \in Runs : q # r => at'[q] = at[q]
    BY <1>1, Arrives DEF End, Places
  <1>3. /\ stamp' \in [Runs -> 0..MaxSeconds] /\ captures' \in [Runs -> [class : Ids, session : Ids]]
        /\ next' \in [Runs -> Nat] /\ next'[r] = 1
        /\ \A q \in Runs : q # r => /\ stamp'[q] = stamp[q] /\ captures'[q] = captures[q]
                                    /\ next'[q] = next[q]
    BY <1>1, Cleans DEF End, Reset
  <1>4. crossed' \in [Runs -> BOOLEAN] /\ \A q \in Runs : q # r => crossed'[q] = crossed[q]
    BY <1>1 DEF End, Reset, TablesOK
  <1>5. TablesOK'
    BY <1>1, <1>2, <1>3, <1>4 DEF TablesOK
  <1>6. ASSUME NEW q \in Runs PROVE RunOK(q)'
    <2>1. CASE q = r
      BY <1>2, <1>3, <2>1, RestingIsOK
    <2>2. CASE q # r
      <3>1. RunOK(q) /\ (at[q] = "execute" => UNCHANGED <<db, work, writer>>)
        BY <2>2, OneWriter DEF WriteInv
      <3> QED
        BY <1>2, <1>3, <1>4, <2>2, <3>1, StaysOK
    <2> QED
      BY <2>1, <2>2
  <1> QED
    BY <1>5, <1>6 DEF WriteInv

LEMMA ExecuteKeeps ==
  ASSUME WriteInv, NEW r \in Runs, Execute(r) PROVE WriteInv'
  <1> DEFINE st == Plan(r)[next[r]]
             row == Target(r, st, captures[r])
  <1>1. /\ TablesOK /\ at[r] = "execute" /\ next[r] <= Len(Plan(r)) /\ RunOK(r)
        /\ UNCHANGED <<db, backups, clock, registered, indexer>>
    BY DEF WriteInv, Execute, Abort
  <1>2. CASE st.op = "select" /\ work[row] = "none"
    BY <1>1, <1>2, EndKeeps DEF Execute, Abort
  <1>3. CASE ~(st.op = "select" /\ work[row] = "none")
    <2>1. /\ writer = r /\ next[r] \in 1..Len(Plan(r)) /\ KnowsItsRows(r, captures[r], next[r])
          /\ work = SoFar(r, db, next[r]) /\ captures[r] \in [class : Ids, session : Ids]
          /\ next[r] \in Nat /\ db \in Databases /\ registered[Template[r]] = "approved"
          /\ stamp[r] \in 1..MaxSeconds
      BY <1>1 DEF RunOK, Transaction, Writing, TablesOK, LetIn, Under
    <2>2. /\ work' = Applied(r, st, row, work)
          /\ captures' = [captures EXCEPT ![r] = Captured(captures[r], st, row)]
          /\ next' = [next EXCEPT ![r] = @ + 1] /\ UNCHANGED <<writer, at, stamp, crossed>>
      BY <1>3 DEF Execute, Applied, Captured
    <2>3. work' = SoFar(r, db, next[r] + 1)
      BY <2>1, <2>2, ClassStep, ScoresStep
    <2>4. /\ Captured(captures[r], st, row) \in [class : Ids, session : Ids]
          /\ KnowsItsRows(r, Captured(captures[r], st, row), next[r] + 1)
      BY <2>1, CaptureStep
    <2> HIDE DEF st, row
    <2>5. /\ captures' \in [Runs -> [class : Ids, session : Ids]] /\ next' \in [Runs -> Nat]
          /\ captures'[r] = Captured(captures[r], st, row) /\ next'[r] = next[r] + 1
          /\ \A q \in Runs : q # r => captures'[q] = captures[q] /\ next'[q] = next[q]
      BY <1>1, <2>1, <2>2, <2>4 DEF TablesOK
    <2>6. TablesOK'
      BY <1>1, <2>2, <2>5 DEF TablesOK
    <2>7. RunOK(r)'
      <3>1. next'[r] \in 1..(Len(Plan(r)) + 1) /\ work' = SoFar(r, db', next'[r])
            /\ KnowsItsRows(r, captures'[r], next'[r]) /\ writer' = r
        BY <1>1, <2>1, <2>2, <2>3, <2>4, <2>5
      <3>2. Writing(r)'
        BY <3>1 DEF Writing, KnowsItsRows, SoFar, ClassSoFar, ScoresSoFar, HasStub, Fresh
      <3>3. LetIn(r)' /\ BackedUp(r)'
        BY <1>1, <2>1, <2>2 DEF RunOK, LetIn, BackedUp
      <3> QED
        BY <1>1, <2>2, <3>2, <3>3 DEF RunOK, Transaction, AtStart
    <2>8. ASSUME NEW q \in Runs, q # r PROVE RunOK(q)'
      <3>1. RunOK(q) /\ at[q] # "execute"
        BY <1>1, <2>8, OneWriter DEF WriteInv
      <3> QED
        BY <1>1, <2>2, <2>5, <2>8, <3>1, StaysOK
    <2> QED
      BY <2>6, <2>7, <2>8 DEF WriteInv
  <1> QED
    BY <1>2, <1>3

LEMMA CommitKeeps ==
  ASSUME WriteInv, NEW r \in Runs, Commit(r)
  PROVE  WriteInv' /\ db' = Intended(r, db) /\ registered[Template[r]] = "approved"
  <1>1. TablesOK /\ RunOK(r) /\ at[r] = "execute" /\ next[r] > Len(Plan(r))
    BY DEF WriteInv, Commit
  <1>2. /\ work = SoFar(r, db, next[r]) /\ next[r] \in 1..(Len(Plan(r)) + 1)
        /\ db \in Databases /\ registered[Template[r]] = "approved"
    BY <1>1 DEF RunOK, Transaction, Writing, TablesOK, LetIn, Under
  <1>3. next[r] = Len(Plan(r)) + 1
    <2>1. Len(Plan(r)) \in Nat
      BY ClassPlan, ScoresPlan
    <2> QED
      BY <1>1, <1>2, <2>1
  <1>4. db' = Intended(r, db)
    BY <1>2, <1>3, SoFarEnds DEF Commit
  <1>5. db' \in Databases
    BY <1>2, SoFarTyped DEF Commit
  <1>6. /\ at' \in [Runs -> Places] /\ at'[r] = "audit" /\ \A q \in Runs : q # r => at'[q] = at[q]
    BY <1>1, Arrives DEF Commit, Places
  <1>7. /\ stamp' \in [Runs -> 0..MaxSeconds] /\ captures' \in [Runs -> [class : Ids, session : Ids]]
        /\ next' \in [Runs -> Nat] /\ next'[r] = 1
        /\ \A q \in Runs : q # r => /\ stamp'[q] = stamp[q] /\ captures'[q] = captures[q]
                                    /\ next'[q] = next[q]
    BY <1>1, Cleans DEF Commit
  <1>8. /\ crossed' \in [Runs -> BOOLEAN]
        /\ \A q \in Runs : q # r /\ at[q] \in {"begin", "execute"} /\ ~crossed'[q] => at[q] = "execute"
    BY <1>1 DEF Commit, TablesOK
  <1>9. TablesOK'
    BY <1>1, <1>5, <1>6, <1>7, <1>8 DEF TablesOK, Commit
  <1>10. ASSUME NEW q \in Runs PROVE RunOK(q)'
    <2>1. CASE q = r
      BY <1>6, <1>7, <2>1, RestingIsOK
    <2>2. CASE q # r
      <3>1. RunOK(q) /\ at[q] # "execute"
        BY <1>1, <2>2, OneWriter DEF WriteInv
      <3>2. registered' = registered
        BY DEF Commit
      <3> QED
        BY <1>6, <1>7, <1>8, <2>2, <3>1, <3>2, StaysOK
    <2> QED
      BY <2>1, <2>2
  <1> QED
    BY <1>2, <1>4, <1>9, <1>10 DEF WriteInv

LEMMA IndexBuildKeeps ==
  ASSUME WriteInv, IndexBuild PROVE WriteInv'
  <1>1. TablesOK /\ \A q \in Runs : RunOK(q) /\ at[q] # "execute"
    <2>1. \A q \in Runs : q # "none"
      BY RunsAreRuns
    <2> QED
      BY <2>1, OneWriter DEF WriteInv, IndexBuild
  <1>2. db' \in Databases
    BY <1>1 DEF IndexBuild, TablesOK, Databases
  <1>3. crossed' \in [Runs -> BOOLEAN] /\ \A q \in Runs : at[q] = "begin" => crossed'[q]
    BY <1>1 DEF IndexBuild, TablesOK
  <1>4. TablesOK'
    BY <1>1, <1>2, <1>3 DEF IndexBuild, TablesOK
  <1>5. ASSUME NEW q \in Runs PROVE RunOK(q)'
    <2>1. /\ at'[q] = at[q] /\ stamp'[q] = stamp[q] /\ next'[q] = next[q]
          /\ captures'[q] = captures[q] /\ registered' = registered
      BY DEF IndexBuild
    <2> QED
      BY <1>1, <1>3, <2>1, StaysOK
  <1> QED
    BY <1>4, <1>5 DEF WriteInv

\* A step that writes to the backups named after one second.
LEMMA CopyingIsSeen ==
  ASSUME WriteInv, NEW t \in 1..MaxSeconds, NEW file, backups' = [backups EXCEPT ![t] = file],
         UNCHANGED db, NEW q \in Runs, RunOK(q), at'[q] = at[q], stamp'[q] = stamp[q],
         next'[q] = next[q], captures'[q] = captures[q], registered' = registered,
         at[q] = "execute" => UNCHANGED <<work, writer>>,
         crossed'[q] <=> crossed[q] \/ stamp[q] = t
  PROVE  RunOK(q)'
  <1>1. ASSUME ~crossed'[q] PROVE ~crossed[q] /\ backups'[stamp[q]] = backups[stamp[q]]
    BY <1>1 DEF WriteInv, TablesOK
  <1> QED
    BY <1>1, StaysOK

LEMMA CopyKeeps ==
  ASSUME WriteInv, NEW r \in Runs, Copy(r) PROVE WriteInv'
  <1>1. TablesOK /\ RunOK(r) /\ at[r] = "copy"
    BY DEF WriteInv, Copy
  <1>2. stamp[r] \in 1..MaxSeconds /\ registered[Template[r]] = "approved" /\ next[r] = 1
    BY <1>1 DEF RunOK, LetIn, Under, Transaction, AtStart
  <1>3. at' \in [Runs -> Places] /\ at'[r] = "begin" /\ \A q \in Runs : q # r => at'[q] = at[q]
    BY <1>1, Arrives DEF Copy, Places
  <1>4. /\ crossed' \in [Runs -> BOOLEAN] /\ (crossed'[r] <=> crossed[r])
        /\ \A q \in Runs : q # r => (crossed'[q] <=> crossed[q] \/ stamp[q] = stamp[r])
    BY <1>1 DEF Copy, SameName, TablesOK
  <1>5. PICK file \in {{db}} \cup (IF crossed[r] THEN {{}} ELSE {}) :
          backups' = [backups EXCEPT ![stamp[r]] = file]
    BY DEF Copy
  <1>6. UNCHANGED <<db, writer, work, clock, registered, stamp, captures, next>>
    BY DEF Copy
  <1>7. TablesOK'
    BY <1>1, <1>3, <1>4, <1>5, <1>6 DEF TablesOK
  <1>8. RunOK(r)'
    <2>1. ~crossed[r] => backups'[stamp[r]] = {db}
      BY <1>1, <1>2, <1>5 DEF TablesOK
    <2> QED
      BY <1>2, <1>3, <1>4, <1>6, <2>1 DEF RunOK, LetIn, Transaction, AtStart, BackedUp
  <1>9. ASSUME NEW q \in Runs, q # r PROVE RunOK(q)'
    <2>1. RunOK(q)
      BY DEF WriteInv
    <2> QED
      BY <1>2, <1>3, <1>4, <1>5, <1>6, <1>9, <2>1, CopyingIsSeen
  <1> QED
    BY <1>7, <1>8, <1>9 DEF WriteInv

LEMMA IndexCopyKeeps ==
  ASSUME WriteInv, IndexCopy PROVE WriteInv'
  <1>1. TablesOK /\ clock \in 1..MaxSeconds
    BY DEF WriteInv, TablesOK
  <1>2. /\ crossed' \in [Runs -> BOOLEAN]
        /\ \A q \in Runs : crossed'[q] <=> crossed[q] \/ stamp[q] = clock
    BY <1>1 DEF IndexCopy, TablesOK
  <1>3. TablesOK'
    BY <1>1, <1>2 DEF IndexCopy, TablesOK
  <1>4. ASSUME NEW q \in Runs PROVE RunOK(q)'
    <2>1. RunOK(q) /\ backups' = [backups EXCEPT ![clock] = {db}]
      BY DEF WriteInv, IndexCopy
    <2>2. UNCHANGED <<db, writer, work, registered, at, stamp, captures, next>>
      BY DEF IndexCopy
    <2> QED
      BY <1>1, <1>2, <2>1, <2>2, CopyingIsSeen
  <1> QED
    BY <1>3, <1>4 DEF WriteInv

LEMMA KillKeeps ==
  ASSUME WriteInv, NEW r \in Runs, KillRun(r) PROVE WriteInv'
  <1>1. TablesOK /\ RunOK(r)
    BY DEF WriteInv
  <1>2. at' \in [Runs -> Places] /\ at'[r] = "idle" /\ \A q \in Runs : q # r => at'[q] = at[q]
    BY <1>1, Arrives DEF KillRun, Places
  <1>3. /\ stamp' \in [Runs -> 0..MaxSeconds] /\ captures' \in [Runs -> [class : Ids, session : Ids]]
        /\ next' \in [Runs -> Nat] /\ next'[r] = 1
        /\ \A q \in Runs : q # r => /\ stamp'[q] = stamp[q] /\ captures'[q] = captures[q]
                                    /\ next'[q] = next[q]
    BY <1>1, Cleans DEF KillRun
  <1>4. UNCHANGED <<db, clock, registered>>
    BY DEF KillRun
  <1>5. crossed' \in [Runs -> BOOLEAN] /\ DOMAIN backups' = 1..MaxSeconds
    BY <1>1 DEF KillRun, TablesOK
  <1>6. TablesOK'
    BY <1>1, <1>2, <1>3, <1>4, <1>5 DEF TablesOK
  <1>7. RunOK(r)'
    BY <1>2, <1>3, RestingIsOK
  <1>8. ASSUME NEW q \in Runs, q # r PROVE RunOK(q)'
    <2>1. RunOK(q)
      BY DEF WriteInv
    <2>2. at[q] = "execute" => UNCHANGED <<work, writer>>
      <3>1. at[q] = "execute" => writer = q
        BY OneWriter
      <3> QED
        BY <1>8, <3>1 DEF KillRun
    <2>3. CASE at[r] = "copy"
      <3>1. /\ stamp[r] \in 1..MaxSeconds /\ backups' = [backups EXCEPT ![stamp[r]] = {}]
            /\ crossed'[q] <=> crossed[q] \/ stamp[q] = stamp[r]
        BY <1>1, <1>8, <2>3 DEF RunOK, LetIn, Under, KillRun
      <3> QED
        BY <1>2, <1>3, <1>4, <1>8, <2>1, <2>2, <3>1, CopyingIsSeen
    <2>4. CASE at[r] # "copy"
      <3>1. backups' = backups /\ crossed'[q] = crossed[q]
        BY <1>1, <1>8, <2>4 DEF KillRun, TablesOK
      <3> QED
        BY <1>2, <1>3, <1>4, <1>8, <2>1, <2>2, <3>1, StaysOK
    <2> QED
      BY <2>3, <2>4
  <1> QED
    BY <1>6, <1>7, <1>8 DEF WriteInv

LEMMA ApplyKeeps ==
  ASSUME WriteInv, NEW r \in Runs, Apply(r) PROVE WriteInv'
  <1>1. TablesOK /\ RunOK(r) /\ at[r] = "idle"
    BY DEF WriteInv, Apply
  <1>2. at' \in [Runs -> Places] /\ at'[r] = "copy" /\ \A q \in Runs : q # r => at'[q] = at[q]
    BY <1>1, Arrives DEF Apply, Places
  <1>3. /\ stamp' \in [Runs -> 0..MaxSeconds] /\ stamp'[r] = clock /\ clock \in 1..MaxSeconds
        /\ \A q \in Runs : q # r => stamp'[q] = stamp[q]
    <2>1. clock \in 0..MaxSeconds
      BY <1>1 DEF TablesOK
    <2> QED
      BY <1>1, <2>1 DEF Apply, TablesOK
  <1>4. UNCHANGED <<db, writer, work, backups, clock, registered, captures, next, crossed>>
    BY DEF Apply
  <1>5. TablesOK'
    BY <1>1, <1>2, <1>3, <1>4 DEF TablesOK
  <1>6. RunOK(r)'
    <2>1. registered[Template[r]] = "approved" /\ next[r] = 1
      BY <1>1 DEF Apply, RunOK, Transaction, AtStart
    <2> QED
      BY <1>2, <1>3, <1>4, <2>1 DEF RunOK, LetIn, Transaction, AtStart, BackedUp
  <1>7. ASSUME NEW q \in Runs, q # r PROVE RunOK(q)'
    BY <1>2, <1>3, <1>4, <1>7, StaysOK DEF WriteInv
  <1> QED
    BY <1>5, <1>6, <1>7 DEF WriteInv

LEMMA BeginKeeps ==
  ASSUME WriteInv, NEW r \in Runs, Begin(r) PROVE WriteInv'
  <1>1. /\ TablesOK /\ RunOK(r) /\ at[r] = "begin" /\ writer = "none"
        /\ UNCHANGED <<db, backups, clock, registered, indexer>>
    BY DEF WriteInv, Begin
  <1>2. CASE db[Index] = "none"
    BY <1>1, <1>2, EndKeeps DEF Begin
  <1>3. CASE db[Index] # "none"
    <2>1. at' \in [Runs -> Places] /\ at'[r] = "execute" /\ \A q \in Runs : q # r => at'[q] = at[q]
      BY <1>1, <1>3, Arrives DEF Begin, Places
    <2>2. writer' = r /\ work' = db /\ UNCHANGED <<stamp, captures, next, crossed>>
      BY <1>3 DEF Begin
    <2>3. TablesOK'
      BY <1>1, <2>1, <2>2 DEF TablesOK
    <2>4. RunOK(r)'
      <3>1. /\ next[r] = 1 /\ registered[Template[r]] = "approved" /\ stamp[r] \in 1..MaxSeconds
            /\ ~crossed[r] => backups[stamp[r]] = {db}
        BY <1>1 DEF RunOK, Transaction, AtStart, LetIn, Under, BackedUp
      <3>2. Len(Plan(r)) + 1 \in Nat \ {0}
        BY ClassPlan, ScoresPlan
      <3>3. SoFar(r, db, next[r]) = db
        BY <1>1, <3>1, SoFarStarts DEF TablesOK
      <3>4. Writing(r)'
        <4>1. next[r] \in 1..(Len(Plan(r)) + 1) /\ ~(next[r] > 1) /\ ~(next[r] > 2) /\ ~(next[r] > 3)
          BY <3>1, <3>2
        <4>2. SoFar(r, db, next[r])' = SoFar(r, db, next[r])
          BY <1>1, <2>2 DEF SoFar, ClassSoFar, ScoresSoFar, HasStub, Fresh
        <4> QED
          BY <1>1, <2>2, <3>3, <4>1, <4>2 DEF Writing, KnowsItsRows
      <3> QED
        BY <1>1, <2>1, <2>2, <3>1, <3>4 DEF RunOK, LetIn, Transaction, AtStart, BackedUp
    <2>5. ASSUME NEW q \in Runs, q # r PROVE RunOK(q)'
      <3>1. RunOK(q) /\ at[q] # "execute"
        BY <1>1, OneWriter, RunsAreRuns DEF WriteInv
      <3> QED
        BY <1>1, <2>1, <2>2, <2>5, <3>1, StaysOK
    <2> QED
      BY <2>3, <2>4, <2>5 DEF WriteInv
  <1> QED
    BY <1>2, <1>3

LEMMA RegistersKeep ==
  ASSUME WriteInv, NEW t \in DOMAIN registered, NEW status \in {"pending", "approved", "denied"},
         registered[t] # "approved", registered' = [registered EXCEPT ![t] = status],
         UNCHANGED <<db, writer, work, backups, clock, run>>
  PROVE  WriteInv'
  <1>1. TablesOK
    BY DEF WriteInv
  <1>2. UNCHANGED <<at, stamp, captures, next, crossed>>
    BY DEF run
  <1>3. TablesOK'
    BY <1>1, <1>2 DEF TablesOK
  <1>4. ASSUME NEW q \in Runs PROVE RunOK(q)'
    <2>1. RunOK(q)
      BY DEF WriteInv
    <2>2. LetIn(q)'
      <3>1. Template[q] \in DOMAIN registered
        BY <1>1 DEF TablesOK
      <3> QED
        BY <1>2, <2>1, <3>1 DEF RunOK, LetIn
    <2>3. Transaction(q)'
      BY <1>2, <2>1 DEF RunOK, Transaction, AtStart, Writing, KnowsItsRows, SoFar, ClassSoFar,
         ScoresSoFar, HasStub, Fresh
    <2>4. BackedUp(q)'
      BY <1>2, <2>1 DEF RunOK, BackedUp
    <2> QED
      BY <2>2, <2>3, <2>4 DEF RunOK
  <1> QED
    BY <1>3, <1>4 DEF WriteInv

LEMMA NothingKeeps ==
  ASSUME WriteInv, clock' \in 1..MaxSeconds, UNCHANGED <<db, writer, work, backups, registered, run>>
  PROVE  WriteInv'
  <1>1. UNCHANGED <<at, stamp, captures, next, crossed>>
    BY DEF run
  <1>2. TablesOK'
    BY <1>1 DEF WriteInv, TablesOK
  <1>3. ASSUME NEW q \in Runs PROVE RunOK(q)'
    BY <1>1, StaysOK DEF WriteInv
  <1> QED
    BY <1>2, <1>3 DEF WriteInv

LEMMA AuditKeeps ==
  ASSUME WriteInv, NEW r \in Runs, Audit(r) PROVE WriteInv'
  <1>1. TablesOK /\ RunOK(r) /\ at[r] = "audit"
    BY DEF WriteInv, Audit
  <1>2. at' \in [Runs -> Places] /\ at'[r] = "idle" /\ \A q \in Runs : q # r => at'[q] = at[q]
    BY <1>1, Arrives DEF Audit, Places
  <1>3. UNCHANGED <<db, writer, work, backups, clock, registered, stamp, captures, next, crossed>>
    BY DEF Audit
  <1>4. TablesOK'
    BY <1>1, <1>2, <1>3 DEF TablesOK
  <1>5. next'[r] = 1
    BY <1>1, <1>3 DEF RunOK, Transaction, AtStart
  <1>6. ASSUME NEW q \in Runs, q # r PROVE RunOK(q)'
    BY <1>2, <1>3, <1>6, StaysOK DEF WriteInv
  <1> QED
    BY <1>2, <1>4, <1>5, <1>6, RestingIsOK DEF WriteInv

LEMMA WriteStep == WriteInv /\ [WriteNext]_writeVars => WriteInv'
  <1> SUFFICES ASSUME WriteInv, [WriteNext]_writeVars PROVE WriteInv'
    OBVIOUS
  <1>1. CASE Tick
    <2>1. clock' \in 1..MaxSeconds
      BY <1>1, WriteAssumption DEF Tick, WriteInv, TablesOK, WriteAssumption
    <2> QED
      BY <1>1, <2>1, NothingKeeps DEF Tick
  <1>2. ASSUME NEW t \in DOMAIN registered, Register(t) PROVE WriteInv'
    BY <1>2, RegistersKeep DEF Register
  <1>3. ASSUME NEW t \in DOMAIN registered, NEW answer \in {"approved", "denied"}, Answer(t, answer)
        PROVE  WriteInv'
    BY <1>3, RegistersKeep DEF Answer
  <1>4. ASSUME NEW r \in Runs, BeginTimesOut(r) PROVE WriteInv'
    BY <1>4, EndKeeps DEF BeginTimesOut
  <1>5. ASSUME NEW r \in Runs, StatementFails(r) PROVE WriteInv'
    BY <1>5, EndKeeps DEF StatementFails, Abort
  <1>6. CASE UNCHANGED writeVars
    <2>1. clock' \in 1..MaxSeconds
      BY <1>6 DEF writeVars, WriteInv, TablesOK
    <2> QED
      BY <1>6, <2>1, NothingKeeps DEF writeVars
  <1> QED
    BY <1>1, <1>2, <1>3, <1>4, <1>5, <1>6, ApplyKeeps, CopyKeeps, BeginKeeps, ExecuteKeeps,
       CommitKeeps, AuditKeeps, KillKeeps, IndexCopyKeeps, IndexBuildKeeps
       DEF WriteNext

LEMMA Written == WriteSpec => []WriteInv
  BY WriteInitInv, WriteStep, PTL DEF WriteSpec

(* Whatever runs overlap, fail or die, the database changes by whole runs  *)
(* of registered templates only (run_write_action, _apply): for any runs,  *)
(* templates and payloads of any length.                                   *)
THEOREM RunsAreWhole == WriteSpec => WholeRunsOnly
  <1>1. ASSUME WriteInv, [WriteNext]_writeVars
        PROVE  [db' # db =>
                  \/ db' = [db EXCEPT ![Index] = "null"]
                  \/ \E r \in Runs : /\ at[r] = "execute" /\ registered[Template[r]] = "approved"
                                     /\ db' = Intended(r, db)]_writeVars
    <2>1. ASSUME NEW r \in Runs, Commit(r)
          PROVE  /\ at[r] = "execute" /\ registered[Template[r]] = "approved"
                 /\ db' = Intended(r, db)
      BY <1>1, <2>1, CommitKeeps DEF Commit
    <2>2. ASSUME NEW r \in Runs,
                 \/ Apply(r) \/ Copy(r) \/ Begin(r) \/ BeginTimesOut(r) \/ Execute(r)
                 \/ StatementFails(r) \/ Audit(r) \/ KillRun(r)
          PROVE  db' = db
      BY <2>2 DEF Apply, Copy, Begin, BeginTimesOut, Execute, StatementFails, Audit, KillRun, Abort
    <2>3. ASSUME NEW t \in DOMAIN registered,
                 Register(t) \/ \E answer \in {"approved", "denied"} : Answer(t, answer)
          PROVE  db' = db
      BY <2>3 DEF Register, Answer
    <2>4. Tick \/ IndexCopy => db' = db
      BY DEF Tick, IndexCopy
    <2>5. IndexBuild => db' = [db EXCEPT ![Index] = "null"]
      BY DEF IndexBuild
    <2>6. UNCHANGED writeVars => db' = db
      BY DEF writeVars
    <2> QED
      BY <1>1, <2>1, <2>2, <2>3, <2>4, <2>5, <2>6 DEF WriteNext
  <1> QED
    BY <1>1, Written, PTL DEF WriteSpec, WholeRunsOnly

(* When a run commits, its backup holds the database as it was before,     *)
(* unless another run committed or copied in the same second since its     *)
(* own copy began (_backup_path).                                          *)
THEOREM BackupsUndo == WriteSpec => BackupUndoes
  <1>1. ASSUME WriteInv, [WriteNext]_writeVars
        PROVE  [\A r \in Runs : at[r] = "execute" /\ at'[r] = "audit" /\ ~crossed[r] =>
                                   backups[stamp[r]] = {db}]_writeVars
    BY <1>1 DEF WriteInv, RunOK, BackedUp
  <1> QED
    BY <1>1, Written, PTL DEF WriteSpec, BackupUndoes
=============================================================================
