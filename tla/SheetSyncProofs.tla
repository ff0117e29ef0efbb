--------------------------- MODULE SheetSyncProofs ---------------------------
(***************************************************************************)
(* What a person typed survives the syncs, for any number of syncs and     *)
(* cells, of either flow, however they overlap, die or share an output     *)
(* directory.  A plan is safe (SafePlan) when every cell it would overwrite*)
(* although a person typed it is one it may rightly overwrite.  That is    *)
(* kept by following the cell from the read: a cell someone typed and the  *)
(* sync does not know of still holds what the sync saw (SeenOK).           *)
(* The other way round, what the syncs themselves wrote they recognise:    *)
(* a sync that has been alone since its read brings the ledger up to the   *)
(* sheet (Undisturbed), so that without a setback it knows it (NoSetback). *)
(***************************************************************************)
EXTENDS SheetSync, TLAPS

SafePlan(plan) ==
    \A c \in typed \cap plan.write :
        cell[c] # Blank /\ cell[c] # plan.value[c] => c \in plan.loose

SeenOK == \A p \in Syncs : proc[p].pc = "read" =>
            \A c \in typed \ proc[p].plan.loose : proc[p].seen[c] = cell[c]

FilesSafe == flow = "homework" => SafePlan(files)

MemorySafe == \A p \in Syncs : flow = "journal" /\ proc[p].pc = "ready" => SafePlan(proc[p].plan)

Inv == TypeOK /\ SeenOK /\ FilesSafe /\ MemorySafe

Proc == [pc : Stages, seen : [Cells -> Values], plan : Plans,
         list : {"none", "write", "skip"}, todo : SUBSET Cells, alone : BOOLEAN]

(* Type correctness is preserved by every action.                          *)
LEMMA IdleIsProc == Idle \in Proc /\ NoPlan \in Plans
  BY SyncAssumption DEF Idle, Proc, NoPlan, Plans, Stages

LEMMA PlanIsPlan ==
    ASSUME TypeOK, NEW p \in Syncs
    PROVE  PlanOf(p) \in Plans
  BY DEF PlanOf, TypeOK, Plans, Proc

LEMMA CurrentIsPlan ==
    ASSUME TypeOK, NEW p \in Syncs
    PROVE  Current(p) \in Plans
  BY DEF Current, TypeOK

(* What a step does to the process it is of, and that it keeps to a type.  *)
LEMMA ProcStep ==
    ASSUME TypeOK, NEW p \in Syncs, NEW new \in Proc,
           proc' = [proc EXCEPT ![p] = new],
           new.pc = "idle" => new = Idle
    PROVE  /\ proc' \in [Syncs -> Proc]
           /\ \A q \in Syncs : proc'[q].pc = "idle" => proc'[q] = Idle
  BY DEF TypeOK, Proc, Active

LEMMA TroubleStep ==
    ASSUME TypeOK, trouble < MaxTrouble, trouble' = trouble + 1
    PROVE  trouble' \in 0..MaxTrouble
  BY SyncAssumption DEF TypeOK

LEMMA TypeStep == TypeOK /\ [Next]_vars => TypeOK'
<1> SUFFICES ASSUME TypeOK, [Next]_vars PROVE TypeOK'
  OBVIOUS
<1> USE IdleIsProc
<1>p. proc \in [Syncs -> Proc] /\ \A q \in Syncs : proc[q].pc = "idle" => proc[q] = Idle
  BY DEF TypeOK, Proc, Active
<1>1. ASSUME NEW p \in Syncs, Read(p) PROVE TypeOK'
  <2>1. [Idle EXCEPT !.pc = "read", !.seen = cell, !.alone = Others(p) = {}] \in Proc
    BY DEF Idle, Proc, TypeOK, Stages
  <2>2. \A q \in Syncs : [proc[q] EXCEPT !.alone = FALSE] \in Proc
    BY <1>p DEF Proc
  <2>3. proc' \in [Syncs -> Proc] /\ \A q \in Syncs : proc'[q].pc = "idle" => proc'[q] = Idle
    <3>1. proc' \in [Syncs -> Proc]
      BY <1>1, <1>p, <2>1, <2>2 DEF Read
    <3>2. ASSUME NEW q \in Syncs, proc'[q].pc = "idle" PROVE proc'[q] = Idle
      BY <1>1, <1>p, <2>1, <3>2 DEF Read, Active, Idle, Proc
    <3> QED BY <3>1, <3>2
  <2> QED BY <1>1, <2>3 DEF Read, TypeOK, Active, Proc
<1>2. ASSUME NEW p \in Syncs, Plan(p) PROVE TypeOK'
  <2>1. DEFINE new == [Idle EXCEPT !.pc = IF Conflicts(p) # {} THEN "blocked" ELSE "ready",
                               !.plan = IF flow = "journal" THEN PlanOf(p) ELSE NoPlan,
                               !.alone = proc[p].alone]
  <2>2. new \in Proc /\ new.pc # "idle"
    BY <1>p, PlanIsPlan DEF Idle, Proc, Stages
  <2>3. proc' = [proc EXCEPT ![p] = new]
    BY <1>2 DEF Plan
  <2> HIDE DEF new
  <2>4. proc' \in [Syncs -> Proc] /\ \A q \in Syncs : proc'[q].pc = "idle" => proc'[q] = Idle
    BY <2>2, <2>3, ProcStep
  <2> QED BY <1>2, <2>4, PlanIsPlan DEF Plan, TypeOK, Active, Proc
<1>3. ASSUME NEW p \in Syncs, proc' = [proc EXCEPT ![p] = Idle],
             UNCHANGED <<flow, cell, target, ledger, files, typed>>,
             setback' \in BOOLEAN, trouble' \in 0..MaxTrouble
      PROVE TypeOK'
  <2>1. proc' \in [Syncs -> Proc] /\ \A q \in Syncs : proc'[q].pc = "idle" => proc'[q] = Idle
    BY <1>3, ProcStep
  <2> QED BY <1>3, <2>1 DEF TypeOK, Active, Proc
<1>4. ASSUME NEW p \in Syncs, Stop(p) PROVE TypeOK'
  BY <1>3, <1>4 DEF Stop, TypeOK
<1>5. ASSUME NEW p \in Syncs, Write(p) PROVE TypeOK'
  <2> DEFINE new == [proc[p] EXCEPT !.pc = "written", !.plan = [Current(p) EXCEPT !.loose = {}]]
  <2>1. [Current(p) EXCEPT !.loose = {}] \in Plans
    BY CurrentIsPlan DEF Plans
  <2>2. new \in Proc /\ new.pc # "idle"
    BY <1>p, <2>1 DEF Proc, Stages
  <2>3. proc' = [proc EXCEPT ![p] = new]
    BY <1>5 DEF Write
  <2> HIDE DEF new
  <2>4. proc' \in [Syncs -> Proc] /\ \A q \in Syncs : proc'[q].pc = "idle" => proc'[q] = Idle
    BY <2>2, <2>3, ProcStep
  <2>5. AfterBatch(Current(p)) \in [Cells -> Values]
    BY CurrentIsPlan DEF AfterBatch, TypeOK, Plans
  <2> QED BY <1>5, <2>4, <2>5 DEF Write, TypeOK, Active, Proc
<1>6. ASSUME NEW p \in Syncs, Verify(p) PROVE TypeOK'
  <2>1. trouble' \in 0..MaxTrouble /\ setback' \in BOOLEAN
    BY <1>6, TroubleStep DEF Verify, TypeOK
  <2>2. CASE proc' = [proc EXCEPT ![p] = Idle]
    BY <1>3, <1>6, <2>1, <2>2 DEF Verify
  <2>3. CASE proc' = [proc EXCEPT ![p].pc = "record"]
    <3> DEFINE new == [proc[p] EXCEPT !.pc = "record"]
    <3>1. new \in Proc /\ new.pc # "idle"
      BY <1>p DEF Proc, Stages
    <3>2. proc' = [proc EXCEPT ![p] = new]
      BY <1>p, <2>3 DEF Proc
    <3> HIDE DEF new
    <3>3. proc' \in [Syncs -> Proc] /\ \A q \in Syncs : proc'[q].pc = "idle" => proc'[q] = Idle
      BY <3>1, <3>2, ProcStep
    <3> QED BY <1>6, <2>1, <3>3 DEF Verify, TypeOK, Active, Proc
  <2> QED BY <1>6, <2>2, <2>3 DEF Verify
<1>7. ASSUME NEW p \in Syncs, NextList(p) PROVE TypeOK'
  <2> DEFINE list == IF proc[p].list = "none" THEN FirstList ELSE SecondList
             new == [proc[p] EXCEPT !.list = list,
                                    !.plan = [Current(p) EXCEPT !.loose = {}],
                                    !.todo = IF list = "write" THEN Current(p).write
                                                               ELSE Current(p).skip]
  <2>1. [Current(p) EXCEPT !.loose = {}] \in Plans
    BY CurrentIsPlan DEF Plans
  <2>2. Current(p).write \subseteq Cells /\ Current(p).skip \subseteq Cells
    BY CurrentIsPlan DEF Plans
  <2>3. list \in {"none", "write", "skip"}
    BY DEF FirstList, SecondList
  <2>4. proc' = [proc EXCEPT ![p] = new]
    BY <1>7 DEF NextList
  <2>5. new \in Proc /\ new.pc = "record"
    <3> HIDE DEF list
    <3> QED BY <1>p, <1>7, <2>1, <2>2, <2>3 DEF Proc, NextList
  <2> HIDE DEF new
  <2>6. proc' \in [Syncs -> Proc] /\ \A q \in Syncs : proc'[q].pc = "idle" => proc'[q] = Idle
    BY <2>4, <2>5, ProcStep
  <2> QED BY <1>7, <2>6 DEF NextList, TypeOK, Active, Proc
<1>8. ASSUME NEW p \in Syncs, Record(p) PROVE TypeOK'
  <2> PICK c \in proc[p].todo :
        /\ ledger' = [ledger EXCEPT ![c] = proc[p].plan.value[c]]
        /\ typed' = IF cell[c] = proc[p].plan.value[c] THEN typed \ {c} ELSE typed
        /\ proc' = [proc EXCEPT ![p].todo = @ \ {c}]
    BY <1>8 DEF Record
  <2> DEFINE new == [proc[p] EXCEPT !.todo = @ \ {c}]
  <2>1. new \in Proc /\ new.pc # "idle"
    BY <1>8, <1>p DEF Proc, Record
  <2>2. proc' = [proc EXCEPT ![p] = new]
    BY <1>p DEF Proc
  <2> HIDE DEF new
  <2>3. proc' \in [Syncs -> Proc] /\ \A q \in Syncs : proc'[q].pc = "idle" => proc'[q] = Idle
    BY <2>1, <2>2, ProcStep
  <2>4. c \in Cells /\ proc[p].plan.value[c] \in Values
    BY <1>p DEF Proc, Plans
  <2> QED BY <1>8, <2>3, <2>4 DEF Record, TypeOK, Active, Proc
<1>9. ASSUME NEW p \in Syncs, Finish(p) PROVE TypeOK'
  BY <1>3, <1>9 DEF Finish, TypeOK
<1>10. ASSUME NEW p \in Syncs, Kill(p) PROVE TypeOK'
  BY <1>3, <1>10, TroubleStep DEF Kill, TypeOK
<1>11. ASSUME NEW c \in Cells, Edit(c) PROVE TypeOK'
  <2>1. ASSUME NEW plan \in Plans PROVE Loosened(plan, c) \in Plans
    BY DEF Plans, Loosened
  <2>2. files' \in Plans
    BY <1>11, <2>1 DEF Edit, TypeOK
  <2>3. ASSUME NEW q \in Syncs
        PROVE  [proc[q] EXCEPT !.plan = Loosened(@, c)] \in Proc
    BY <1>p, <2>1 DEF Proc, Plans
  <2>4. proc' \in [Syncs -> Proc]
    BY <1>11, <1>p, <2>3 DEF Edit
  <2>5. \A q \in Syncs : proc'[q].pc = "idle" => proc'[q] = Idle
    BY <1>11, <1>p DEF Edit, PlanInMemory, Proc
  <2> QED BY <1>11, <2>2, <2>4, <2>5, TroubleStep DEF Edit, TypeOK, Active, Proc
<1>12. ASSUME NEW c \in Cells, Change(c) PROVE TypeOK'
  BY <1>12, TroubleStep DEF Change, TypeOK, Texts, JournalTexts, HomeworkTexts, Active
<1>13. CASE UNCHANGED vars
  BY <1>13 DEF vars, TypeOK, Active
<1> QED
  BY <1>1, <1>2, <1>4, <1>5, <1>6, <1>7, <1>8, <1>9, <1>10, <1>11, <1>12, <1>13 DEF Next

-----------------------------------------------------------------------------
(* The invariant holds at the start.                                       *)
LEMMA InvInit == Init => Inv
<1> SUFFICES ASSUME Init PROVE Inv
  OBVIOUS
<1>1. TypeOK
  <2>1. target \in [Cells -> Values]
    BY DEF Init, Texts, JournalTexts, HomeworkTexts
  <2>2. proc \in [Syncs -> Proc] /\ \A p \in Syncs : proc[p] = Idle
    BY IdleIsProc DEF Init
  <2>3. cell \in [Cells -> Values] /\ ledger \in [Cells -> Values \cup {NoEntry}]
    BY SyncAssumption DEF Init
  <2>4. setback \in BOOLEAN /\ typed \subseteq Cells
    BY DEF Init
  <2>5. trouble \in 0..MaxTrouble
    <3>1. MaxTrouble \in Nat /\ trouble = 0
      BY SyncAssumption DEF Init
    <3> QED BY <3>1
  <2> QED BY <2>1, <2>2, <2>3, <2>4, <2>5, IdleIsProc DEF Init, TypeOK, Proc
<1>2. SeenOK /\ MemorySafe
  BY DEF Init, SeenOK, MemorySafe, Idle
<1>3. FilesSafe
  BY DEF Init, FilesSafe, SafePlan
<1> QED
  BY <1>1, <1>2, <1>3 DEF Inv

(* A step of the syncs other than Read and Plan: what is typed by hand and *)
(* still counts as typed has not changed, nor has any plan not yet written.*)
Quiet ==
    /\ flow' = flow
    /\ files' = files
    /\ typed' \subseteq typed
    /\ \A c \in typed' : cell'[c] = cell[c]
    /\ \A q \in Syncs : proc'[q].pc \in {"read", "ready"} => proc'[q] = proc[q]

LEMMA QuietStep == Inv /\ Quiet => SeenOK' /\ FilesSafe' /\ MemorySafe'
<1> SUFFICES ASSUME Inv, Quiet PROVE SeenOK' /\ FilesSafe' /\ MemorySafe'
  OBVIOUS
<1>1. SeenOK'
  BY DEF Inv, Quiet, SeenOK
<1>2. FilesSafe'
  BY DEF Inv, Quiet, FilesSafe, SafePlan
<1>3. MemorySafe'
  <2> SUFFICES ASSUME NEW p \in Syncs, flow' = "journal", proc'[p].pc = "ready"
               PROVE  SafePlan(proc[p].plan)'
    BY DEF MemorySafe
  <2>1. proc'[p] = proc[p] /\ SafePlan(proc[p].plan)
    BY DEF Quiet, Inv, MemorySafe
  <2> QED BY <2>1 DEF Quiet, SafePlan
<1> QED BY <1>1, <1>2, <1>3

(* The read: the sync has seen what every cell holds.                      *)
LEMMA ReadStep ==
    ASSUME Inv, NEW p \in Syncs, Read(p)
    PROVE  SeenOK' /\ FilesSafe' /\ MemorySafe'
<1>1. proc \in [Syncs -> Proc]
  BY DEF Inv, TypeOK, Proc
<1>2. \A q \in Syncs : proc'[q].pc = "read" =>
        /\ q = p => proc'[q].seen = cell
        /\ q # p => proc[q].pc = "read" /\ proc'[q].seen = proc[q].seen
                                        /\ proc'[q].plan = proc[q].plan
  BY <1>1, IdleIsProc DEF Read, Proc, Active
<1>3. \A q \in Syncs : proc'[q].pc = "ready" =>
        proc[q].pc = "ready" /\ proc'[q].plan = proc[q].plan
  BY <1>1, IdleIsProc DEF Read, Proc, Active
<1>4. UNCHANGED <<flow, cell, files, typed>>
  BY DEF Read
<1>5. SeenOK'
  BY <1>2, <1>4 DEF SeenOK, Inv
<1>6. FilesSafe'
  BY <1>4 DEF FilesSafe, SafePlan, Inv
<1>7. MemorySafe'
  BY <1>3, <1>4 DEF MemorySafe, SafePlan, Inv
<1> QED BY <1>5, <1>6, <1>7

(* The plan: a cell typed by hand that it would overwrite still holds what *)
(* the sync saw, so the ledger knew that value, or it was typed since.     *)
LEMMA PlanSafe ==
    ASSUME Inv, NEW p \in Syncs, proc[p].pc = "read"
    PROVE  SafePlan(PlanOf(p))
<1> SUFFICES ASSUME NEW c \in typed, c \in PlanOf(p).write,
                    cell[c] # Blank, c \notin PlanOf(p).loose
             PROVE  FALSE
  BY DEF SafePlan
<1>1. c \in Cells /\ Decide(c, proc[p].seen[c]) = "write_changed"
  BY DEF PlanOf
<1>2. c \notin proc[p].plan.loose /\ ledger[c] # cell[c]
  BY <1>1 DEF PlanOf
<1>3. proc[p].seen[c] = cell[c]
  BY <1>2 DEF Inv, SeenOK
<1> QED BY <1>1, <1>2, <1>3 DEF Decide

LEMMA PlanStep ==
    ASSUME Inv, NEW p \in Syncs, Plan(p)
    PROVE  SeenOK' /\ FilesSafe' /\ MemorySafe'
<1>1. proc \in [Syncs -> Proc]
  BY DEF Inv, TypeOK, Proc
<1>2. SafePlan(PlanOf(p))
  BY PlanSafe DEF Plan
<1>3. \A q \in Syncs \ {p} : proc'[q] = proc[q]
  BY <1>1 DEF Plan
<1>4. proc'[p].pc # "read" /\ (flow = "journal" => proc'[p].plan = PlanOf(p))
  BY <1>1 DEF Plan, Idle
<1>5. UNCHANGED <<flow, cell, typed>> /\ (flow = "homework" => files' = PlanOf(p))
  BY DEF Plan
<1>6. SeenOK'
  BY <1>3, <1>4, <1>5 DEF SeenOK, Inv
<1>7. FilesSafe'
  BY <1>2, <1>5 DEF FilesSafe, SafePlan
<1>8. MemorySafe'
  BY <1>2, <1>3, <1>4, <1>5 DEF MemorySafe, SafePlan, Inv
<1> QED BY <1>6, <1>7, <1>8

(* An edit by hand: every plan that could overwrite the cell learns of it. *)
LEMMA EditStep ==
    ASSUME Inv, NEW c \in Cells, Edit(c)
    PROVE  SeenOK' /\ FilesSafe' /\ MemorySafe'
<1>1. proc \in [Syncs -> Proc] /\ files \in Plans
  BY DEF Inv, TypeOK, Proc
<1>2. ASSUME NEW plan \in Plans
      PROVE  Loosened(plan, c).loose = plan.loose \cup {c}
             /\ Loosened(plan, c).write = plan.write
             /\ Loosened(plan, c).value = plan.value
  BY DEF Loosened, Plans
<1>3. \A q \in Syncs :
        /\ proc'[q].pc = proc[q].pc /\ proc'[q].seen = proc[q].seen
        /\ PlanInMemory(q) => proc'[q].plan = Loosened(proc[q].plan, c)
  BY <1>1 DEF Edit, Proc
<1>4. \A q \in Syncs : proc[q].plan \in Plans
  BY <1>1 DEF Proc
<1>5. flow' = flow /\ typed' = typed \cup {c} /\ \A d \in Cells \ {c} : cell'[d] = cell[d]
  BY DEF Edit, Inv, TypeOK
<1>6. typed \subseteq Cells
  BY DEF Inv, TypeOK
<1>7. SeenOK'
  BY <1>2, <1>3, <1>4, <1>5, <1>6 DEF SeenOK, Inv, PlanInMemory
<1>8. FilesSafe'
  BY <1>1, <1>2, <1>5, <1>6 DEF FilesSafe, SafePlan, Inv, Edit
<1>9. MemorySafe'
  BY <1>2, <1>3, <1>4, <1>5, <1>6 DEF MemorySafe, SafePlan, Inv, PlanInMemory
<1> QED BY <1>7, <1>8, <1>9

(* Every other step is a quiet one.                                        *)
LEMMA OthersAreQuiet ==
    ASSUME Inv, NEW p \in Syncs,
           \/ Stop(p) \/ Write(p) \/ Verify(p) \/ NextList(p)
           \/ Record(p) \/ Finish(p) \/ Kill(p)
    PROVE  Quiet
<1>1. proc \in [Syncs -> Proc]
  BY DEF Inv, TypeOK, Proc
<1>2. Idle.pc = "idle"
  BY DEF Idle
<1>3. CASE Stop(p) \/ Finish(p) \/ Kill(p)
  BY <1>1, <1>2, <1>3 DEF Stop, Finish, Kill, Quiet
<1>4. CASE Write(p)
  BY <1>1, <1>4 DEF Write, Quiet, Proc
<1>5. CASE Verify(p)
  BY <1>1, <1>2, <1>5 DEF Verify, Quiet, Proc
<1>6. CASE NextList(p)
  BY <1>1, <1>6 DEF NextList, Quiet, Proc
<1>7. CASE Record(p)
  <2>1. typed' \subseteq typed /\ UNCHANGED <<flow, files, cell>>
    BY <1>7 DEF Record
  <2>2. \A q \in Syncs : proc'[q].pc = proc[q].pc /\ (q # p => proc'[q] = proc[q])
    BY <1>1, <1>7 DEF Record, Proc
  <2> QED BY <1>7, <2>1, <2>2 DEF Record, Quiet
<1> QED BY <1>3, <1>4, <1>5, <1>6, <1>7

LEMMA InvStep == Inv /\ [Next]_vars => Inv'
<1> SUFFICES ASSUME Inv, [Next]_vars PROVE SeenOK' /\ FilesSafe' /\ MemorySafe'
  BY TypeStep DEF Inv
<1>1. ASSUME NEW p \in Syncs, Read(p) PROVE SeenOK' /\ FilesSafe' /\ MemorySafe'
  BY <1>1, ReadStep
<1>2. ASSUME NEW p \in Syncs, Plan(p) PROVE SeenOK' /\ FilesSafe' /\ MemorySafe'
  BY <1>2, PlanStep
<1>3. ASSUME NEW p \in Syncs,
             \/ Stop(p) \/ Write(p) \/ Verify(p) \/ NextList(p)
             \/ Record(p) \/ Finish(p) \/ Kill(p)
      PROVE  SeenOK' /\ FilesSafe' /\ MemorySafe'
  BY <1>3, OthersAreQuiet, QuietStep
<1>4. ASSUME NEW c \in Cells, Edit(c) PROVE SeenOK' /\ FilesSafe' /\ MemorySafe'
  BY <1>4, EditStep
<1>5. ASSUME NEW c \in Cells, Change(c) PROVE SeenOK' /\ FilesSafe' /\ MemorySafe'
  <2>1. Quiet
    BY <1>5 DEF Change, Quiet
  <2> QED BY <2>1, QuietStep
<1>6. CASE UNCHANGED vars
  <2>1. Quiet
    BY <1>6 DEF vars, Quiet
  <2> QED BY <2>1, QuietStep
<1> QED
  BY <1>1, <1>2, <1>3, <1>4, <1>5, <1>6 DEF Next

-----------------------------------------------------------------------------
(* A sync that has been alone since its read: nobody but a person touched  *)
(* the sheet since, so a cell is typed by hand, or it holds what was seen  *)
(* (read), what it was right to hold (ready), or what was sent (written,   *)
(* record); and the ledger holds it too where it was recorded.             *)
Recorded(p) ==
    LET plan == Current(p)
        list == proc[p].list
        First == IF FirstList = "write" THEN plan.write ELSE plan.skip
    IN  /\ list # "none" => proc[p].plan.value = plan.value
        /\ list = FirstList => \A c \in First \ proc[p].todo : ledger[c] = plan.value[c]
        /\ list = SecondList => \A c \in Cells \ proc[p].todo : ledger[c] = plan.value[c]

Undisturbed(p) ==
    LET plan == Current(p)
        pc == proc[p].pc
    IN  /\ pc = "read" => \A c \in Cells \ typed : proc[p].seen[c] = cell[c]
        /\ pc \in {"ready", "written", "record"} => plan.write \cup plan.skip = Cells
        /\ pc = "ready" => \A c \in plan.skip \ typed : cell[c] = plan.value[c]
        /\ pc \in {"written", "record"} => \A c \in Cells \ typed : cell[c] = plan.value[c]
        /\ pc = "record" => Recorded(p)
        /\ pc # "record" => proc[p].list = "none"
        /\ proc[p].list = "none" => proc[p].todo = {}

AloneOK ==
    \A p \in Syncs : Active(p) /\ proc[p].alone =>
        Undisturbed(p) /\ \A q \in Syncs : Active(q) => q = p

(* Without a setback the sync under way is alone, and outside of its write *)
(* the ledger knows every cell nobody typed into.                          *)
Known == \A c \in Cells \ typed : cell[c] = Blank \/ cell[c] = ledger[c]

Writing(p) == proc[p].pc \in {"written", "record"}

NoSetback ==
    ~setback => /\ \A p \in Syncs : Active(p) => proc[p].alone
                /\ (\A p \in Syncs : ~Writing(p)) => Known

AloneInv == AloneOK /\ NoSetback

LEMMA AloneInit == Init => AloneInv
  BY DEF Init, AloneInv, AloneOK, NoSetback, Known, Active, Idle

(* A step of a sync leaves the others as they are; if it is alone there    *)
(* are none.                                                               *)
LEMMA OwnStep ==
    ASSUME AloneOK, NEW p \in Syncs, Active(p),
           \A q \in Syncs \ {p} : proc'[q] = proc[q],
           Active(p)' /\ proc'[p].alone => proc[p].alone,
           Active(p)' /\ proc[p].alone /\ Undisturbed(p) => Undisturbed(p)'
    PROVE  AloneOK'
<1> SUFFICES ASSUME NEW r \in Syncs, Active(r)', proc'[r].alone
             PROVE  Undisturbed(r)' /\ \A q \in Syncs : Active(q)' => q = r
  BY DEF AloneOK
<1>1. r = p
  BY DEF AloneOK, Active
<1> QED BY <1>1 DEF AloneOK, Active

(* A sync that ends, for whatever reason, after a setback if it had begun  *)
(* to write.                                                               *)
LEMMA EndStep ==
    ASSUME Inv, AloneInv, NEW p \in Syncs, Active(p), proc' = [proc EXCEPT ![p] = Idle],
           UNCHANGED <<cell, ledger, typed>>,
           ~setback' => ~setback /\ ~Writing(p)
    PROVE  AloneInv'
<1>1. proc'[p] = Idle /\ \A q \in Syncs \ {p} : proc'[q] = proc[q]
  BY DEF Inv, TypeOK
<1>2. AloneOK'
  BY <1>1, OwnStep DEF AloneInv, Active, Idle
<1>3. NoSetback'
  BY <1>1 DEF AloneInv, NoSetback, Known, Writing, Active, Idle
<1> QED BY <1>2, <1>3 DEF AloneInv

LEMMA ReadAlone ==
    ASSUME Inv, AloneInv, NEW p \in Syncs, Read(p)
    PROVE  AloneInv'
<1>1. proc \in [Syncs -> Proc]
  BY DEF Inv, TypeOK, Proc
<1>2. /\ proc'[p].pc = "read" /\ proc'[p].seen = cell /\ proc'[p].list = "none"
      /\ proc'[p].todo = {} /\ proc'[p].alone = (Others(p) = {})
  BY DEF Read, Idle
<1>3. \A q \in Syncs \ {p} : proc'[q].pc = proc[q].pc /\ (Active(q) => proc'[q].alone = FALSE)
  BY <1>1 DEF Read, Proc
<1>4. UNCHANGED <<cell, ledger, typed>> /\ (~setback' => ~setback /\ Others(p) = {})
  BY DEF Read, Inv, TypeOK
<1>5. Others(p) = {} => \A q \in Syncs \ {p} : ~Active(q)
  BY DEF Others
<1>6. AloneOK'
  <2> SUFFICES ASSUME NEW r \in Syncs, Active(r)', proc'[r].alone
               PROVE  Undisturbed(r)' /\ \A q \in Syncs : Active(q)' => q = r
    BY DEF AloneOK
  <2>1. r = p
    BY <1>3 DEF Active
  <2>2. \A q \in Syncs : Active(q)' => q = p
    BY <1>2, <1>3, <1>5, <2>1 DEF Active
  <2>3. Undisturbed(p)'
    BY <1>2, <1>4 DEF Undisturbed
  <2> QED BY <2>1, <2>2, <2>3
<1>7. NoSetback'
  <2>1. (\A q \in Syncs : ~Writing(q))' => \A q \in Syncs : ~Writing(q)
    BY <1>3 DEF Read, Writing, Active
  <2>2. ~setback' => \A q \in Syncs : Active(q)' => proc'[q].alone
    BY <1>2, <1>3, <1>4, <1>5 DEF Active
  <2> QED BY <1>4, <2>1, <2>2 DEF AloneInv, NoSetback, Known
<1> QED BY <1>6, <1>7 DEF AloneInv

(* Nobody typed into a cell and it is right: the plan passes it by.        *)
LEMMA PlanAlone ==
    ASSUME Inv, AloneInv, NEW p \in Syncs, Plan(p)
    PROVE  AloneInv'
<1>1. proc \in [Syncs -> Proc]
  BY DEF Inv, TypeOK, Proc
<1>2. /\ proc'[p].pc = IF Conflicts(p) # {} THEN "blocked" ELSE "ready"
      /\ proc'[p].list = "none" /\ proc'[p].todo = {} /\ proc'[p].alone = proc[p].alone
      /\ \A q \in Syncs \ {p} : proc'[q] = proc[q]
  BY <1>1 DEF Plan, Idle
<1>3. UNCHANGED <<flow, cell, target, ledger, typed, setback>>
  BY DEF Plan
<1>4. flow \in Flows
  BY DEF Inv, TypeOK
<1>5. Current(p)' = PlanOf(p)
  BY <1>1, <1>3, <1>4 DEF Plan, Current, Flows
<1>6. Conflicts(p) = {} => PlanOf(p).write \cup PlanOf(p).skip = Cells
  BY DEF Conflicts, PlanOf, Decide
<1>7. proc[p].alone => \A c \in PlanOf(p).skip \ typed : cell[c] = PlanOf(p).value[c]
  <2> SUFFICES ASSUME proc[p].alone, NEW c \in PlanOf(p).skip \ typed
               PROVE  cell[c] = PlanOf(p).value[c]
    OBVIOUS
  <2>1. c \in Cells /\ proc[p].seen[c] = cell[c]
    BY DEF PlanOf, AloneInv, AloneOK, Undisturbed, Plan, Active
  <2>2. proc[p].seen[c] = target[c]
    BY DEF PlanOf, Decide
  <2> QED BY <2>1, <2>2 DEF PlanOf
<1>8. proc[p].alone => Undisturbed(p)'
  BY <1>2, <1>3, <1>5, <1>6, <1>7 DEF Undisturbed
<1>9. AloneOK'
  BY <1>2, <1>8, OwnStep DEF AloneInv, Active, Plan
<1>10. NoSetback'
  <2>1. \A q \in Syncs : (Active(q)' <=> Active(q)) /\ (Writing(q)' <=> Writing(q))
    BY <1>2 DEF Active, Writing, Plan
  <2>2. \A q \in Syncs : proc'[q].alone = proc[q].alone
    BY <1>2
  <2> QED BY <1>3, <2>1, <2>2 DEF AloneInv, NoSetback, Known
<1> QED BY <1>9, <1>10 DEF AloneInv

(* After the batch every cell holds its value: it was written, was right   *)
(* before, or was typed into meanwhile.                                    *)
LEMMA WriteAlone ==
    ASSUME Inv, AloneInv, NEW p \in Syncs, Write(p)
    PROVE  AloneInv'
<1> DEFINE plan == Current(p)
<1>1. proc \in [Syncs -> Proc] /\ plan \in Plans
  BY CurrentIsPlan DEF Inv, TypeOK, Proc
<1>2. /\ proc'[p].pc = "written" /\ proc'[p].list = proc[p].list
      /\ proc'[p].todo = proc[p].todo
      /\ proc'[p].alone = proc[p].alone
      /\ \A q \in Syncs \ {p} : proc'[q] = proc[q]
      /\ proc'[p].plan = [plan EXCEPT !.loose = {}]
  BY <1>1 DEF Write, Proc
<1>3. [plan EXCEPT !.loose = {}].write = plan.write /\ [plan EXCEPT !.loose = {}].skip = plan.skip
      /\ [plan EXCEPT !.loose = {}].value = plan.value
  BY <1>1 DEF Plans
<1>4. /\ Current(p)'.write = plan.write /\ Current(p)'.skip = plan.skip
      /\ Current(p)'.value = plan.value
  BY <1>2, <1>3 DEF Current, Write
<1>5. cell' = AfterBatch(plan) /\ typed' = {c \in typed : cell'[c] = cell[c]}
  BY DEF Write
<1>6. ASSUME proc[p].alone, Undisturbed(p) PROVE Undisturbed(p)'
  <2>1. plan.write \cup plan.skip = Cells /\ proc[p].list = "none" /\ proc[p].todo = {}
        /\ \A c \in plan.skip \ typed : cell[c] = plan.value[c]
    BY <1>6 DEF Undisturbed, Write
  <2>2. \A c \in Cells : cell'[c] = IF c \in plan.write THEN plan.value[c] ELSE cell[c]
    BY <1>5 DEF AfterBatch
  <2>3. \A c \in Cells \ typed' : cell'[c] = plan.value[c]
    BY <1>5, <2>1, <2>2
  <2> HIDE DEF plan
  <2> QED BY <1>2, <1>4, <2>1, <2>3 DEF Undisturbed
<1>7. AloneOK'
  BY <1>2, <1>6, OwnStep DEF AloneInv, Active, Write
<1>8. NoSetback'
  BY <1>2 DEF AloneInv, NoSetback, Writing, Active, Write
<1> QED BY <1>7, <1>8 DEF AloneInv

LEMMA VerifyAlone ==
    ASSUME Inv, AloneInv, NEW p \in Syncs, Verify(p)
    PROVE  AloneInv'
<1>1. proc \in [Syncs -> Proc] /\ UNCHANGED <<flow, cell, ledger, files, typed>>
  BY DEF Inv, TypeOK, Proc, Verify
<1>2. CASE proc' = [proc EXCEPT ![p] = Idle] /\ setback' = TRUE
  BY <1>1, <1>2, EndStep DEF Verify, Active
<1>3. CASE proc' = [proc EXCEPT ![p].pc = "record"] /\ setback' = setback
  <2>1. /\ proc'[p].pc = "record" /\ proc'[p].list = proc[p].list
        /\ proc'[p].alone = proc[p].alone /\ proc'[p].plan = proc[p].plan
        /\ proc'[p].todo = proc[p].todo
        /\ \A q \in Syncs \ {p} : proc'[q] = proc[q]
    BY <1>1, <1>3 DEF Proc
  <2>2. Current(p)' = Current(p)
    BY <1>1, <2>1 DEF Current
  <2>3. Undisturbed(p) => Undisturbed(p)'
    BY <1>1, <2>1, <2>2 DEF Undisturbed, Recorded, Verify, FirstList, SecondList
  <2>4. AloneOK'
    BY <2>1, <2>3, OwnStep DEF AloneInv, Active, Verify
  <2>5. NoSetback'
    BY <1>3, <2>1 DEF AloneInv, NoSetback, Writing, Active, Verify
  <2> QED BY <2>4, <2>5 DEF AloneInv
<1> QED BY <1>2, <1>3 DEF Verify

(* Each cell a sync records holds in the ledger what was sent or seen.     *)
LEMMA RecordAlone ==
    ASSUME Inv, AloneInv, NEW p \in Syncs, NextList(p) \/ Record(p)
    PROVE  AloneInv'
<1>1. proc \in [Syncs -> Proc] /\ UNCHANGED <<flow, cell, files, setback>>
  BY DEF Inv, TypeOK, Proc, NextList, Record
<1>2. proc[p].pc = "record"
  BY DEF NextList, Record
<1>3. CASE NextList(p)
  <2> DEFINE plan == Current(p)
             list == IF proc[p].list = "none" THEN FirstList ELSE SecondList
  <2>1. plan \in Plans
    BY CurrentIsPlan DEF Inv
  <2>2. /\ proc'[p].pc = "record" /\ proc'[p].list = list /\ proc'[p].alone = proc[p].alone
        /\ proc'[p].plan = [plan EXCEPT !.loose = {}]
        /\ proc'[p].todo = IF list = "write" THEN plan.write ELSE plan.skip
        /\ \A q \in Syncs \ {p} : proc'[q] = proc[q]
    BY <1>1, <1>2, <1>3 DEF NextList, Proc
  <2>3. /\ Current(p)'.write = plan.write /\ Current(p)'.skip = plan.skip
        /\ Current(p)'.value = plan.value /\ proc'[p].plan.value = plan.value
    BY <1>1, <2>1, <2>2 DEF Current, Plans
  <2>4. UNCHANGED <<ledger, typed>> /\ proc[p].todo = {} /\ proc[p].list # SecondList
    BY <1>3 DEF NextList
  <2>5. list # "none" /\ (proc[p].list = "none" \/ proc[p].list = FirstList)
    BY <1>1, <2>4 DEF Proc, FirstList, SecondList
  <2>6. ASSUME Undisturbed(p) PROVE Undisturbed(p)'
    <3>1. /\ plan.write \cup plan.skip = Cells /\ Recorded(p)
          /\ \A c \in Cells \ typed : cell[c] = plan.value[c]
      BY <1>2, <2>6 DEF Undisturbed
    <3>2. Recorded(p)'
      <4>1. CASE proc[p].list = "none"
        BY <1>1, <2>2, <2>3, <2>4, <4>1 DEF Recorded, FirstList, SecondList
      <4>2. CASE proc[p].list = FirstList
        <5>1. \A c \in (IF FirstList = "write" THEN plan.write ELSE plan.skip) : ledger[c] = plan.value[c]
          BY <2>4, <3>1, <4>2 DEF Recorded
        <5>2. list = SecondList /\ FirstList # SecondList
          BY <4>2 DEF FirstList, SecondList
        <5>3. \A c \in Cells \ proc'[p].todo : ledger[c] = plan.value[c]
          BY <2>2, <3>1, <5>1, <5>2 DEF FirstList, SecondList
        <5> HIDE DEF plan
        <5> QED BY <1>1, <2>2, <2>3, <2>4, <5>2, <5>3 DEF Recorded, FirstList, SecondList
      <4> QED BY <2>5, <4>1, <4>2
    <3> HIDE DEF plan, list
    <3> QED BY <1>1, <2>2, <2>3, <2>4, <2>5, <3>1, <3>2 DEF Undisturbed
  <2>7. AloneOK'
    BY <1>2, <2>2, <2>6, OwnStep DEF AloneInv, Active
  <2>8. NoSetback'
    BY <1>1, <1>2, <2>2 DEF AloneInv, NoSetback, Writing, Active
  <2> QED BY <2>7, <2>8 DEF AloneInv
<1>4. CASE Record(p)
  <2> PICK c \in proc[p].todo :
        /\ ledger' = [ledger EXCEPT ![c] = proc[p].plan.value[c]]
        /\ typed' = IF cell[c] = proc[p].plan.value[c] THEN typed \ {c} ELSE typed
        /\ proc' = [proc EXCEPT ![p].todo = @ \ {c}]
    BY <1>4 DEF Record
  <2>1. /\ proc'[p].pc = "record" /\ proc'[p].list = proc[p].list
        /\ proc'[p].alone = proc[p].alone /\ proc'[p].plan = proc[p].plan
        /\ proc'[p].todo = proc[p].todo \ {c}
        /\ \A q \in Syncs \ {p} : proc'[q] = proc[q]
    BY <1>1, <1>2 DEF Proc
  <2>2. Current(p)' = Current(p) /\ c \in Cells
    BY <1>1, <2>1 DEF Current, Proc
  <2>3. ledger'[c] = proc[p].plan.value[c] /\ \A d \in Cells \ {c} : ledger'[d] = ledger[d]
    BY <2>2 DEF Inv, TypeOK
  <2>4. ASSUME Undisturbed(p) PROVE Undisturbed(p)'
    <3> DEFINE plan == Current(p)
    <3> proc[p].list # "none"
      BY <2>4 DEF Undisturbed
    <3>1. /\ plan.write \cup plan.skip = Cells /\ Recorded(p)
          /\ \A d \in Cells \ typed : cell[d] = plan.value[d]
      BY <1>2, <2>4 DEF Undisturbed
    <3>2. proc[p].plan.value = plan.value
      BY <2>4, <3>1 DEF Recorded
    <3>3. \A d \in Cells \ typed' : cell'[d] = plan.value[d]
      BY <1>1, <3>1, <3>2
    <3>4. Recorded(p)'
      BY <1>1, <2>1, <2>2, <2>3, <3>1, <3>2 DEF Recorded, FirstList, SecondList
    <3> QED BY <2>1, <2>2, <3>1, <3>3, <3>4 DEF Undisturbed
  <2>5. AloneOK'
    BY <1>2, <2>1, <2>4, OwnStep DEF AloneInv, Active
  <2>6. NoSetback'
    BY <1>1, <1>2, <2>1 DEF AloneInv, NoSetback, Writing, Active
  <2> QED BY <2>5, <2>6 DEF AloneInv
<1> QED BY <1>3, <1>4

(* A sync that ends alone leaves a ledger that knows every cell.           *)
LEMMA FinishAlone ==
    ASSUME Inv, AloneInv, NEW p \in Syncs, Finish(p)
    PROVE  AloneInv'
<1>1. proc'[p] = Idle /\ \A q \in Syncs \ {p} : proc'[q] = proc[q]
  BY DEF Finish, Inv, TypeOK
<1>2. UNCHANGED <<cell, ledger, typed>> /\ proc[p].pc = "record"
  BY DEF Finish
<1>3. AloneOK'
  BY <1>1, <1>2, OwnStep DEF AloneInv, Active, Idle
<1>4. NoSetback'
  <2> SUFFICES ASSUME ~setback' PROVE (\A q \in Syncs : ~Active(q))' /\ Known'
    BY DEF NoSetback, Active
  <2>1. proc[p].alone
    BY <1>2 DEF Finish, AloneInv, NoSetback, Active, Inv, TypeOK
  <2>2. Undisturbed(p) /\ \A q \in Syncs : Active(q) => q = p
    BY <1>2, <2>1 DEF AloneInv, AloneOK, Active
  <2>3. \A c \in Cells \ typed : cell[c] = ledger[c]
    BY <1>2, <2>2 DEF Undisturbed, Recorded, Finish
  <2>4. (\A q \in Syncs : ~Active(q))'
    BY <1>1, <2>2 DEF Active, Idle
  <2> QED BY <1>2, <2>3, <2>4 DEF Known
<1> QED BY <1>3, <1>4 DEF AloneInv

LEMMA EditAlone ==
    ASSUME Inv, AloneInv, NEW c \in Cells, Edit(c)
    PROVE  AloneInv'
<1>1. proc \in [Syncs -> Proc] /\ files \in Plans /\ flow \in Flows
  BY DEF Inv, TypeOK, Proc
<1>2. ASSUME NEW plan \in Plans
      PROVE  Loosened(plan, c).write = plan.write /\ Loosened(plan, c).skip = plan.skip
             /\ Loosened(plan, c).value = plan.value
  BY DEF Loosened, Plans
<1>3. \A q \in Syncs : proc[q].plan \in Plans
  BY <1>1 DEF Proc
<1>4. \A q \in Syncs :
        /\ proc'[q].pc = proc[q].pc /\ proc'[q].seen = proc[q].seen
        /\ proc'[q].list = proc[q].list /\ proc'[q].todo = proc[q].todo
        /\ proc'[q].alone = proc[q].alone
  BY <1>1 DEF Edit, Proc
<1>5. \A q \in Syncs : proc'[q].plan.write = proc[q].plan.write
        /\ proc'[q].plan.skip = proc[q].plan.skip /\ proc'[q].plan.value = proc[q].plan.value
  <2> TAKE q \in Syncs
  <2>1. proc'[q].plan = proc[q].plan \/ proc'[q].plan = Loosened(proc[q].plan, c)
    BY <1>1 DEF Edit, Proc
  <2> QED BY <1>2, <1>3, <2>1
<1>6. \A q \in Syncs : Current(q)'.write = Current(q).write
        /\ Current(q)'.skip = Current(q).skip /\ Current(q)'.value = Current(q).value
  BY <1>1, <1>2, <1>5 DEF Edit, Current
<1>7. /\ typed' = typed \cup {c} /\ ledger' = ledger /\ flow' = flow /\ setback' = setback
      /\ \A d \in Cells \ {c} : cell'[d] = cell[d]
  BY DEF Edit, Inv, TypeOK
<1>8. AloneOK'
  <2> SUFFICES ASSUME NEW r \in Syncs, Active(r)', proc'[r].alone
               PROVE  Undisturbed(r)' /\ \A q \in Syncs : Active(q)' => q = r
    BY DEF AloneOK
  <2>1. Undisturbed(r) /\ \A q \in Syncs : Active(q) => q = r
    BY <1>4 DEF AloneInv, AloneOK, Active
  <2>2. Recorded(r) => Recorded(r)'
    BY <1>4, <1>5, <1>6, <1>7 DEF Recorded, FirstList, SecondList
  <2>3. Current(r).skip \subseteq Cells
    BY CurrentIsPlan DEF Inv, Plans
  <2>4. Undisturbed(r)'
    BY <1>4, <1>6, <1>7, <2>1, <2>2, <2>3 DEF Undisturbed
  <2> QED BY <1>4, <2>1, <2>4 DEF Active
<1>9. NoSetback'
  <2>1. \A q \in Syncs : (Active(q)' <=> Active(q)) /\ (Writing(q)' <=> Writing(q))
    BY <1>4 DEF Active, Writing
  <2> QED BY <1>4, <1>7, <2>1 DEF AloneInv, NoSetback, Known
<1> QED BY <1>8, <1>9 DEF AloneInv

LEMMA AloneStep == Inv /\ AloneInv /\ [Next]_vars => AloneInv'
<1> SUFFICES ASSUME Inv, AloneInv, [Next]_vars PROVE AloneInv'
  OBVIOUS
<1>1. ASSUME NEW p \in Syncs, Stop(p) \/ Kill(p) PROVE AloneInv'
  <2>1. Active(p) /\ proc' = [proc EXCEPT ![p] = Idle] /\ UNCHANGED <<cell, ledger, typed>>
    BY <1>1 DEF Stop, Kill, Active
  <2>2. ~setback' => ~setback /\ ~Writing(p)
    BY <1>1 DEF Stop, Kill, Writing, Inv, TypeOK
  <2> QED BY <2>1, <2>2, EndStep
<1>2. CASE (\E c \in Cells : Change(c)) \/ UNCHANGED vars
  <2>1. UNCHANGED <<flow, cell, ledger, files, proc, typed, setback>>
    BY <1>2 DEF Change, vars
  <2>2. \A p \in Syncs : Undisturbed(p) => Undisturbed(p)'
    BY <2>1 DEF Undisturbed, Recorded, Current, FirstList, SecondList
  <2> QED BY <2>1, <2>2 DEF AloneInv, AloneOK, NoSetback, Known, Active, Writing
<1> QED
  BY <1>1, <1>2, ReadAlone, PlanAlone, WriteAlone, VerifyAlone, RecordAlone, FinishAlone,
     EditAlone DEF Next

-----------------------------------------------------------------------------
(* The state of the syncs is well typed in every behaviour.                *)
THEOREM TypeCorrect == Spec => []TypeOK
<1>1. Inv => TypeOK
  BY DEF Inv
<1> QED BY InvInit, InvStep, <1>1, PTL DEF Spec

(* No batch, of any sync, replaces a value typed by hand that the ledger   *)
(* did not know when the batch was planned and that was there to be read.  *)
THEOREM TypedValuesSurvive == Spec => ManualSurvives
<1> DEFINE Kept == \A p \in Syncs : Write(p) =>
                     \A c \in Cells : c \in typed /\ cell[c] # Blank /\ cell'[c] # cell[c]
                                        => c \in Current(p).loose
<1>1. Inv /\ [Next]_vars => [Kept]_vars
  <2> SUFFICES ASSUME Inv, NEW p \in Syncs, Write(p), NEW c \in Cells,
                      c \in typed, cell[c] # Blank, cell'[c] # cell[c]
               PROVE  c \in Current(p).loose
    OBVIOUS
  <2>1. SafePlan(Current(p))
    BY DEF Inv, FilesSafe, MemorySafe, Write, Current, TypeOK, Flows
  <2>2. c \in Current(p).write /\ cell'[c] = Current(p).value[c]
    BY DEF Write, AfterBatch
  <2> QED BY <2>1, <2>2 DEF SafePlan
<1>2. Spec => []Inv
  BY InvInit, InvStep, PTL DEF Spec
<1> HIDE DEF Kept
<1>3. Spec => [][Kept]_vars
  BY <1>1, <1>2, PTL DEF Spec
<1> QED BY <1>3 DEF ManualSurvives, Kept

(* A review is asked for what people typed, never for what the syncs wrote *)
(* themselves, unless one failed half-way, or two overlapped, since a sync *)
(* last ran to its end undisturbed (record_outbound_result).               *)
THEOREM OwnWritesAreRecognised == Spec => OwnWritesRecognised
<1> DEFINE AboutPeople == \A p \in Syncs : Plan(p) /\ ~setback => Conflicts(p) \subseteq typed
<1>1. Inv /\ AloneInv /\ [Next]_vars => [AboutPeople]_vars
  <2> SUFFICES ASSUME Inv, AloneInv, NEW p \in Syncs, Plan(p), ~setback,
                      NEW c \in Conflicts(p), c \notin typed
               PROVE  FALSE
    OBVIOUS
  <2>1. c \in Cells /\ proc[p].pc = "read"
    BY DEF Conflicts, Plan
  <2>2. proc[p].alone
    BY <2>1 DEF AloneInv, NoSetback, Active
  <2>3. Undisturbed(p) /\ \A q \in Syncs : Active(q) => q = p
    BY <2>1, <2>2 DEF AloneInv, AloneOK, Active
  <2>4. proc[p].seen[c] = cell[c]
    BY <2>1, <2>3 DEF Undisturbed
  <2>5. Known
    BY <2>1, <2>3 DEF AloneInv, NoSetback, Writing, Active
  <2> QED BY <2>1, <2>4, <2>5 DEF Known, Conflicts, Decide
<1>2. Spec => [](Inv /\ AloneInv)
  BY InvInit, InvStep, AloneInit, AloneStep, PTL DEF Spec
<1> HIDE DEF AboutPeople
<1>3. Spec => [][AboutPeople]_vars
  BY <1>1, <1>2, PTL DEF Spec
<1> QED BY <1>3 DEF OwnWritesRecognised, AboutPeople

=============================================================================
