------------------------------ MODULE SheetSync ------------------------------
(***************************************************************************)
(* Copying lesson records from the local database into a shared Google     *)
(* sheet: `outbound daily-management sync` (the parent-facing journal) and *)
(* `outbound daily-lesson-homework sync` (the homework tab of one day).    *)
(* Both read the sheet, decide cell by cell against an outbound ledger     *)
(* what may be written, stop when any cell needs a person, write one batch,*)
(* read the sheet again, and record every cell in the ledger.              *)
(*                                                                         *)
(* The sheet is also edited by hand, and nothing locks it: a person may    *)
(* type between the read and the write, syncs may overlap, and a sync may  *)
(* die anywhere.  The journal flow keeps its plan in memory; the homework  *)
(* flow writes the plan to files of an output directory and executes what  *)
(* it finds there, which a second sync into the same directory replaces.   *)
(***************************************************************************)
EXTENDS Naturals, FiniteSets

CONSTANTS
    Syncs,       \* processes running the sync command
    Cells,       \* the cells the local records are rendered into
    Values,      \* what a cell can hold
    Blank,       \* the empty cell, one of Values
    NoEntry,     \* a cell the ledger has no entry for
    MaxTrouble   \* bound: edits by hand, changes of the records and kills

ASSUME SyncAssumption ==
    /\ Blank \in Values /\ NoEntry \notin Values
    /\ IsFiniteSet(Values) /\ IsFiniteSet(Cells)
    /\ MaxTrouble \in Nat

VARIABLES
    flow,     \* which of the two commands works on this sheet
    cell,     \* the sheet
    target,   \* what the local records now render to
    ledger,   \* external_outbound_ledger: the value last recorded, by cell
    files,    \* the plan in the output directory
    proc,     \* the syncs
    typed,    \* history: cells last changed by hand, and not yet recorded
    setback,  \* history: a sync failed or overlapped, none has finished since
    trouble   \* history: how much of MaxTrouble has been used

vars == <<flow, cell, target, ledger, files, proc, typed, setback, trouble>>

Flows == {"journal", "homework"}

(* A plan: the cells to write and those already right, the values for them,*)
(* and (history) the cells it may rightly overwrite: the ledger knew what  *)
(* they held, or a person has changed them since the sheet was read.       *)
NoPlan == [write |-> {}, skip |-> {}, value |-> [c \in Cells |-> Blank], loose |-> {}]

Plans == [write : SUBSET Cells, skip : SUBSET Cells,
          value : [Cells -> Values], loose : SUBSET Cells]

(* What the local records render to: a class label or a journal entry is    *)
(* never empty, the homework due today is when none was given before.      *)
JournalTexts == Values \ {Blank}
HomeworkTexts == Values
Texts == IF flow = "journal" THEN JournalTexts ELSE HomeworkTexts

Idle == [pc |-> "idle", seen |-> [c \in Cells |-> Blank], plan |-> NoPlan,
         list |-> "none", todo |-> {}, alone |-> TRUE]

Stages == {"idle", "read", "ready", "blocked", "written", "record"}

Active(p) == proc[p].pc # "idle"

TypeOK ==
    /\ flow \in Flows
    /\ cell \in [Cells -> Values]
    /\ target \in [Cells -> Values]
    /\ ledger \in [Cells -> Values \cup {NoEntry}]
    /\ files \in Plans
    /\ proc \in [Syncs -> [pc : Stages, seen : [Cells -> Values], plan : Plans,
                           list : {"none", "write", "skip"},
                           todo : SUBSET Cells, alone : BOOLEAN]]
    /\ \A p \in Syncs : ~Active(p) => proc[p] = Idle
    /\ typed \subseteq Cells
    /\ setback \in BOOLEAN
    /\ trouble \in 0..MaxTrouble

Init ==
    /\ flow \in Flows
    /\ cell = [c \in Cells |-> Blank]
    /\ target \in [Cells -> Texts]
    /\ ledger = [c \in Cells |-> NoEntry]
    /\ files = NoPlan
    /\ proc = [p \in Syncs |-> Idle]
    /\ typed = {}
    /\ setback = FALSE
    /\ trouble = 0

-----------------------------------------------------------------------------
(* A bug to be caught: any cell the ledger has an entry for is overwritten. *)
DecideAnyEntry(c, current) ==
    IF current = target[c] THEN "skip_current_matches"
    ELSE IF current = Blank \/ ledger[c] # NoEntry THEN "write_changed"
    ELSE "review_conflict"

(* The decision for one cell: nothing to do when it is right, an empty     *)
(* cell or one the ledger knows may be written, anything else is a         *)
(* conflict for a person to review.                                        *)
Decide(c, current) ==
    IF current = target[c] THEN "skip_current_matches"
    ELSE IF current = Blank \/ ledger[c] = current THEN "write_changed"
    ELSE "review_conflict"

Others(p) == {q \in Syncs \ {p} : Active(q)}

(* The sheet is read; from here on what a person types goes unnoticed.     *)
Read(p) ==
    /\ ~Active(p)
    /\ proc' = [q \in Syncs |->
                  IF q = p THEN [Idle EXCEPT !.pc = "read", !.seen = cell,
                                             !.alone = Others(p) = {}]
                  ELSE IF Active(q) THEN [proc[q] EXCEPT !.alone = FALSE]
                  ELSE proc[q]]
    /\ setback' = (setback \/ Others(p) # {})
    /\ UNCHANGED <<flow, cell, target, ledger, files, typed, trouble>>

(* Cells are rendered from the local records and decided on.  A single     *)
(* conflict blocks the sync, but the plan files are written all the same.  *)
PlanOf(p) ==
    LET With(d) == {c \in Cells : Decide(c, proc[p].seen[c]) = d}
    IN  [write |-> With("write_changed"), skip |-> With("skip_current_matches"),
         value |-> target,
         loose |-> proc[p].plan.loose \cup {c \in Cells : ledger[c] = cell[c]}]

Conflicts(p) == {c \in Cells : Decide(c, proc[p].seen[c]) = "review_conflict"}

Plan(p) ==
    /\ proc[p].pc = "read"
    /\ proc' = [proc EXCEPT ![p] =
                  [Idle EXCEPT !.pc = IF Conflicts(p) # {} THEN "blocked" ELSE "ready",
                               !.plan = IF flow = "journal" THEN PlanOf(p) ELSE NoPlan,
                               !.alone = proc[p].alone]]
    /\ files' = IF flow = "homework" THEN PlanOf(p) ELSE files
    /\ UNCHANGED <<flow, cell, target, ledger, typed, setback, trouble>>

(* The command ends without writing: a record cannot be rendered, a cell   *)
(* needs review, or --execute was not given.                               *)
Stop(p) ==
    /\ proc[p].pc \in {"read", "blocked", "ready"}
    /\ proc' = [proc EXCEPT ![p] = Idle]
    /\ UNCHANGED <<flow, cell, target, ledger, files, typed, setback, trouble>>

(* What the sync goes on with: its own plan, or the one now in the files.  *)
Current(p) == IF flow = "homework" THEN files ELSE proc[p].plan

(* The sheet after one batch request: every cell of it takes its value.    *)
AfterBatch(plan) == [c \in Cells |-> IF c \in plan.write THEN plan.value[c] ELSE cell[c]]

(* With --execute the batch is written in one request.                     *)
Write(p) ==
    /\ proc[p].pc = "ready"
    /\ LET plan == Current(p)
       IN  /\ cell' = AfterBatch(plan)
           /\ typed' = {c \in typed : cell'[c] = cell[c]}
           /\ proc' = [proc EXCEPT ![p] = [@ EXCEPT !.pc = "written",
                                                    !.plan = [plan EXCEPT !.loose = {}]]]
    /\ UNCHANGED <<flow, target, ledger, files, setback, trouble>>

(* The sheet is read again.  One cell of the batch that does not hold what *)
(* was sent, and nothing at all is recorded.  The homework flow also fails *)
(* when it finds report rows in columns P to Z (bad).                      *)
Verified(p) == \A c \in proc[p].plan.write : cell[c] = proc[p].plan.value[c]

Verify(p) ==
    /\ proc[p].pc = "written"
    /\ \E bad \in BOOLEAN :
         /\ bad => flow = "homework" /\ trouble < MaxTrouble
         /\ trouble' = IF bad THEN trouble + 1 ELSE trouble
         /\ IF Verified(p) /\ ~bad
            THEN /\ proc' = [proc EXCEPT ![p].pc = "record"]
                 /\ UNCHANGED setback
            ELSE /\ proc' = [proc EXCEPT ![p] = Idle]
                 /\ setback' = TRUE
    /\ UNCHANGED <<flow, cell, target, ledger, files, typed>>

(* The journal records the cells it wrote and then those already right,    *)
(* the homework flow the other way round, from the files as they are then. *)
FirstList == IF flow = "homework" THEN "skip" ELSE "write"
SecondList == IF flow = "homework" THEN "write" ELSE "skip"

NextList(p) ==
    /\ proc[p].pc = "record" /\ proc[p].todo = {} /\ proc[p].list # SecondList
    /\ LET list == IF proc[p].list = "none" THEN FirstList ELSE SecondList
       IN  proc' = [proc EXCEPT ![p] =
                      [@ EXCEPT !.list = list, !.plan = [Current(p) EXCEPT !.loose = {}],
                                !.todo = IF list = "write" THEN Current(p).write
                                                           ELSE Current(p).skip]]
    /\ UNCHANGED <<flow, cell, target, ledger, files, typed, setback, trouble>>

(* A bug to be caught: an entry that exists is left as it is.              *)
RecordOnce(p) ==
    /\ proc[p].pc = "record"
    /\ \E c \in proc[p].todo :
         /\ ledger' = [ledger EXCEPT ![c] = IF @ = NoEntry THEN proc[p].plan.value[c] ELSE @]
         /\ typed' = IF cell[c] = proc[p].plan.value[c] THEN typed \ {c} ELSE typed
         /\ proc' = [proc EXCEPT ![p].todo = @ \ {c}]
    /\ UNCHANGED <<flow, cell, target, files, setback, trouble>>

(* record_outbound_result: one row is inserted or replaced, and committed. *)
Record(p) ==
    /\ proc[p].pc = "record"
    /\ \E c \in proc[p].todo :
         /\ ledger' = [ledger EXCEPT ![c] = proc[p].plan.value[c]]
         /\ typed' = IF cell[c] = proc[p].plan.value[c] THEN typed \ {c} ELSE typed
         /\ proc' = [proc EXCEPT ![p].todo = @ \ {c}]
    /\ UNCHANGED <<flow, cell, target, files, setback, trouble>>

(* A sync that was alone from its read to its end has put the ledger right.*)
Finish(p) ==
    /\ proc[p].pc = "record" /\ proc[p].todo = {} /\ proc[p].list = SecondList
    /\ proc' = [proc EXCEPT ![p] = Idle]
    /\ setback' = (setback /\ ~proc[p].alone)
    /\ UNCHANGED <<flow, cell, target, ledger, files, typed, trouble>>

-----------------------------------------------------------------------------
(* A person types into the sheet, or clears a cell.                        *)
Loosened(plan, c) == [plan EXCEPT !.loose = @ \cup {c}]
PlanInMemory(p) == proc[p].pc = "read" \/ (proc[p].pc = "ready" /\ flow = "journal")

Edit(c) ==
    /\ trouble < MaxTrouble
    /\ \E v \in Values \ {cell[c]} : cell' = [cell EXCEPT ![c] = v]
    /\ typed' = typed \cup {c}
    /\ files' = IF flow = "homework" THEN Loosened(files, c) ELSE files
    /\ proc' = [p \in Syncs |->
                  IF PlanInMemory(p) THEN [proc[p] EXCEPT !.plan = Loosened(@, c)]
                                     ELSE proc[p]]
    /\ trouble' = trouble + 1
    /\ UNCHANGED <<flow, target, ledger, setback>>

(* The local records change.                                               *)
Change(c) ==
    /\ trouble < MaxTrouble
    /\ \E v \in Texts \ {target[c]} : target' = [target EXCEPT ![c] = v]
    /\ trouble' = trouble + 1
    /\ UNCHANGED <<flow, cell, ledger, files, proc, typed, setback>>

(* The process dies, or a request to the sheet or the database fails.      *)
Kill(p) ==
    /\ Active(p) /\ trouble < MaxTrouble
    /\ setback' = (setback \/ proc[p].pc \in {"written", "record"})
    /\ proc' = [proc EXCEPT ![p] = Idle]
    /\ trouble' = trouble + 1
    /\ UNCHANGED <<flow, cell, target, ledger, files, typed>>

Next ==
    \/ \E p \in Syncs :
         \/ Read(p) \/ Plan(p) \/ Stop(p) \/ Write(p) \/ Verify(p)
         \/ NextList(p) \/ Record(p) \/ Finish(p) \/ Kill(p)
    \/ \E c \in Cells : Edit(c) \/ Change(c)

Spec == Init /\ [][Next]_vars

-----------------------------------------------------------------------------
(* What a person typed survives: the batch of a sync replaces a value that *)
(* was typed by hand only when the ledger knew that very value at the plan,*)
(* or it was typed after the sheet had been read (the window that nothing  *)
(* closes), even when the files executed are those of another sync.        *)
ManualSurvives ==
    [][\A p \in Syncs : Write(p) =>
         \A c \in Cells : c \in typed /\ cell[c] # Blank /\ cell'[c] # cell[c]
                            => c \in Current(p).loose]_vars

(* The review a blocked sync asks for is about what people typed: a cell   *)
(* the syncs themselves wrote is never reported as a conflict, unless one  *)
(* failed between its write and its last record, or two overlapped, and no *)
(* sync has run to its end undisturbed since.                              *)
OwnWritesRecognised ==
    [][\A p \in Syncs : Plan(p) /\ ~setback => Conflicts(p) \subseteq typed]_vars

=============================================================================
