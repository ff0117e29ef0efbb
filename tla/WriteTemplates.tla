--------------------------- MODULE WriteTemplates ---------------------------
(***************************************************************************)
(* Write-action templates (write_actions.py) and how a run substitutes the *)
(* ids it captures (write_engine.py).  A template is a list of steps, each *)
(* a statement or two; a step that names an array of the payload is made   *)
(* once per element.  Compiling yields the statements with their binds, in *)
(* which a reference still reads "@name"; a second pass over the same      *)
(* steps, the metadata, tells the engine by position which binds those     *)
(* are.  Nothing ties the two lists together but that both expand alike.   *)
(*                                                                         *)
(* A bind is a value, an element of the one array, or a reference to the   *)
(* one captured id.  The transaction, the registration and what a missed   *)
(* lookup does are WriteAction's.                                          *)
(***************************************************************************)
EXTENDS Collections

CONSTANTS
  Steps,     \* the steps a template may be made of
  MaxSteps,  \* bound on the steps of a template
  Lengths,   \* lengths of the array
  Shipped    \* the template of the repository

VARIABLES
  custom,    \* the profile's templates of the same id, one or none
  run        \* the last plan or apply

vars == <<custom, run>>

\* The array of a payload, or the default of a template.
Absent == [kind |-> "absent", length |-> 0]
Arrays == [kind : {"list"}, length : Lengths]
Payloads == Arrays \cup {Absent, [kind |-> "other", length |-> 0]}

\* _steps and _param_schema: what a template file can say.
Templates ==
  [steps : UNION {[1..n -> Steps] : n \in 1..MaxSteps},
   rule : {"none"}, default : {Absent}]
  \cup [steps : UNION {[1..n -> Steps] : n \in 1..MaxSteps},
        rule : {"list", "required"}, default : Arrays \cup {Absent}]

-----------------------------------------------------------------------------
(* validate_template                                                       *)

\* The ids captured before step i.
Produced(steps, i) == \E j \in 1..(i - 1) : steps[j].captures

KeyErrors(step) ==
  step.key # "none" /\ (step.op # "ensure" \/ step.key = "unindexed")

StepErrors(steps, i) ==
  LET step == steps[i] IN
  \/ ~step.listed
  \/ KeyErrors(step)
  \/ "ref" \in ToSet(step.set \o step.match) /\ ~Produced(steps, i)
  \/ step.captures /\ step.op = "update_stub"

Valid(template) == \A i \in DOMAIN template.steps : ~StepErrors(template.steps, i)

\* load_write_actions: the profile's template replaces the repository's.
Loaded == IF custom = {} THEN Shipped ELSE CHOOSE t \in custom : TRUE

-----------------------------------------------------------------------------
(* compile_plan                                                            *)

WithDefaults(template, payload) ==
  IF payload.kind = "absent" THEN template.default ELSE payload

MatchesType(payload) == payload.kind = "list"

ParamErrors(template, payload) ==
  LET effective == WithDefaults(template, payload) IN
  IF effective = Absent THEN template.rule = "required"
  ELSE template.rule # "none" /\ ~MatchesType(effective)

FansOut(step) == "each" \in ToSet(step.set \o step.match)

Statement(op, binds, captures) == [op |-> op, binds |-> binds, captures |-> captures]

\* _compile_step, for one element.
StatementsOf(step) ==
  CASE step.op = "resolve" -> <<Statement("select", step.match, step.captures)>>
    [] step.op = "insert"  -> <<Statement("insert", step.set, step.captures)>>
    [] step.op = "ensure"  -> <<Statement("ignore", step.set, FALSE),
                                Statement("select", step.match, step.captures)>>
    [] step.op = "update_stub" ->
         <<Statement("update", step.set \o step.match, step.captures)>>

Repeat(statements, count) == FlattenSeq([i \in 1..count |-> statements])

\* The array a step fans out over must be a list.
Compilable(template, payload) ==
  \A i \in DOMAIN template.steps :
    FansOut(template.steps[i]) => MatchesType(WithDefaults(template, payload))

Compiled(template, payload) ==
  LET Count(step) == IF FansOut(step) THEN WithDefaults(template, payload).length ELSE 1 IN
  FlattenSeq([i \in DOMAIN template.steps |->
    Repeat(StatementsOf(template.steps[i]), Count(template.steps[i]))])

\* _fanout_count of the engine and of the preview: a payload without the
\* array counts as one element, whatever the default.
FanoutCount(step, payload) ==
  IF FansOut(step) /\ payload.kind = "list" THEN payload.length ELSE 1

\* _binding_capture_refs
CaptureRefs(statement, produced) ==
  [j \in DOMAIN statement.binds |-> produced /\ statement.binds[j] = "ref"]

\* A bug to be caught: a step is taken for one statement.
MetadataOfSteps(steps, payload) ==
  FlattenSeq([i \in DOMAIN steps |->
    Repeat(<<CaptureRefs(StatementsOf(steps[i])[1], Produced(steps, i))>>,
           FanoutCount(steps[i], payload))])

\* _compiled_step_metadata
Metadata(steps, payload) ==
  FlattenSeq([i \in DOMAIN steps |->
    Repeat([k \in DOMAIN StatementsOf(steps[i]) |->
              CaptureRefs(StatementsOf(steps[i])[k], Produced(steps, i))],
           FanoutCount(steps[i], payload))])

-----------------------------------------------------------------------------
(* run_write_action and plan                                               *)

\* _substituted_binds: what the statement is executed with.
Substituted(binds, refs) ==
  [j \in DOMAIN binds |-> IF j \in DOMAIN refs /\ refs[j] THEN "id" ELSE binds[j]]

\* The binds of all statements; a reference to an id nobody captured, as the
\* array was empty, fails the run.
Executed(statements, metadata) ==
  LET Refs(k) == IF k \in DOMAIN metadata THEN metadata[k] ELSE <<>>
      Unfilled(k) ==
        /\ \E j \in DOMAIN statements[k].binds \cap DOMAIN Refs(k) : Refs(k)[j]
        /\ \A l \in 1..(k - 1) : ~statements[l].captures IN
  IF \E k \in DOMAIN statements : Unfilled(k) THEN [status |-> "failed", bound |-> <<>>]
  ELSE [status |-> "done",
        bound |-> [k \in DOMAIN statements |-> Substituted(statements[k].binds, Refs(k))]]

\* _compiled_step_items: the steps expanded by the payload, unless their
\* number tells that they are not the statements.
PreviewItems(template, payload) ==
  LET plan == Compiled(template, payload)
      items == FlattenSeq([i \in DOMAIN template.steps |->
        Repeat([k \in DOMAIN StatementsOf(template.steps[i]) |->
                  template.steps[i].op \in {"insert", "update_stub"}
                    \/ (template.steps[i].op = "ensure" /\ k = 1)],
               FanoutCount(template.steps[i], payload))]) IN
  IF Len(items) = Len(plan) THEN items ELSE [k \in DOMAIN plan |-> plan[k].op # "select"]

NoRun == [kind |-> "none"]

Init == custom = {} /\ run = NoRun

\* A file is put into the profile's templates, or taken away.
SaveTemplate(template) ==
  /\ custom = {} /\ run = NoRun
  /\ custom' = {template}
  /\ UNCHANGED run

RemoveTemplate == custom' = {} /\ run' = NoRun

Accepted(payload) ==
  /\ Valid(Loaded) /\ ~ParamErrors(Loaded, payload)
  /\ Compilable(Loaded, payload)

Apply(payload) ==
  LET statements == Compiled(Loaded, payload) IN
  /\ Accepted(payload)
  /\ run' = [kind |-> "apply", payload |-> payload, statements |-> statements,
             result |-> Executed(statements, Metadata(Loaded.steps, payload))]
  /\ UNCHANGED custom

Preview(payload) ==
  /\ Accepted(payload)
  /\ run' = [kind |-> "plan", payload |-> payload, statements |-> Compiled(Loaded, payload),
             items |-> PreviewItems(Loaded, payload)]
  /\ UNCHANGED custom

Next ==
  \/ RemoveTemplate
  \/ \E template \in Templates : SaveTemplate(template)
  \/ \E payload \in Payloads : Apply(payload) \/ Preview(payload)

Spec == Init /\ [][Next]_vars

-----------------------------------------------------------------------------
(* An accepted run executes every reference as the captured id and every   *)
(* other bind as it is, for any template and payload, unless the array was *)
(* left to a default of another length than one; and a preview tells of    *)
(* every statement whether it writes, then too (compile_plan,              *)
(* _compiled_step_metadata, _substituted_binds, _compiled_step_items).     *)
EveryReferenceIsReplaced ==
  LET byDefault == /\ run.payload.kind = "absent" /\ Loaded.default.length # 1
                   /\ Loaded.default # Absent IN
  /\ run.kind = "apply" /\ run.result.status = "done" /\ ~byDefault =>
       \A k \in DOMAIN run.statements : \A j \in DOMAIN run.statements[k].binds :
         run.result.bound[k][j] =
           IF run.statements[k].binds[j] = "ref" THEN "id" ELSE run.statements[k].binds[j]
  /\ run.kind = "plan" =>
       run.items = [k \in DOMAIN run.statements |-> run.statements[k].op # "select"]
=============================================================================
