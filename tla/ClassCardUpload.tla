-------------------------- MODULE ClassCardUpload ---------------------------
(***************************************************************************)
(* The words of a lesson on ClassCard (classcard.py, classcard_plan.py,    *)
(* classcard_browser.py, classcard_verification.py,                        *)
(* classcard_verify_command.py, classcard_direct_upload.py).  `upload`     *)
(* splits the words into parts, writes them with a manifest, a checkpoint  *)
(* and a row of classcard_upload_runs, and with --execute makes one set    *)
(* per part through the browser; `recover --execute` goes on from the      *)
(* checkpoint; `verify` compares the class page; `direct-upload` makes the *)
(* parts of the manifest that the page does not show.                      *)
(*                                                                         *)
(* One student, one lesson in the mode of several days, one command at a   *)
(* time.  Every command plans anew from the database, where words may have *)
(* been added; the page may fail at any point, a command be killed at any  *)
(* point, a checkpoint, which is written in place, half-way.               *)
(***************************************************************************)
EXTENDS Collections

CONSTANTS
  MaxWords,    \* bound on the words of the lesson
  Spans,       \* how many days --span-days may ask for
  DefaultSpan, \* the student's span, which recover and verify go by
  MaxSets      \* bound on sets made

VARIABLES
  words,      \* how many words the lesson has
  manifest,   \* the plan in the manifest
  checkpoint, \* its status and completed_indexes
  row,        \* the status of the latest run in the database
  sets,       \* the sets on the site
  cmd,        \* the command under way
  basis       \* history: the plan completed_indexes speaks of, or Mixed

vars == <<words, manifest, checkpoint, row, sets, cmd, basis>>

\* _split_evenly: part i of n words over k days, as a set of word numbers.
SplitEvenly(n, k) ==
  [i \in 0 .. k - 1 |->
     LET first == i * (n \div k) + Min({i, n % k})
         size == n \div k + (IF i < n % k THEN 1 ELSE 0)
     IN first + 1 .. first + size]

NothingPlanned == <<>>
Mixed == <<{}>>  \* parts of several plans
Parts(plan) == DOMAIN plan
NoCommand == [kind |-> "none"]

Init ==
  /\ words = 1
  /\ manifest = NothingPlanned /\ checkpoint = [status |-> "none", completed |-> {}]
  /\ row = "none" /\ sets = {} /\ cmd = NoCommand /\ basis = NothingPlanned

AddWord ==
  /\ words < MaxWords
  /\ words' = words + 1
  /\ UNCHANGED <<manifest, checkpoint, row, sets, cmd, basis>>

\* The checkpoint is rewritten; its indexes speak of plan from now on.
WriteCheckpoint(status, completed, plan) ==
  /\ checkpoint' = [status |-> status, completed |-> completed]
  /\ basis' = plan

Readable == checkpoint.status \notin {"none", "torn"}
GoTo(step) == cmd' = [cmd EXCEPT !.step = step]

\* prepare_upload: first the part files and the manifest ...
PrepareManifest(span, execute) ==
  LET plan == SplitEvenly(words, span) IN
  /\ cmd = NoCommand
  /\ manifest' = plan
  /\ cmd' = [kind |-> "upload", step |-> "prepare", plan |-> plan, of |-> plan,
             done |-> {}, execute |-> execute]
  /\ UNCHANGED <<words, checkpoint, row, sets, basis>>

\* ... then the checkpoint and the row.
PrepareCheckpoint ==
  /\ cmd.kind = "upload" /\ cmd.step = "prepare"
  /\ WriteCheckpoint("planned", {}, cmd.plan)
  /\ row' = IF cmd.execute THEN "uploading" ELSE "planned"
  /\ IF cmd.execute THEN GoTo("part") ELSE cmd' = NoCommand
  /\ UNCHANGED <<words, manifest, sets>>

\* resume_start_index: the first part that is not completed.
ResumeStartIndex(completed) == Min(0 .. Cardinality(completed) \ completed)

\* resume_execute_upload: the plan is made anew, by the student's own span.
Resume ==
  LET start == ResumeStartIndex(checkpoint.completed)
      plan == SplitEvenly(words, DefaultSpan) IN
  /\ cmd = NoCommand /\ Readable
  /\ row' = "uploading"
  /\ cmd' = [kind |-> "resume", step |-> "part", plan |-> plan,
             of |-> IF start = 0 \/ plan = basis THEN plan ELSE Mixed,
             done |-> IF start = 0 THEN {} ELSE 0 .. start - 1, execute |-> TRUE]
  /\ UNCHANGED <<words, manifest, checkpoint, sets, basis>>

\* upload_missing_parts goes by the manifest and starts over every time.
DirectUpload ==
  /\ cmd = NoCommand /\ Readable /\ manifest # NothingPlanned
  /\ cmd' = [kind |-> "direct", step |-> "part", plan |-> manifest, of |-> manifest,
             done |-> {}, execute |-> TRUE]
  /\ UNCHANGED <<words, manifest, checkpoint, row, sets, basis>>

-----------------------------------------------------------------------------
(* run_classcard_upload_sequence, and its counterpart of direct-upload.    *)

NextPart == Min(Parts(cmd.plan) \ cmd.done)

Shows(set, i, plan) ==
  set.inClass /\ set.title = i /\ Cardinality(set.words) = Cardinality(plan[i])

WritePart ==
  /\ cmd.kind # "none" /\ cmd.step = "part" /\ Parts(cmd.plan) \ cmd.done # {}
  /\ WriteCheckpoint("uploading", cmd.done, cmd.of)
  /\ GoTo(IF cmd.kind = "direct" THEN "find" ELSE "create")
  /\ UNCHANGED <<words, manifest, row, sets>>

\* _find_existing_set_id and _verify_set_cards: a set of that title and size
\* stands for the part if its cards do, and ends the command if they do not.
FindSet ==
  LET shown == {s \in sets : Shows(s, NextPart, cmd.plan)} IN
  /\ cmd.kind = "direct" /\ cmd.step = "find"
  /\ \/ shown = {} /\ GoTo("create")
     \/ \E s \in shown :
          cmd' = IF s.words = cmd.plan[NextPart]
                 THEN [cmd EXCEPT !.step = "part", !.done = cmd.done \cup {NextPart}]
                 ELSE NoCommand
  /\ UNCHANGED <<words, manifest, checkpoint, row, sets, basis>>

\* A bug to be caught: a part is recorded before its set is in the class.
CreateSetOnly(added) ==
  /\ cmd.kind # "none" /\ cmd.step = "create" /\ Cardinality(sets) < MaxSets
  /\ added => cmd.kind = "direct"
  /\ sets' = sets \cup {[nr |-> Cardinality(sets), title |-> NextPart,
                         words |-> cmd.plan[NextPart], inClass |-> added]}
  /\ GoTo("record")
  /\ UNCHANGED <<words, manifest, checkpoint, row, basis>>

\* create_set_from_tsv; the script of direct-upload adds it in the same go.
CreateSet(added) ==
  /\ cmd.kind # "none" /\ cmd.step = "create" /\ Cardinality(sets) < MaxSets
  /\ added => cmd.kind = "direct"
  /\ sets' = sets \cup {[nr |-> Cardinality(sets), title |-> NextPart,
                         words |-> cmd.plan[NextPart], inClass |-> added]}
  /\ IF added THEN GoTo("record") ELSE IF cmd.kind = "direct" THEN cmd' = NoCommand ELSE GoTo("add")
  /\ UNCHANGED <<words, manifest, checkpoint, row, basis>>

\* add_current_set_to_class
AddToClass ==
  /\ cmd.kind # "none" /\ cmd.step = "add"
  /\ sets' = {IF s.nr = Cardinality(sets) - 1 THEN [s EXCEPT !.inClass = TRUE] ELSE s : s \in sets}
  /\ GoTo("record")
  /\ UNCHANGED <<words, manifest, checkpoint, row, basis>>

RecordPart ==
  /\ cmd.kind # "none" /\ cmd.step = "record"
  /\ WriteCheckpoint("part_completed", cmd.done \cup {NextPart}, cmd.of)
  /\ cmd' = [cmd EXCEPT !.step = "part", !.done = cmd.done \cup {NextPart}]
  /\ UNCHANGED <<words, manifest, row, sets>>

Finish ==
  /\ cmd.kind # "none" /\ cmd.step = "part" /\ Parts(cmd.plan) \subseteq cmd.done
  /\ WriteCheckpoint("completed", cmd.done, cmd.of)
  /\ IF cmd.kind = "direct" THEN cmd' = NoCommand ELSE GoTo("completed")
  /\ UNCHANGED <<words, manifest, row, sets>>

\* A control is not found: mark_recovery_required.
FailPart ==
  /\ cmd.kind \in {"upload", "resume"} /\ cmd.step \in {"create", "add"}
  /\ WriteCheckpoint("recovery_required", checkpoint.completed, basis)
  /\ GoTo("recovery_required")
  /\ UNCHANGED <<words, manifest, row, sets>>

\* _update_run_status and _update_db_run
UpdateRow ==
  /\ cmd.kind # "none" /\ cmd.step \in {"completed", "recovery_required", "recovered"}
  /\ row' = cmd.step
  /\ cmd' = NoCommand
  /\ UNCHANGED <<words, manifest, checkpoint, sets, basis>>

-----------------------------------------------------------------------------
\* verify_checkpoint_with_playwright: a line of the right title and number of
\* cards is a part; the page may show fewer sets than the class has.
Verify(found) ==
  LET plan == SplitEvenly(words, DefaultSpan)
      status == IF found = Parts(plan) THEN "completed" ELSE "recovery_required" IN
  /\ cmd = NoCommand /\ Readable
  /\ \A i \in found : i \in Parts(plan) /\ \E s \in sets : Shows(s, i, plan)
  /\ WriteCheckpoint(status, found,
       IF \A i \in found : \E s \in sets : s.inClass /\ s.words = plan[i] THEN plan ELSE Mixed)
  /\ cmd' = [kind |-> "verify", step |-> status]
  /\ UNCHANGED <<words, manifest, row, sets>>

\* recover_upload: the row first, then the checkpoint; nothing is made.
Recover ==
  /\ cmd = NoCommand /\ Readable
  /\ row' = "recovered"
  /\ WriteCheckpoint("recovered", checkpoint.completed, basis)
  /\ UNCHANGED <<words, manifest, sets, cmd>>

\* Killed, or ended by an error nobody catches; a checkpoint it was writing is
\* left in pieces.
Kill(writing) ==
  /\ cmd # NoCommand
  /\ cmd' = NoCommand
  /\ IF writing /\ cmd.step \in {"prepare", "part", "record"}
     THEN WriteCheckpoint("torn", {}, NothingPlanned)
     ELSE UNCHANGED <<checkpoint, basis>>
  /\ UNCHANGED <<words, manifest, row, sets>>

Next ==
  \/ AddWord
  \/ \E span \in Spans, execute \in BOOLEAN : PrepareManifest(span, execute)
  \/ PrepareCheckpoint \/ Resume \/ DirectUpload \/ Recover
  \/ WritePart \/ FindSet \/ AddToClass \/ RecordPart \/ Finish \/ FailPart \/ UpdateRow
  \/ \E added \in BOOLEAN : CreateSet(added)
  \/ \E found \in SUBSET (0 .. DefaultSpan - 1) : Verify(found)
  \/ \E writing \in BOOLEAN : Kill(writing)

Spec == Init /\ [][Next]_vars

-----------------------------------------------------------------------------
(* A part is only ever called completed when a set with its very words is  *)
(* in the class, and an upload only when that holds of every part, however *)
(* often it failed, died, was resumed, verified or done directly; except   *)
(* when indexes of one plan were carried over to another, because words    *)
(* came in or the span was another one, or when verify took a set of other *)
(* words for a part by its size (run_classcard_upload_sequence,            *)
(* resume_execute_upload, record_verification_result).                     *)
CompletedIsInTheClass ==
  basis # Mixed =>
    /\ \A i \in checkpoint.completed : \E s \in sets : s.inClass /\ s.words = basis[i]
    /\ checkpoint.status = "completed" => checkpoint.completed = Parts(basis)
=============================================================================
