--------------------------- MODULE DesignPromotion ---------------------------
(***************************************************************************)
(* Side-panel designs: a design is generated as a draft block, verified,   *)
(* registered, promoted with the teacher's approval, which installs it as  *)
(* the viewer of its view, and deprecated, which puts the former viewer    *)
(* back (side_panel_blocks.py, side_panel_design_{generate,verify,         *)
(* promotion}.py).  Every verb is a process of its own: it reads the block *)
(* records when it starts and writes them back, all of them, when it ends. *)
(* An artifact and a viewer are written in place: they are "torn" until    *)
(* the write is complete, and stay so if the command is killed before.     *)
(***************************************************************************)
EXTENDS Naturals

CONSTANTS
  Blocks, Views,
  ViewOf,    \* the view a block's design is for
  Designs,   \* the contents an artifact or a viewer may have
  DesignOf,  \* what generation writes for a block, whose id is its hash
  Good,      \* the designs that pass lint and the browser checks
  Former,    \* the viewers the owner had before
  Procs,     \* the verbs that may run at once
  MaxTrouble \* bound: kills, edits of an artifact by hand, generations of a
             \* block already there and overlaps of commands, together

ASSUME DesignAssumption ==
  /\ ViewOf \in [Blocks -> Views] /\ DesignOf \in [Blocks -> Designs] /\ Good \subseteq Designs
  /\ Former \subseteq Designs
  /\ MaxTrouble \in Nat
  /\ "none" \notin Blocks \cup Designs /\ "torn" \notin Designs

VARIABLES
  records,    \* block-lifecycle.json
  approvals,  \* the approval of each block's promotion
  artifact,   \* the artifact in each block's draft directory
  evidence,   \* verifications that passed: the hash and the view they name
  verifier,   \* the verification under way: its block and what it has read
  viewer,     \* per view, the installed file
  installed,  \* side-panel-design-viewers.json: who installed it, the backup
  pc, verb, target, snapshot, backup, \* per process
  kills, edits, again,  \* how often each happened
  slipped,  \* history: what an artifact was changed to, and for which view,
            \* while it was verified or installed
  cut,      \* history: the views on which a copy was killed
  overlap,  \* history: two commands on the records overlapped
  before,   \* history: per block, the viewer its promotion found
  activated \* history: the blocks that have been active

process == <<pc, verb, target, snapshot, backup>>
history == <<slipped, cut, overlap, before, activated>>
vars == <<records, approvals, artifact, evidence, verifier, viewer, installed,
          process, kills, edits, again, history>>

States == {"draft", "registered", "active", "deprecated"}
Allowed == [none |-> {}, draft |-> {"registered", "deprecated"},
            registered |-> {"active", "deprecated"}, active |-> {"deprecated"}, deprecated |-> {}]
Contents == Designs \cup {"none", "torn"}
Nobody == [block |-> "none", read |-> "none", passed |-> FALSE]
Busy(p) == pc[p] # "idle"
Trouble == kills + edits + again + (IF overlap THEN 1 ELSE 0) < MaxTrouble

Overlaps ==
  /\ ~overlap  \* bound: nothing begins after an overlap
  /\ \A p \in Procs : Busy(p) => Trouble
  /\ overlap' = \E p \in Procs : Busy(p)

Init ==
  /\ records = [b \in Blocks |-> "none"] /\ approvals = [b \in Blocks |-> "none"]
  /\ artifact = [b \in Blocks |-> "none"]
  /\ evidence = {} /\ verifier = Nobody
  /\ viewer \in [Views -> {"none"} \cup Former]
  /\ installed = [v \in Views |-> [block |-> "none", backup |-> "none"]]
  /\ pc = [p \in Procs |-> "idle"] /\ verb = [p \in Procs |-> "none"]
  /\ target = [p \in Procs |-> "none"] /\ snapshot = [p \in Procs |-> records]
  /\ backup = [p \in Procs |-> "none"]
  /\ kills = 0 /\ edits = 0 /\ again = 0
  /\ slipped = {} /\ cut = {} /\ overlap = FALSE /\ before = [b \in Blocks |-> "none"] /\ activated = {}

-----------------------------------------------------------------------------
\* The verbs on one block's artifact that a change of it would disturb.
Disturbs(b) ==
  \/ verifier.block = b
  \/ \E p \in Procs : target[p] = b /\ verb[p] = "active" /\ pc[p] \in {"backup", "copy", "fill"}

PutArtifact(b, content) ==
  /\ artifact' = [artifact EXCEPT ![b] = content]
  /\ slipped' = slipped \cup (IF Disturbs(b) /\ artifact[b] # content
                              THEN {<<content, ViewOf[b]>>} ELSE {})

Goto(p, step) == pc' = [pc EXCEPT ![p] = step]

End(p) ==
  /\ Goto(p, "idle") /\ verb' = [verb EXCEPT ![p] = "none"]
  /\ target' = [target EXCEPT ![p] = "none"] /\ backup' = [backup EXCEPT ![p] = "none"]
  /\ snapshot' = [snapshot EXCEPT ![p] = [b \in Blocks |-> "none"]]

\* generate: the draft's record overwrites whatever is there under its id,
\* then the artifact is written.
Generate(p, b) ==
  /\ ~Busy(p) /\ (records[b] = "none" \/ Trouble)
  /\ again' = IF records[b] = "none" THEN again ELSE again + 1
  /\ records' = [records EXCEPT ![b] = "draft"]
  /\ Goto(p, "generate")
  /\ verb' = [verb EXCEPT ![p] = "draft"] /\ target' = [target EXCEPT ![p] = b]
  /\ Overlaps
  /\ UNCHANGED <<approvals, artifact, evidence, verifier, viewer, installed, snapshot, backup,
                 kills, edits, slipped, cut, before, activated>>

OpenArtifact(p) ==
  /\ pc[p] = "generate"
  /\ PutArtifact(target[p], "torn")
  /\ Goto(p, "artifact")
  /\ UNCHANGED <<records, approvals, evidence, verifier, viewer, installed, verb, target, snapshot,
                 backup, kills, edits, again, cut, overlap, before, activated>>

WriteArtifact(p) ==
  /\ pc[p] = "artifact"
  /\ PutArtifact(target[p], DesignOf[target[p]])
  /\ End(p)
  /\ UNCHANGED <<records, approvals, evidence, verifier, viewer, installed, kills, edits, again,
                 cut, overlap, before, activated>>

Edit(b, design) ==
  /\ artifact[b] \notin {"none", design} /\ Trouble
  /\ PutArtifact(b, design)
  /\ edits' = edits + 1
  /\ UNCHANGED <<records, approvals, evidence, verifier, viewer, installed,
                 process, kills, again, cut, overlap, before, activated>>

\* verify reads the file for the browser, lint reads it again, and the
\* evidence names the hash of what is there in the end.
VerifyReads(b) ==
  /\ verifier = Nobody /\ artifact[b] # "none" /\ ~overlap
  /\ verifier' = [block |-> b, read |-> artifact[b], passed |-> FALSE]
  /\ UNCHANGED <<records, approvals, artifact, evidence, viewer, installed,
                 process, kills, edits, again, history>>

VerifyChecks ==
  /\ verifier # Nobody /\ ~verifier.passed
  /\ verifier' = IF {artifact[verifier.block], verifier.read} \subseteq Good
                 THEN [verifier EXCEPT !.passed = TRUE] ELSE Nobody
  /\ UNCHANGED <<records, approvals, artifact, evidence, viewer, installed,
                 process, kills, edits, again, history>>

VerifyRecords ==
  /\ verifier.passed
  /\ evidence' = evidence \cup {<<artifact[verifier.block], ViewOf[verifier.block]>>}
  /\ verifier' = Nobody
  /\ UNCHANGED <<records, approvals, artifact, viewer, installed, process,
                 kills, edits, again, history>>

\* The teacher approves a planned request; denies any.
Answer(b, answer) ==
  /\ approvals[b] = "planned" \/ (answer = "denied" /\ approvals[b] \in {"approved", "consumed"})
  /\ approvals' = [approvals EXCEPT ![b] = answer]
  /\ UNCHANGED <<records, artifact, evidence, verifier, viewer, installed,
                 process, kills, edits, again, history>>

-----------------------------------------------------------------------------
\* set_block_state: the records are read and the transition is checked.
Start(p, to, b) ==
  /\ ~Busy(p) /\ to \in Allowed[records[b]]
  /\ Goto(p, CASE to = "registered" -> "write" [] to = "active" -> "gate" [] OTHER -> "restore")
  /\ verb' = [verb EXCEPT ![p] = to] /\ target' = [target EXCEPT ![p] = b]
  /\ snapshot' = [snapshot EXCEPT ![p] = records]
  /\ Overlaps
  /\ UNCHANGED <<records, approvals, artifact, evidence, verifier, viewer,
                 installed, backup, kills, edits, again, slipped, cut, before, activated>>

\* A bug to be caught: the evidence need not be for the artifact as it is.
GateAnyEvidence(p, remembered) ==
  LET b == target[p] IN
  /\ pc[p] = "gate"
  /\ IF artifact[b] = "none" \/ evidence = {}
     THEN End(p) /\ UNCHANGED approvals
     ELSE /\ approvals' = [approvals EXCEPT ![b] = IF @ = "none" THEN "planned" ELSE @]
          /\ IF approvals[b] = "approved" /\ remembered
             THEN Goto(p, "backup") /\ UNCHANGED <<verb, target, snapshot, backup>>
             ELSE End(p)
  /\ UNCHANGED <<records, artifact, evidence, verifier, viewer, installed,
                 kills, edits, again, history>>

\* _promote_gate up to the installation: evidence for the artifact's hash, a
\* request for approval if there is none, the approval, the memory record
\* panel:<id>, which may be there or not.
Gate(p, remembered) ==
  LET b == target[p] IN
  /\ pc[p] = "gate"
  /\ IF artifact[b] = "none" \/ <<artifact[b], ViewOf[b]>> \notin evidence
     THEN End(p) /\ UNCHANGED approvals
     ELSE /\ approvals' = [approvals EXCEPT ![b] = IF @ = "none" THEN "planned" ELSE @]
          /\ IF approvals[b] = "approved" /\ remembered
             THEN Goto(p, "backup") /\ UNCHANGED <<verb, target, snapshot, backup>>
             ELSE End(p)
  /\ UNCHANGED <<records, artifact, evidence, verifier, viewer, installed,
                 kills, edits, again, history>>

\* install_design_viewer: back up, copy, record.
Backup(p) ==
  LET view == ViewOf[target[p]] IN
  /\ pc[p] = "backup"
  /\ backup' = [backup EXCEPT ![p] = viewer[view]]
  /\ before' = [before EXCEPT ![target[p]] = viewer[view]]
  /\ Goto(p, "copy")
  /\ UNCHANGED <<records, approvals, artifact, evidence, verifier, viewer,
                 installed, verb, target, snapshot, kills, edits, again, slipped, cut, overlap, activated>>

\* copyfile opens the viewer, which empties it.
CopyArtifact(p) ==
  /\ pc[p] = "copy"
  /\ viewer' = [viewer EXCEPT ![ViewOf[target[p]]] = "torn"]
  /\ Goto(p, "fill")
  /\ UNCHANGED <<records, approvals, artifact, evidence, verifier, installed,
                 verb, target, snapshot, backup, kills, edits, again, history>>

\* The rest of copyfile, from the artifact or the backup; two copies at once
\* may leave a mix of both.
Fill(p) ==
  LET source == IF verb[p] = "active" THEN artifact[target[p]] ELSE backup[p] IN
  /\ pc[p] = "fill"
  /\ \E content \in {source} \cup (IF overlap THEN {"torn"} ELSE {}) :
       viewer' = [viewer EXCEPT ![ViewOf[target[p]]] = content]
  /\ Goto(p, IF verb[p] = "active" THEN "record" ELSE "write")
  /\ UNCHANGED <<records, approvals, artifact, evidence, verifier, installed,
                 verb, target, snapshot, backup, kills, edits, again, history>>

\* A bug to be caught: the record keeps the first backup of the view.
RecordFirst(p) ==
  /\ pc[p] = "record"
  /\ installed' = [installed EXCEPT ![ViewOf[target[p]]] =
       [block |-> target[p], backup |-> IF @.backup = "none" THEN backup[p] ELSE @.backup]]
  /\ Goto(p, "consume")
  /\ UNCHANGED <<records, approvals, artifact, evidence, verifier, viewer,
                 verb, target, snapshot, backup, kills, edits, again, history>>

RecordInstall(p) ==
  /\ pc[p] = "record"
  /\ installed' = [installed EXCEPT ![ViewOf[target[p]]] = [block |-> target[p], backup |-> backup[p]]]
  /\ Goto(p, "consume")
  /\ UNCHANGED <<records, approvals, artifact, evidence, verifier, viewer,
                 verb, target, snapshot, backup, kills, edits, again, history>>

\* A bug to be caught: the approval is not consumed.
ConsumeNot(p) ==
  /\ pc[p] = "consume"
  /\ Goto(p, "write")
  /\ UNCHANGED <<records, approvals, artifact, evidence, verifier, viewer,
                 installed, verb, target, snapshot, backup, kills, edits, again, history>>

Consume(p) ==
  /\ pc[p] = "consume"
  /\ approvals' = [approvals EXCEPT ![target[p]] = "consumed"]
  /\ Goto(p, "write")
  /\ UNCHANGED <<records, artifact, evidence, verifier, viewer, installed,
                 verb, target, snapshot, backup, kills, edits, again, history>>

\* restore_design_viewer: only the last block installed on a view finds its
\* backup, if there was a file to back up, and opens the viewer to copy it.
Restore(p) ==
  LET view == ViewOf[target[p]] IN
  /\ pc[p] = "restore"
  /\ IF installed[view].block = target[p] /\ installed[view].backup # "none"
     THEN /\ backup' = [backup EXCEPT ![p] = installed[view].backup]
          /\ viewer' = [viewer EXCEPT ![view] = "torn"]
          /\ Goto(p, "fill")
     ELSE Goto(p, "write") /\ UNCHANGED <<backup, viewer>>
  /\ UNCHANGED <<records, approvals, artifact, evidence, verifier, installed,
                 verb, target, snapshot, kills, edits, again, history>>

\* The records read at the start are written back with the new state.
Write(p) ==
  /\ pc[p] = "write"
  /\ records' = [snapshot[p] EXCEPT ![target[p]] = verb[p]]
  /\ before' = [before EXCEPT ![target[p]] = IF verb[p] = "deprecated" THEN "none" ELSE @]
  /\ activated' = activated \cup {b \in Blocks : records'[b] = "active"}
  /\ End(p)
  /\ UNCHANGED <<approvals, artifact, evidence, verifier, viewer, installed,
                 kills, edits, again, slipped, cut, overlap>>

Kill(p) ==
  /\ Busy(p) /\ Trouble
  /\ kills' = kills + 1
  /\ cut' = cut \cup (IF pc[p] = "fill" THEN {ViewOf[target[p]]} ELSE {})
  /\ End(p)
  /\ UNCHANGED <<records, approvals, artifact, evidence, verifier, viewer,
                 installed, edits, again, slipped, overlap, before, activated>>

Next ==
  \/ \E b \in Blocks :
       \/ VerifyReads(b)
       \/ \E p \in Procs : Generate(p, b)
       \/ \E design \in Designs \ (Good \cup Former) : Edit(b, design)
       \/ \E answer \in {"approved", "denied"} : Answer(b, answer)
       \/ \E p \in Procs, to \in States : Start(p, to, b)
  \/ VerifyChecks \/ VerifyRecords
  \/ \E p \in Procs : \/ \E remembered \in BOOLEAN : Gate(p, remembered)
                      \/ OpenArtifact(p) \/ WriteArtifact(p)
                      \/ Backup(p) \/ CopyArtifact(p) \/ Fill(p) \/ RecordInstall(p) \/ Consume(p)
                      \/ Restore(p) \/ Write(p) \/ Kill(p)

Spec == Init /\ [][Next]_vars

-----------------------------------------------------------------------------
(* The records, the files and the commands under way; a backup is held by  *)
(* a promotion or a deprecation only.                                      *)
TypeOK ==
  /\ records \in [Blocks -> States \cup {"none"}]
  /\ approvals \in [Blocks -> {"none", "planned", "approved", "denied", "consumed"}]
  /\ activated \subseteq Blocks
  /\ artifact \in [Blocks -> Contents] /\ evidence \subseteq Contents \X Views
  /\ verifier \in [block : Blocks \cup {"none"}, read : Contents, passed : BOOLEAN]
  /\ viewer \in [Views -> Contents]
  /\ installed \in [Views -> [block : Blocks \cup {"none"}, backup : Contents]]
  /\ pc \in [Procs -> {"idle", "generate", "artifact", "gate", "backup", "copy", "fill", "record",
                       "consume", "restore", "write"}]
  /\ verb \in [Procs -> States \cup {"none"}] /\ target \in [Procs -> Blocks \cup {"none"}]
  /\ backup \in [Procs -> Contents]
  /\ \A p \in Procs : backup[p] # "none" => verb[p] \in {"active", "deprecated"}
  /\ before \in [Blocks -> Contents]
  /\ kills + edits + again \in 0..MaxTrouble
  /\ slipped \subseteq Contents \X Views /\ cut \subseteq Views /\ overlap \in BOOLEAN

\* A viewer is incomplete while a command copies onto it, after one was
\* killed at that, or when commands overlapped.
MayBeTorn(v) ==
  \/ \E p \in Procs : pc[p] = "fill" /\ ViewOf[target[p]] = v
  \/ v \in cut \/ overlap

(* A view shows its former viewer or a design that passed verification,    *)
(* also after any restore; other than these only the very content that was *)
(* put into an artifact while it was verified or installed, or a file torn *)
(* by a copy under way or killed (validate_design_evidence, copyfile).     *)
OnlyVerifiedIsInstalled ==
  \A v \in Views :
    \/ viewer[v] \in {"none"} \cup Former
    \/ viewer[v] \in Good /\ <<viewer[v], v>> \in evidence
    \/ <<viewer[v], v>> \in slipped
    \/ viewer[v] = "torn" /\ MayBeTorn(v)

\* A consumed approval has activated its block, or is about to, unless the
\* command was killed, commands overlapped or the block was generated anew.
ConsumedMeansActive ==
  \A b \in Blocks : approvals[b] = "consumed" =>
    \/ records[b] \in {"active", "deprecated"}
    \/ \E p \in Procs : target[p] = b /\ verb[p] = "active" /\ pc[p] = "write"
    \/ kills > 0 \/ overlap \/ again > 0

(* One approval activates a block, and once: it is not spent on a          *)
(* promotion that fails, and the block does not become active again after  *)
(* it was deprecated and generated anew, unless commands overlapped        *)
(* (consume_approval, set_block_state).                                    *)
ActivatedOnce ==
  /\ []ConsumedMeansActive
  /\ [][\A b \in activated : records'[b] = "active" => records[b] = "active" \/ overlap]_vars

(* Deprecating the design a view shows brings back what its promotion      *)
(* found there, if there was a viewer and no command was killed and none   *)
(* overlapped (restore_design_viewer).                                     *)
DeprecateRestores ==
  [][\A p \in Procs :
       LET b == target[p] IN
       /\ pc[p] = "write" /\ pc'[p] = "idle" /\ records' # records
       /\ verb[p] = "deprecated" /\ snapshot[p][b] = "active"
       /\ installed[ViewOf[b]].block = b /\ before[b] # "none" /\ kills = 0 /\ ~overlap
       => viewer[ViewOf[b]] = before[b]]_vars
=============================================================================
