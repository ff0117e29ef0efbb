------------------------ MODULE DesignPromotionProofs ------------------------
(***************************************************************************)
(* The three promises of the design verbs, for every set of blocks, views  *)
(* and commands: an approval activates a block once, what a view shows was *)
(* verified, and deprecating brings back the former viewer.  They rest on  *)
(* one inductive invariant in five parts, Shape, Alone, Evident, Verified  *)
(* and Restorable, each with a lemma that says that every step keeps it.   *)
(***************************************************************************)
EXTENDS DesignPromotion, TLAPS

-----------------------------------------------------------------------------
\* The sets the variables range over.
Steps == {"idle", "generate", "artifact", "gate", "backup", "copy", "fill", "record", "consume",
          "restore", "write"}

Types ==
  /\ records \in [Blocks -> States \cup {"none"}]
  /\ approvals \in [Blocks -> {"none", "planned", "approved", "denied", "consumed"}]
  /\ artifact \in [Blocks -> Contents]
  /\ verifier \in [block : Blocks \cup {"none"}, read : Contents, passed : BOOLEAN]
  /\ viewer \in [Views -> Contents]
  /\ installed \in [Views -> [block : Blocks \cup {"none"}, backup : Contents]]
  /\ pc \in [Procs -> Steps]
  /\ verb \in [Procs -> States \cup {"none"}]
  /\ target \in [Procs -> Blocks \cup {"none"}]
  /\ snapshot \in [Procs -> [Blocks -> States \cup {"none"}]]
  /\ backup \in [Procs -> Contents]
  /\ before \in [Blocks -> Contents]
  /\ activated \subseteq Blocks
  /\ kills \in Nat /\ edits \in Nat /\ again \in Nat
  /\ overlap \in BOOLEAN

\* A command under way has a block, and its step says which verb it runs.
UnderWay(p) ==
  /\ Busy(p) => target[p] \in Blocks
  /\ pc[p] \in {"generate", "artifact"} => verb[p] = "draft"
  /\ pc[p] \in {"gate", "backup", "copy", "record", "consume"} => verb[p] = "active"
  /\ pc[p] = "fill" => verb[p] \in {"active", "deprecated"}
  /\ pc[p] = "restore" => verb[p] = "deprecated"
  /\ pc[p] = "write" => verb[p] \in {"registered", "active", "deprecated"}

Shape ==
  /\ Types
  /\ \A p \in Procs : UnderWay(p)
  /\ verifier # Nobody => verifier.block \in Blocks

LEMMA ShapeInit == Init => Shape
<1> SUFFICES ASSUME Init PROVE Shape OBVIOUS
<1>1. viewer \in [Views -> Contents]
  BY DesignAssumption DEF Init, Contents
<1>2. installed \in [Views -> [block : Blocks \cup {"none"}, backup : Contents]]
  BY DEF Init, Contents
<1>3. verifier \in [block : Blocks \cup {"none"}, read : Contents, passed : BOOLEAN]
  BY DEF Init, Nobody, Contents
<1>4. snapshot \in [Procs -> [Blocks -> States \cup {"none"}]]
  BY DEF Init
<1>5. Types
  BY <1>1, <1>2, <1>3, <1>4 DEF Init, Types, States, Steps, Contents
<1> QED BY <1>5 DEF Init, Shape, UnderWay, Busy

\* A command that ends, and one that goes on to the step named.
LEMMA EndShape ==
  ASSUME Shape, NEW p \in Procs, End(p)
  PROVE  /\ pc' \in [Procs -> Steps]
         /\ verb' \in [Procs -> States \cup {"none"}]
         /\ target' \in [Procs -> Blocks \cup {"none"}]
         /\ snapshot' \in [Procs -> [Blocks -> States \cup {"none"}]]
         /\ backup' \in [Procs -> Contents]
         /\ \A q \in Procs : UnderWay(q)'
BY DEF Shape, Types, End, Goto, UnderWay, Busy, Steps, Contents

LEMMA PutShape ==
  ASSUME Shape, NEW b \in Blocks, NEW content \in Contents, PutArtifact(b, content)
  PROVE  artifact' \in [Blocks -> Contents]
BY DEF Shape, Types, PutArtifact

LEMMA ShapeStep == Shape /\ [Next]_vars => Shape'
<1> SUFFICES ASSUME Shape, [Next]_vars PROVE Shape' OBVIOUS
<1> USE DesignAssumption
<1>1. ASSUME NEW p \in Procs, NEW b \in Blocks, Generate(p, b) PROVE Shape'
  <2>1. overlap' \in BOOLEAN
    BY <1>1 DEF Generate, Overlaps
  <2>2. again' \in Nat /\ records' \in [Blocks -> States \cup {"none"}]
    BY <1>1 DEF Generate, Shape, Types, States
  <2>3. pc' \in [Procs -> Steps]
    BY <1>1 DEF Generate, Goto, Shape, Types, Steps
  <2>4. \A q \in Procs : UnderWay(q)'
    BY <1>1 DEF Generate, Goto, Shape, Types, UnderWay, Busy
  <2>5. verb' \in [Procs -> States \cup {"none"}] /\ target' \in [Procs -> Blocks \cup {"none"}]
    BY <1>1 DEF Generate, Shape, Types, States
  <2> QED BY <1>1, <2>1, <2>2, <2>3, <2>4, <2>5 DEF Generate, Shape, Types
<1>2. ASSUME NEW b \in Blocks, VerifyReads(b) PROVE Shape'
  BY <1>2 DEF VerifyReads, Shape, Types, process, history, UnderWay, Busy
<1>3. ASSUME NEW b \in Blocks, NEW design \in Designs, Edit(b, design) PROVE Shape'
  BY <1>3, PutShape DEF Edit, Shape, Types, process, UnderWay, Busy, Contents
<1>17. ASSUME NEW p \in Procs, OpenArtifact(p) PROVE Shape'
  <2>1. target[p] \in Blocks /\ artifact' \in [Blocks -> Contents]
    BY <1>17, PutShape DEF OpenArtifact, Shape, UnderWay, Busy, Contents
  <2> QED BY <1>17, <2>1 DEF OpenArtifact, Goto, Shape, Types, UnderWay, Busy, Steps
<1>18. ASSUME NEW p \in Procs, WriteArtifact(p) PROVE Shape'
  <2>1. target[p] \in Blocks /\ DesignOf[target[p]] \in Contents
    BY <1>18 DEF WriteArtifact, Shape, UnderWay, Busy, Contents
  <2>2. artifact' \in [Blocks -> Contents]
    BY <1>18, <2>1, PutShape DEF WriteArtifact
  <2> QED BY <1>18, <2>2, EndShape DEF WriteArtifact, Shape, Types
<1>4. ASSUME NEW b \in Blocks, NEW answer \in {"approved", "denied"}, Answer(b, answer) PROVE Shape'
  BY <1>4 DEF Answer, Shape, Types, process, history, UnderWay, Busy
<1>5. ASSUME NEW b \in Blocks, NEW p \in Procs, NEW to \in States, Start(p, to, b) PROVE Shape'
  <2>1. to \in {"registered", "active", "deprecated"}
    BY <1>5 DEF Start, Allowed, Shape, Types, States
  <2>2. overlap' \in BOOLEAN
    BY <1>5 DEF Start, Overlaps
  <2>3. pc' \in [Procs -> Steps]
    BY <1>5 DEF Start, Goto, Shape, Types, Steps
  <2>4. \A q \in Procs : UnderWay(q)'
    BY <1>5, <2>1 DEF Start, Goto, Shape, Types, UnderWay, Busy
  <2> QED BY <1>5, <2>2, <2>3, <2>4 DEF Start, Shape, Types
<1>6. CASE VerifyChecks
  BY <1>6 DEF VerifyChecks, Shape, Types, process, history, UnderWay, Busy, Nobody, Contents
<1>7. CASE VerifyRecords
  BY <1>7 DEF VerifyRecords, Shape, Types, process, history, UnderWay, Busy, Nobody, Contents
<1>8. ASSUME NEW p \in Procs, NEW remembered \in BOOLEAN, Gate(p, remembered) PROVE Shape'
  <2>1. approvals' \in [Blocks -> {"none", "planned", "approved", "denied", "consumed"}]
    BY <1>8 DEF Gate, Shape, Types
  <2>2. CASE End(p)
    BY <1>8, <2>1, <2>2, EndShape DEF Gate, Shape, Types, history
  <2>3. CASE Goto(p, "backup") /\ UNCHANGED <<verb, target, snapshot, backup>>
    BY <1>8, <2>1, <2>3 DEF Gate, Goto, Shape, Types, history, UnderWay, Busy, Steps
  <2> QED BY <1>8, <2>2, <2>3 DEF Gate
<1>9. ASSUME NEW p \in Procs, Backup(p) PROVE Shape'
  <2>1. viewer[ViewOf[target[p]]] \in Contents
    BY <1>9 DEF Backup, Shape, Types, UnderWay, Busy
  <2> QED BY <1>9, <2>1 DEF Backup, Goto, Shape, Types, UnderWay, Busy, Steps
<1>10. ASSUME NEW p \in Procs, CopyArtifact(p) PROVE Shape'
  BY <1>10 DEF CopyArtifact, Goto, Shape, Types, history, UnderWay, Busy, Steps, Contents
<1>19. ASSUME NEW p \in Procs, Fill(p) PROVE Shape'
  <2>1. artifact[target[p]] \in Contents /\ backup[p] \in Contents /\ "torn" \in Contents
    BY <1>19 DEF Fill, Shape, Types, UnderWay, Busy, Contents
  <2>2. viewer' \in [Views -> Contents]
    <3>1. PICK content \in Contents : viewer' = [viewer EXCEPT ![ViewOf[target[p]]] = content]
      BY <1>19, <2>1 DEF Fill
    <3> QED BY <3>1 DEF Shape, Types
  <2>3. \A q \in Procs : UnderWay(q)'
    BY <1>19 DEF Fill, Goto, Shape, Types, UnderWay, Busy
  <2> QED BY <1>19, <2>2, <2>3 DEF Fill, Goto, Shape, Types, history, Steps
<1>11. ASSUME NEW p \in Procs, RecordInstall(p) PROVE Shape'
  BY <1>11 DEF RecordInstall, Goto, Shape, Types, history, UnderWay, Busy, Steps
<1>12. ASSUME NEW p \in Procs, Consume(p) PROVE Shape'
  BY <1>12 DEF Consume, Goto, Shape, Types, history, UnderWay, Busy, Steps
<1>13. ASSUME NEW p \in Procs, Restore(p) PROVE Shape'
  <2>1. installed[ViewOf[target[p]]].backup \in Contents /\ "torn" \in Contents
    BY <1>13 DEF Restore, Shape, Types, UnderWay, Busy, Contents
  <2>2. viewer' \in [Views -> Contents] /\ backup' \in [Procs -> Contents]
    <3>1. CASE backup' = backup /\ viewer' = viewer
      BY <3>1 DEF Shape, Types
    <3>2. CASE /\ backup' = [backup EXCEPT ![p] = installed[ViewOf[target[p]]].backup]
               /\ viewer' = [viewer EXCEPT ![ViewOf[target[p]]] = "torn"]
      BY <2>1, <3>2 DEF Shape, Types
    <3> QED BY <1>13, <3>1, <3>2 DEF Restore
  <2>3. \A q \in Procs : UnderWay(q)'
    BY <1>13 DEF Restore, Goto, Shape, Types, UnderWay, Busy
  <2>4. pc' \in [Procs -> Steps]
    <3>1. pc' = [pc EXCEPT ![p] = "fill"] \/ pc' = [pc EXCEPT ![p] = "write"]
      BY <1>13 DEF Restore, Goto
    <3> QED BY <3>1 DEF Shape, Types, Steps
  <2> QED BY <1>13, <2>2, <2>3, <2>4 DEF Restore, Shape, Types, history
<1>14. ASSUME NEW p \in Procs, Write(p) PROVE Shape'
  <2>1. records' \in [Blocks -> States \cup {"none"}]
    BY <1>14 DEF Write, Shape, Types
  <2>2. before' \in [Blocks -> Contents] /\ activated' \subseteq Blocks
    BY <1>14 DEF Write, Shape, Types, Contents
  <2> QED BY <1>14, <2>1, <2>2, EndShape DEF Write, Shape, Types
<1>15. ASSUME NEW p \in Procs, Kill(p) PROVE Shape'
  BY <1>15, EndShape DEF Kill, Shape, Types, history
<1>16. CASE UNCHANGED vars
  BY <1>16 DEF vars, process, history, Shape, Types, UnderWay, Busy
<1> QED BY <1>1, <1>2, <1>3, <1>4, <1>5, <1>6, <1>7, <1>8, <1>9, <1>10, <1>11, <1>12, <1>13,
           <1>14, <1>15, <1>16, <1>17, <1>18, <1>19 DEF Next

-----------------------------------------------------------------------------
\* As long as no commands overlapped: a command alone sees the records as they
\* are, and promotes a block that has never been active, with an approval that
\* is consumed before the record is written.
Promoting(p) ==
  /\ Busy(p) /\ verb[p] # "draft" => /\ snapshot[p] = records
                                    /\ verb[p] \in Allowed[records[target[p]]]
  /\ verb[p] = "active" /\ pc[p] \in {"backup", "copy", "fill", "record", "consume", "write"}
     => target[p] \notin activated
  /\ verb[p] = "active" /\ pc[p] = "write" => approvals[target[p]] \in {"consumed", "denied"}

Alone ==
  /\ \A p, q \in Procs : Busy(p) /\ Busy(q) => p = q
  /\ \A p \in Procs : Promoting(p)
  /\ \A b \in Blocks : records[b] = "active" => b \in activated
  /\ \A b \in activated : approvals[b] \in {"consumed", "denied"}

AloneInv == overlap \/ (Alone /\ ConsumedMeansActive)

LEMMA AloneInit == Init => AloneInv
BY DEF Init, AloneInv, Alone, Promoting, Busy, ConsumedMeansActive

LEMMA OverlapStays == ASSUME Shape, [Next]_vars, ~overlap' PROVE ~overlap
BY DEF Next, vars, process, history, Generate, OpenArtifact, WriteArtifact, VerifyReads, Edit, Answer,
       Start, VerifyChecks, Overlaps, VerifyRecords, Gate, Backup, CopyArtifact, Fill, RecordInstall,
       Consume, Restore, Write, Kill

\* A command that ends is no longer under way; it was alone, so none is.
LEMMA EndAlone ==
  ASSUME Shape, Alone, NEW p \in Procs, Busy(p), End(p)
  PROVE  \A q \in Procs : ~Busy(q)'
BY DEF End, Goto, Shape, Types, Alone, Busy

\* A step of the only command under way, up to the write of the records.
LEMMA StepAlone ==
  ASSUME Shape, Alone, NEW p \in Procs, Busy(p), NEW step, Goto(p, step), step # "idle",
         records' = records, activated' = activated, \A b \in activated : approvals'[b] \in {"consumed", "denied"},
         Promoting(p)'
  PROVE  Alone'
<1>1. \A q \in Procs : q # p => ~Busy(q) /\ ~Busy(q)' /\ pc'[q] = pc[q]
  BY DEF Goto, Shape, Types, Alone, Busy
<1>2. \A q \in Procs : Promoting(q)'
  BY <1>1 DEF Promoting, Busy
<1> QED BY <1>1, <1>2 DEF Alone

LEMMA AloneStep == Shape /\ AloneInv /\ [Next]_vars => AloneInv'
<1> SUFFICES ASSUME Shape, AloneInv, [Next]_vars, ~overlap' PROVE (Alone /\ ConsumedMeansActive)'
  BY DEF AloneInv
<1>0. ~overlap /\ Alone /\ ConsumedMeansActive
  BY OverlapStays DEF AloneInv
<1>1. ASSUME NEW p \in Procs, NEW b \in Blocks, Generate(p, b) PROVE (Alone /\ ConsumedMeansActive)'
  <2>1. \A q \in Procs : ~Busy(q)
    BY <1>1 DEF Generate, Overlaps
  <2>2. \A q \in Procs : q # p => ~Busy(q)'
    BY <1>1, <2>1 DEF Generate, Goto, Shape, Types, Busy
  <2>3. \A c \in Blocks : records'[c] = IF c = b THEN "draft" ELSE records[c]
    BY <1>1 DEF Generate, Shape, Types
  <2>4. verb'[p] = "draft"
    BY <1>1 DEF Generate, Shape, Types
  <2>5. \A q \in Procs : Promoting(q)'
    BY <2>2, <2>4 DEF Promoting, Busy
  <2>6. Alone'
    BY <1>0, <1>1, <2>2, <2>3, <2>5 DEF Generate, Alone
  <2>7. ASSUME NEW c \in Blocks, approvals[c] = "consumed", ~(kills > 0), ~(again' > 0)
        PROVE  records'[c] \in {"active", "deprecated"}
    <3>1. records[b] = "none" /\ again' = again
      BY <1>1, <2>7 DEF Generate, Shape, Types
    <3>2. records[c] \in {"active", "deprecated"}
      BY <1>0, <2>1, <2>7, <3>1 DEF ConsumedMeansActive, Busy
    <3> QED BY <2>3, <3>1, <3>2
  <2>8. ConsumedMeansActive'
    BY <1>1, <2>7 DEF Generate, ConsumedMeansActive
  <2> QED BY <2>6, <2>8
<1>17. ASSUME NEW p \in Procs, OpenArtifact(p) PROVE (Alone /\ ConsumedMeansActive)'
  <2>1. Promoting(p)'
    BY <1>0, <1>17 DEF OpenArtifact, Goto, Shape, Types, Alone, Promoting, Busy, UnderWay
  <2>2. Alone'
    BY <1>0, <1>17, <2>1, StepAlone DEF OpenArtifact, Busy, Alone
  <2>3. ConsumedMeansActive'
    BY <1>0, <1>17 DEF OpenArtifact, Goto, Alone, Busy, ConsumedMeansActive
  <2> QED BY <2>2, <2>3
<1>18. ASSUME NEW p \in Procs, WriteArtifact(p) PROVE (Alone /\ ConsumedMeansActive)'
  <2>1. \A q \in Procs : ~Busy(q)'
    BY <1>0, <1>18, EndAlone DEF WriteArtifact, Busy
  <2>2. \A q \in Procs : Promoting(q)'
    BY <2>1 DEF Promoting, Busy
  <2>3. Alone'
    BY <1>0, <1>18, <2>1, <2>2 DEF WriteArtifact, Alone
  <2>4. \A q \in Procs : pc[q] # "write"
    BY <1>0, <1>18 DEF WriteArtifact, Alone, Busy
  <2>5. ConsumedMeansActive'
    BY <1>0, <1>18, <2>4 DEF WriteArtifact, ConsumedMeansActive
  <2> QED BY <2>3, <2>5
<1>2. ASSUME NEW b \in Blocks, VerifyReads(b) PROVE (Alone /\ ConsumedMeansActive)'
  BY <1>0, <1>2 DEF VerifyReads, process, history, Alone, Promoting, Busy, ConsumedMeansActive
<1>3. ASSUME NEW b \in Blocks, NEW design \in Designs, Edit(b, design)
      PROVE  (Alone /\ ConsumedMeansActive)'
  BY <1>0, <1>3 DEF Edit, process, Alone, Promoting, Busy, ConsumedMeansActive
<1>4. ASSUME NEW b \in Blocks, NEW answer \in {"approved", "denied"}, Answer(b, answer)
      PROVE  (Alone /\ ConsumedMeansActive)'
  <2>1. \A c \in Blocks : /\ approvals'[c] = "consumed" => approvals[c] = "consumed"
                          /\ approvals[c] \in {"consumed", "denied"} => approvals'[c] \in {"consumed", "denied"}
    BY <1>4 DEF Answer, Shape, Types
  <2>2. Alone'
    <3>1. \A p \in Procs : Promoting(p)'
      BY <1>0, <1>4, <2>1 DEF Answer, process, history, Alone, Promoting, Busy, Shape, UnderWay
    <3>2. \A c \in activated' : approvals'[c] \in {"consumed", "denied"}
      BY <1>0, <1>4, <2>1 DEF Answer, history, Alone, Shape, Types
    <3> QED BY <1>0, <1>4, <3>1, <3>2 DEF Answer, process, history, Alone, Busy
  <2> QED BY <1>0, <1>4, <2>1, <2>2 DEF Answer, process, history, ConsumedMeansActive
<1>5. ASSUME NEW b \in Blocks, NEW p \in Procs, NEW to \in States, Start(p, to, b)
      PROVE  (Alone /\ ConsumedMeansActive)'
  <2>1. \A q \in Procs : ~Busy(q)
    BY <1>5 DEF Start, Overlaps
  <2>2. /\ to \in Allowed[records[b]] /\ to \in {"registered", "active", "deprecated"}
        /\ records' = records /\ approvals' = approvals /\ activated' = activated /\ again' = again
        /\ kills' = kills
    BY <1>5 DEF Start, Allowed, Shape, Types, States
  <2>3. \A q \in Procs : q # p => ~Busy(q)'
    BY <1>5, <2>1 DEF Start, Goto, Shape, Types, Busy
  <2>4. /\ target'[p] = b /\ verb'[p] = to /\ snapshot'[p] = records
        /\ pc'[p] \in {"write", "gate", "restore"} /\ (to = "active" => pc'[p] = "gate")
    BY <1>5, <2>2 DEF Start, Goto, Shape, Types
  <2>5. \A q \in Procs : pc'[q] = "write" \/ q = p \/ ~Busy(q)'
    BY <2>3
  <2>6. \A q \in Procs : Promoting(q)'
    BY <2>2, <2>3, <2>4 DEF Promoting, Busy
  <2>7. ConsumedMeansActive'
    BY <1>0, <2>1, <2>2 DEF ConsumedMeansActive, Busy
  <2> QED BY <1>0, <2>2, <2>3, <2>6, <2>7 DEF Alone
<1>6. CASE VerifyChecks
  BY <1>0, <1>6 DEF VerifyChecks, process, history, Alone, Promoting, Busy, ConsumedMeansActive
<1>7. CASE VerifyRecords
  BY <1>0, <1>7 DEF VerifyRecords, process, history, Alone, Promoting, Busy, ConsumedMeansActive
<1>8. ASSUME NEW p \in Procs, NEW remembered \in BOOLEAN, Gate(p, remembered)
      PROVE  (Alone /\ ConsumedMeansActive)'
  <2> DEFINE b == target[p]
  <2>1. Busy(p) /\ verb[p] = "active" /\ b \in Blocks
    BY <1>8 DEF Gate, Shape, Types, UnderWay, Busy
  <2>2. \A c \in Blocks : \/ approvals'[c] = approvals[c]
                          \/ approvals[c] = "none" /\ approvals'[c] = "planned"
    BY <1>8, <2>1 DEF Gate, Shape, Types
  <2>3. \A c \in activated : approvals'[c] \in {"consumed", "denied"}
    BY <1>0, <2>2 DEF Alone, Shape, Types
  <2>4. Alone'
    <3>1. CASE End(p)
      <4>1. \A q \in Procs : ~Busy(q)'
        BY <1>0, <2>1, <3>1, EndAlone
      <4>2. \A q \in Procs : Promoting(q)'
        BY <4>1 DEF Promoting, Busy
      <4> QED BY <1>0, <1>8, <2>3, <4>1, <4>2 DEF Gate, history, Alone
    <3>2. CASE ~End(p)
      <4>1. Goto(p, "backup") /\ UNCHANGED <<verb, target, snapshot, records, activated>>
        BY <1>8, <3>2 DEF Gate, history
      <4>2. approvals[b] = "approved"
        BY <1>8, <3>2 DEF Gate
      <4>3. b \notin activated
        BY <1>0, <4>2 DEF Alone
      <4>4. Promoting(p)'
        BY <1>0, <2>1, <4>1, <4>3 DEF Goto, Shape, Types, Alone, Promoting, Busy
      <4> QED BY <1>0, <2>1, <2>3, <4>1, <4>4, StepAlone
    <3> QED BY <3>1, <3>2
  <2>5. ConsumedMeansActive'
    <3>1. \A q \in Procs : pc[q] # "write"
      BY <1>0, <1>8, <2>1 DEF Gate, Alone, Busy
    <3> QED BY <1>0, <1>8, <2>2, <3>1 DEF Gate, history, ConsumedMeansActive
  <2> QED BY <2>4, <2>5
<1>9. ASSUME NEW p \in Procs, Backup(p) PROVE (Alone /\ ConsumedMeansActive)'
  <2>1. Promoting(p)'
    BY <1>0, <1>9 DEF Backup, Goto, Shape, Types, Alone, Promoting, Busy, UnderWay
  <2>2. Alone'
    BY <1>0, <1>9, <2>1, StepAlone DEF Backup, Busy, Alone
  <2>3. ConsumedMeansActive'
    BY <1>0, <1>9 DEF Backup, Goto, Alone, Busy, ConsumedMeansActive
  <2> QED BY <2>2, <2>3
<1>10. ASSUME NEW p \in Procs, CopyArtifact(p) PROVE (Alone /\ ConsumedMeansActive)'
  <2>1. Promoting(p)'
    BY <1>0, <1>10 DEF CopyArtifact, history, Goto, Shape, Types, Alone, Promoting, Busy, UnderWay
  <2>2. Alone'
    BY <1>0, <1>10, <2>1, StepAlone DEF CopyArtifact, history, Busy, Alone
  <2>3. ConsumedMeansActive'
    BY <1>0, <1>10 DEF CopyArtifact, history, Goto, Alone, Busy, ConsumedMeansActive
  <2> QED BY <2>2, <2>3
<1>19. ASSUME NEW p \in Procs, Fill(p) PROVE (Alone /\ ConsumedMeansActive)'
  <2>1. Promoting(p)'
    BY <1>0, <1>19 DEF Fill, history, Goto, Shape, Types, Alone, Promoting, Busy, UnderWay
  <2>2. Alone'
    BY <1>0, <1>19, <2>1, StepAlone DEF Fill, history, Busy, Alone
  <2>3. ConsumedMeansActive'
    BY <1>0, <1>19 DEF Fill, history, Goto, Alone, Busy, ConsumedMeansActive
  <2> QED BY <2>2, <2>3
<1>11. ASSUME NEW p \in Procs, RecordInstall(p) PROVE (Alone /\ ConsumedMeansActive)'
  <2>1. Promoting(p)'
    BY <1>0, <1>11 DEF RecordInstall, history, Goto, Shape, Types, Alone, Promoting, Busy, UnderWay
  <2>2. Alone'
    BY <1>0, <1>11, <2>1, StepAlone DEF RecordInstall, history, Busy, Alone
  <2>3. ConsumedMeansActive'
    BY <1>0, <1>11 DEF RecordInstall, history, Goto, Alone, Busy, ConsumedMeansActive
  <2> QED BY <2>2, <2>3
<1>12. ASSUME NEW p \in Procs, Consume(p) PROVE (Alone /\ ConsumedMeansActive)'
  <2> DEFINE b == target[p]
  <2>1. Busy(p) /\ verb[p] = "active" /\ b \in Blocks
    BY <1>12 DEF Consume, Shape, Types, UnderWay, Busy
  <2>2. \A c \in Blocks : approvals'[c] = IF c = b THEN "consumed" ELSE approvals[c]
    BY <1>12, <2>1 DEF Consume, Shape, Types
  <2>3. \A c \in activated : approvals'[c] \in {"consumed", "denied"}
    BY <1>0, <2>2 DEF Alone, Shape, Types
  <2>4. Promoting(p)'
    <3>1. /\ snapshot[p] = records /\ verb[p] \in Allowed[records[b]] /\ b \notin activated
      BY <1>0, <1>12, <2>1 DEF Consume, Alone, Promoting
    <3>2. pc'[p] = "write" /\ approvals'[b] = "consumed"
      BY <1>12, <2>1, <2>2 DEF Consume, Goto, Shape, Types
    <3> QED BY <1>12, <2>1, <3>1, <3>2 DEF Consume, history, Promoting
  <2>5. Alone'
    BY <1>0, <1>12, <2>1, <2>3, <2>4, StepAlone DEF Consume, history
  <2>6. target'[p] = b /\ verb'[p] = "active" /\ pc'[p] = "write"
    BY <1>12, <2>1 DEF Consume, Goto, Shape, Types
  <2>7. \A q \in Procs : pc[q] # "write"
    BY <1>0, <1>12, <2>1 DEF Consume, Alone, Busy
  <2>8. ConsumedMeansActive'
    BY <1>0, <1>12, <2>2, <2>6, <2>7 DEF Consume, history, ConsumedMeansActive
  <2> QED BY <2>5, <2>8
<1>13. ASSUME NEW p \in Procs, Restore(p) PROVE (Alone /\ ConsumedMeansActive)'
  <2>1. Promoting(p)'
    BY <1>0, <1>13 DEF Restore, history, Goto, Shape, Types, Alone, Promoting, Busy, UnderWay
  <2>2. Alone'
    BY <1>0, <1>13, <2>1, StepAlone DEF Restore, history, Busy, Alone
  <2>3. ConsumedMeansActive'
    BY <1>0, <1>13 DEF Restore, history, Goto, Alone, Busy, ConsumedMeansActive
  <2> QED BY <2>2, <2>3
<1>14. ASSUME NEW p \in Procs, Write(p) PROVE (Alone /\ ConsumedMeansActive)'
  <2> DEFINE b == target[p]
  <2>1. Busy(p) /\ b \in Blocks /\ snapshot[p] = records /\ verb[p] \in Allowed[records[b]]
    BY <1>0, <1>14 DEF Write, Shape, UnderWay, Busy, Alone, Promoting
  <2>2. \A c \in Blocks : records'[c] = IF c = b THEN verb[p] ELSE records[c]
    BY <1>14, <2>1 DEF Write, Shape, Types
  <2>3. \A q \in Procs : ~Busy(q)'
    BY <1>0, <1>14, <2>1, EndAlone DEF Write
  <2>4. verb[p] = "active" => approvals[b] \in {"consumed", "denied"}
    BY <1>0, <1>14 DEF Write, Alone, Promoting
  <2>5. Alone'
    <3>1. \A c \in activated' : c \in activated \/ (c = b /\ verb[p] = "active")
      BY <1>0, <1>14, <2>2 DEF Write, Alone
    <3>2. \A q \in Procs : Promoting(q)'
      BY <2>3 DEF Promoting, Busy
    <3>3. \A c \in Blocks : records'[c] = "active" => c \in activated'
      BY <1>14 DEF Write
    <3>4. approvals' = approvals
      BY <1>14 DEF Write
    <3>5. \A c \in activated' : approvals'[c] \in {"consumed", "denied"}
      BY <1>0, <2>4, <3>1, <3>4 DEF Alone
    <3> QED BY <2>3, <3>2, <3>3, <3>5 DEF Alone
  <2>6. ASSUME NEW c \in Blocks, approvals[c] = "consumed", ~(kills > 0), ~(again > 0)
        PROVE  records'[c] \in {"active", "deprecated"}
    <3>1. \/ records[c] \in {"active", "deprecated"}
          \/ c = b /\ verb[p] = "active"
      BY <1>0, <2>1, <2>6 DEF ConsumedMeansActive, Alone, Busy
    <3>2. c = b /\ records[c] \in {"active", "deprecated"} => verb[p] = "deprecated"
      BY <2>1 DEF Allowed
    <3> QED BY <2>2, <3>1, <3>2
  <2>7. ConsumedMeansActive'
    BY <1>14, <2>6 DEF Write, ConsumedMeansActive
  <2> QED BY <2>5, <2>7
<1>15. ASSUME NEW p \in Procs, Kill(p) PROVE (Alone /\ ConsumedMeansActive)'
  <2>1. \A q \in Procs : ~Busy(q)'
    BY <1>0, <1>15, EndAlone DEF Kill
  <2>2. \A q \in Procs : Promoting(q)'
    BY <2>1 DEF Promoting, Busy
  <2>3. kills' > 0
    BY <1>15 DEF Kill, Shape, Types
  <2>4. Alone'
    BY <1>0, <1>15, <2>1, <2>2 DEF Kill, history, Alone
  <2> QED BY <2>3, <2>4 DEF ConsumedMeansActive
<1>16. CASE UNCHANGED vars
  BY <1>0, <1>16 DEF vars, process, history, Alone, Promoting, Busy, ConsumedMeansActive
<1> QED BY <1>1, <1>2, <1>3, <1>4, <1>5, <1>6, <1>7, <1>8, <1>9, <1>10, <1>11, <1>12, <1>13,
           <1>14, <1>15, <1>16, <1>17, <1>18, <1>19 DEF Next

(* One approval activates a block, and once: it is not spent on a          *)
(* promotion that fails, and the block does not become active again after  *)
(* it was deprecated and generated anew, unless commands overlapped        *)
(* (consume_approval, set_block_state).                                    *)
THEOREM ActivatesOnce == Spec => ActivatedOnce
<1> DEFINE Once == \A b \in activated : records'[b] = "active" => records[b] = "active" \/ overlap
<1>1. Init => Shape /\ AloneInv
  BY ShapeInit, AloneInit
<1>2. Shape /\ AloneInv /\ [Next]_vars => (Shape /\ AloneInv)'
  BY ShapeStep, AloneStep
<1>3. AloneInv => ConsumedMeansActive
  BY DEF AloneInv, ConsumedMeansActive
<1>4. Shape /\ AloneInv /\ [Next]_vars => [Once]_vars
  <2> SUFFICES ASSUME Shape, AloneInv, Next, ~overlap,
                      NEW b \in activated, records'[b] = "active", records[b] # "active"
               PROVE  FALSE
    OBVIOUS
  <2>0. b \in Blocks
    BY DEF Shape, Types
  <2>1. ASSUME NEW q \in Procs, NEW c \in Blocks, Generate(q, c) PROVE FALSE
    BY <2>0, <2>1 DEF Generate, Shape, Types
  <2>2. ASSUME NEW p \in Procs, Write(p) PROVE FALSE
    <3>1. snapshot[p] = records /\ target[p] \in Blocks
      BY <2>2 DEF Write, AloneInv, Alone, Promoting, Shape, UnderWay, Busy
    <3>2. b = target[p] /\ verb[p] = "active"
      BY <2>0, <2>2, <3>1 DEF Write, Shape, Types
    <3> QED BY <2>2, <3>2 DEF Write, AloneInv, Alone, Promoting
  <2>3. records' # records
    OBVIOUS
  <2> QED BY <2>1, <2>2, <2>3 DEF Next, process, history, OpenArtifact, WriteArtifact,
            VerifyReads, Edit, Answer, Start, VerifyChecks, VerifyRecords, Gate, Backup, CopyArtifact,
            Fill, RecordInstall, Consume, Restore, Kill
<1> QED BY <1>1, <1>2, <1>3, <1>4, PTL DEF Spec, ActivatedOnce

-----------------------------------------------------------------------------
\* What a verification or a promotion may go by: evidence for that content, or
\* the content was put there under a command.
Cleared(content, view) == <<content, view>> \in evidence \cup slipped

\* What a view may show and what may be kept to be put back: its former viewer,
\* a good design that was verified, or what slipped in or was left torn.
Rightful(content, view) ==
  \/ content \in {"none"} \cup Former
  \/ content \in Good /\ <<content, view>> \in evidence
  \/ <<content, view>> \in slipped
  \/ content = "torn" /\ (view \in cut \/ overlap)

Filling(view) == \E p \in Procs : pc[p] = "fill" /\ ViewOf[target[p]] = view

\* Evidence is of good designs, a promotion past its gate is cleared for what
\* it installs, and all that is shown or kept to be put back is rightful.
EvidenceOf(content, view) == content \in Good \/ <<content, view>> \in slipped

Evident ==
  /\ \A d \in Contents, v \in Views : <<d, v>> \in evidence => EvidenceOf(d, v)
  /\ verifier.passed => EvidenceOf(artifact[verifier.block], ViewOf[verifier.block])

Installing(p) ==
  /\ verb[p] = "active" /\ pc[p] \in {"backup", "copy", "fill"}
     => Cleared(artifact[target[p]], ViewOf[target[p]])
  /\ pc[p] \in {"copy", "fill", "record"} => Rightful(backup[p], ViewOf[target[p]])

Shown(v) == Rightful(viewer[v], v) \/ (viewer[v] = "torn" /\ Filling(v))

Verified ==
  /\ \A p \in Procs : Installing(p)
  /\ \A v \in Views : Shown(v) /\ Rightful(installed[v].backup, v)

LEMMA VerifiedInit == Init => Evident /\ Verified
BY DEF Init, Evident, Verified, Installing, Shown, Rightful, Nobody

\* A change of an artifact disturbs no command or is on the record.
LEMMA ChangesSlip ==
  ASSUME Shape, [Next]_vars
  PROVE  \A b \in Blocks : \/ artifact'[b] = artifact[b] \/ ~Disturbs(b)
                           \/ <<artifact'[b], ViewOf[b]>> \in slipped'
<1>1. ASSUME NEW c \in Blocks, NEW content, PutArtifact(c, content), NEW b \in Blocks
      PROVE  \/ artifact'[b] = artifact[b] \/ ~Disturbs(b)
             \/ <<artifact'[b], ViewOf[b]>> \in slipped'
  <2>1. artifact'[b] = IF b = c THEN content ELSE artifact[b]
    BY <1>1 DEF PutArtifact, Shape, Types
  <2> QED BY <1>1, <2>1 DEF PutArtifact
<1>2. CASE artifact' = artifact
  BY <1>2
<1>3. ASSUME NEW b \in Blocks, NEW design \in Designs, Edit(b, design)
      PROVE  PutArtifact(b, design)
  BY <1>3 DEF Edit
<1>4. ASSUME NEW p \in Procs, OpenArtifact(p) \/ WriteArtifact(p)
      PROVE  \E c \in Blocks, content \in Contents : PutArtifact(c, content)
  <2>1. target[p] \in Blocks /\ DesignOf[target[p]] \in Contents /\ "torn" \in Contents
    BY <1>4, DesignAssumption DEF OpenArtifact, WriteArtifact, Shape, UnderWay, Busy, Contents
  <2> QED BY <1>4, <2>1 DEF OpenArtifact, WriteArtifact
<1>5. CASE artifact' # artifact
  <2>1. \/ \E b \in Blocks, design \in Designs : Edit(b, design)
        \/ \E p \in Procs : OpenArtifact(p) \/ WriteArtifact(p)
    <3>1. ASSUME NEW p \in Procs
          PROVE  /\ \A b \in Blocks : ~Generate(p, b)
                 /\ \A b \in Blocks, to \in States : ~Start(p, to, b)
                 /\ \A remembered \in BOOLEAN : ~Gate(p, remembered)
                 /\ ~Backup(p) /\ ~CopyArtifact(p) /\ ~Fill(p) /\ ~RecordInstall(p) /\ ~Consume(p)
                 /\ ~Restore(p) /\ ~Write(p) /\ ~Kill(p)
      BY <1>5 DEF Generate, Start, Gate, Backup, CopyArtifact, Fill, RecordInstall, Consume, Restore,
         Write, Kill
    <3>2. /\ \A b \in Blocks : ~VerifyReads(b) /\ \A answer : ~Answer(b, answer)
          /\ ~VerifyChecks /\ ~VerifyRecords /\ ~UNCHANGED vars
      BY <1>5 DEF vars, VerifyReads, Answer, VerifyChecks, VerifyRecords
    <3> QED BY <3>1, <3>2 DEF Next
  <2>2. PICK c \in Blocks, content \in Contents : PutArtifact(c, content)
    BY <1>3, <1>4, <2>1 DEF Contents
  <2> QED BY <1>1, <2>2
<1> QED BY <1>2, <1>5

\* What was cleared or rightful stays so: evidence and history only grow.
LEMMA HistoryGrows ==
  ASSUME Shape, [Next]_vars
  PROVE  /\ evidence \subseteq evidence' /\ slipped \subseteq slipped' /\ cut \subseteq cut'
         /\ overlap => overlap'
<1>1. evidence \subseteq evidence'
  BY DEF Next, vars, process, history, Generate, OpenArtifact, WriteArtifact, VerifyReads, Edit, Answer,
         Start, VerifyChecks, VerifyRecords, Gate, Backup, CopyArtifact, Fill, RecordInstall, Consume,
         Restore, Write, Kill
<1>2. slipped \subseteq slipped'
  <2>1. \A b, content : PutArtifact(b, content) => slipped \subseteq slipped'
    BY DEF PutArtifact
  <2>2. CASE \/ \E b \in Blocks, design \in Designs : Edit(b, design)
             \/ \E p \in Procs : OpenArtifact(p) \/ WriteArtifact(p)
    BY <2>1, <2>2 DEF Edit, OpenArtifact, WriteArtifact
  <2>3. CASE ~ \/ \E b \in Blocks, design \in Designs : Edit(b, design)
               \/ \E p \in Procs : OpenArtifact(p) \/ WriteArtifact(p)
    BY <2>3 DEF Next, vars, process, history, Generate, VerifyReads, Answer, Start, VerifyChecks,
       VerifyRecords, Gate, Backup, CopyArtifact, Fill, RecordInstall, Consume, Restore, Write, Kill
  <2> QED BY <2>2, <2>3
<1>3. cut \subseteq cut'
  BY DEF Next, vars, process, history, Generate, OpenArtifact, WriteArtifact, VerifyReads, Edit, Answer,
         Start, VerifyChecks, VerifyRecords, Gate, Backup, CopyArtifact, Fill, RecordInstall, Consume,
         Restore, Write, Kill
<1> QED BY <1>1, <1>2, <1>3, OverlapStays

\* Evidence is made by VerifyRecords only, for what VerifyChecks passed or for
\* what slipped in since.
LEMMA EvidentStep == Shape /\ Evident /\ [Next]_vars => Evident'
<1> SUFFICES ASSUME Shape, Evident, [Next]_vars PROVE Evident' OBVIOUS
<1> USE DesignAssumption
<1>1. ASSUME evidence' = evidence
      PROVE  \A d \in Contents, v \in Views : <<d, v>> \in evidence' => EvidenceOf(d, v)'
  BY <1>1, HistoryGrows DEF Evident, EvidenceOf
<1>2. ASSUME verifier.passed, verifier' = verifier
      PROVE  EvidenceOf(artifact[verifier.block], ViewOf[verifier.block])'
  <2>0. EvidenceOf(artifact[verifier.block], ViewOf[verifier.block])
    BY <1>2 DEF Evident
  <2>1. verifier.block \in Blocks /\ Disturbs(verifier.block)
    BY <1>2 DEF Shape, Nobody, Disturbs
  <2>2. CASE artifact'[verifier.block] = artifact[verifier.block]
    BY <1>2, <2>0, <2>2, HistoryGrows DEF EvidenceOf
  <2>3. CASE <<artifact'[verifier.block], ViewOf[verifier.block]>> \in slipped'
    BY <1>2, <2>3 DEF EvidenceOf
  <2> QED BY <2>1, <2>2, <2>3, ChangesSlip
<1>3. CASE verifier' = verifier /\ evidence' = evidence
  BY <1>1, <1>2, <1>3 DEF Evident
<1>4. ASSUME NEW b \in Blocks, VerifyReads(b) PROVE Evident'
  BY <1>1, <1>4 DEF VerifyReads, Evident
<1>5. CASE VerifyChecks
  <2>1. verifier'.passed => verifier'.block = verifier.block /\ artifact[verifier.block] \in Good
    BY <1>5 DEF VerifyChecks, Nobody, Shape, Types
  <2> QED BY <1>1, <1>5, <2>1 DEF VerifyChecks, Evident, EvidenceOf
<1>6. CASE VerifyRecords
  <2> DEFINE read == artifact[verifier.block]  view == ViewOf[verifier.block]
  <2>1. EvidenceOf(read, view)
    BY <1>6 DEF VerifyRecords, Evident
  <2>2. \A d, v : <<d, v>> \in evidence' => <<d, v>> \in evidence \/ (d = read /\ v = view)
    BY <1>6 DEF VerifyRecords
  <2>3. \A d \in Contents, v \in Views : <<d, v>> \in evidence' => EvidenceOf(d, v)'
    BY <2>1, <2>2, HistoryGrows DEF Evident, EvidenceOf
  <2>4. ~verifier'.passed
    BY <1>6 DEF VerifyRecords, Nobody
  <2> QED BY <2>3, <2>4 DEF Evident
<1> QED BY <1>3, <1>4, <1>5, <1>6 DEF Next, vars, process, history, Generate, OpenArtifact,
        WriteArtifact, Edit, Answer, Start, Gate, Backup, CopyArtifact, Fill, RecordInstall, Consume,
        Restore, Write, Kill

\* A command that does not move stays cleared, whatever the others do.
LEMMA StaysInstalling ==
  ASSUME Shape, [Next]_vars, NEW q \in Procs, Installing(q), pc'[q] = pc[q], verb'[q] = verb[q],
         target'[q] = target[q], backup'[q] = backup[q]
  PROVE  Installing(q)'
<1> DEFINE b == target[q]  view == ViewOf[b]
<1>1. ASSUME verb[q] = "active", pc[q] \in {"backup", "copy", "fill"}
      PROVE  Cleared(artifact[target[q]], ViewOf[target[q]])'
  <2>1. b \in Blocks /\ Disturbs(b) /\ Cleared(artifact[b], view)
    BY <1>1 DEF Shape, UnderWay, Busy, Disturbs, Installing
  <2>2. CASE artifact'[b] = artifact[b]
    BY <2>1, <2>2, HistoryGrows DEF Cleared
  <2>3. CASE <<artifact'[b], view>> \in slipped'
    BY <2>3 DEF Cleared
  <2> QED BY <2>1, <2>2, <2>3, ChangesSlip
<1>2. pc[q] \in {"copy", "fill", "record"} => Rightful(backup[q], ViewOf[target[q]])'
  BY HistoryGrows DEF Installing, Rightful
<1> QED BY <1>1, <1>2 DEF Installing, Cleared, Rightful

\* The step of a command p, with what it leaves of the other commands and of
\* the views other than its own.
LEMMA OneInstalls ==
  ASSUME Shape, [Next]_vars, Verified, NEW p \in Procs, Installing(p)',
         \A q \in Procs : q # p => /\ pc'[q] = pc[q] /\ verb'[q] = verb[q]
                                   /\ target'[q] = target[q] /\ backup'[q] = backup[q]
  PROVE  \A q \in Procs : Installing(q)'
BY StaysInstalling DEF Verified

LEMMA OneShows ==
  ASSUME Shape, [Next]_vars, Verified, NEW p \in Procs, NEW v \in Views, viewer'[v] = viewer[v],
         \A q \in Procs : q # p => pc'[q] = pc[q] /\ target'[q] = target[q],
         pc[p] # "fill" \/ ViewOf[target[p]] # v
  PROVE  Shown(v)'
<1>1. CASE Rightful(viewer[v], v)
  BY <1>1, HistoryGrows DEF Shown, Rightful
<1>2. CASE viewer[v] = "torn" /\ Filling(v)
  BY <1>2 DEF Shown, Filling
<1> QED BY <1>1, <1>2 DEF Verified, Shown

LEMMA VerifiedStep == Shape /\ AloneInv /\ Evident /\ Verified /\ [Next]_vars => Verified'
<1> SUFFICES ASSUME Shape, AloneInv, Evident, Verified, [Next]_vars PROVE Verified' OBVIOUS
<1> USE DesignAssumption
<1>1. ASSUME installed' = installed
      PROVE  \A v \in Views : Rightful(installed[v].backup, v)'
  BY <1>1, HistoryGrows DEF Verified, Rightful
\* Steps of no command.
<1>2. CASE process' = process /\ viewer' = viewer /\ installed' = installed
  <2>1. \A q \in Procs : Installing(q)'
    BY <1>2, StaysInstalling DEF process, Verified
  <2>2. ASSUME NEW v \in Views PROVE Shown(v)'
    <3>1. CASE Rightful(viewer[v], v)
      BY <1>2, <3>1, HistoryGrows DEF Shown, Rightful
    <3>2. CASE viewer[v] = "torn" /\ Filling(v)
      BY <1>2, <3>2 DEF process, Shown, Filling
    <3> QED BY <3>1, <3>2 DEF Verified, Shown
  <2> QED BY <1>1, <1>2, <2>1, <2>2 DEF Verified
\* Steps of a command that copies nothing onto a view.
<1>3. ASSUME NEW p \in Procs, viewer' = viewer, installed' = installed, pc[p] # "fill",
             \A q \in Procs : q # p => /\ pc'[q] = pc[q] /\ verb'[q] = verb[q]
                                       /\ target'[q] = target[q] /\ backup'[q] = backup[q],
             Installing(p)'
      PROVE  Verified'
  <2>1. \A q \in Procs : Installing(q)'
    BY <1>3, OneInstalls
  <2>2. \A v \in Views : Shown(v)'
    BY <1>3, OneShows
  <2> QED BY <1>1, <1>3, <2>1, <2>2 DEF Verified
<1>4. ASSUME NEW p \in Procs, NEW b \in Blocks, Generate(p, b) PROVE Verified'
  <2>1. Installing(p)'
    BY <1>4 DEF Generate, Goto, Shape, Types, Installing
  <2> QED BY <1>3, <1>4, <2>1 DEF Generate, Goto, Shape, Types, Busy
<1>5. ASSUME NEW p \in Procs, OpenArtifact(p) PROVE Verified'
  <2>1. Installing(p)'
    BY <1>5 DEF OpenArtifact, Goto, Shape, Types, Installing
  <2> QED BY <1>3, <1>5, <2>1 DEF OpenArtifact, Goto, Shape, Types
<1>6. ASSUME NEW p \in Procs, End(p), viewer' = viewer, installed' = installed, pc[p] # "fill"
      PROVE  Verified'
  <2>1. Installing(p)'
    BY <1>6 DEF End, Goto, Shape, Types, Installing
  <2> QED BY <1>3, <1>6, <2>1 DEF End, Goto, Shape, Types
<1>7. ASSUME NEW b \in Blocks, NEW p \in Procs, NEW to \in States, Start(p, to, b) PROVE Verified'
  <2>1. pc'[p] \in {"write", "gate", "restore"}
    BY <1>7 DEF Start, Goto, Shape, Types
  <2>2. Installing(p)'
    BY <2>1 DEF Installing
  <2> QED BY <1>3, <1>7, <2>2 DEF Start, Goto, Shape, Types, Busy
<1>8. ASSUME NEW p \in Procs, NEW remembered \in BOOLEAN, Gate(p, remembered) PROVE Verified'
  <2>1. CASE End(p)
    BY <1>6, <1>8, <2>1 DEF Gate
  <2>2. CASE ~End(p)
    <3>1. Goto(p, "backup") /\ UNCHANGED <<verb, target, backup, artifact, evidence, slipped>>
      BY <1>8, <2>2 DEF Gate, history
    <3>2. <<artifact[target[p]], ViewOf[target[p]]>> \in evidence
      BY <1>8, <2>2 DEF Gate
    <3>3. Installing(p)'
      BY <3>1, <3>2 DEF Goto, Shape, Types, Installing, Cleared
    <3> QED BY <1>3, <1>8, <3>1, <3>3 DEF Gate, Goto, Shape, Types
  <2> QED BY <2>1, <2>2
\* A view torn while it is backed up is another command's to fill: they overlap.
<1>9. ASSUME NEW p \in Procs, Backup(p) PROVE Verified'
  <2> DEFINE b == target[p]  view == ViewOf[b]
  <2>1. view \in Views /\ verb[p] = "active" /\ Busy(p)
    BY <1>9 DEF Backup, Shape, UnderWay, Busy
  <2>2. Filling(view) => overlap
    BY <1>9, <2>1 DEF Backup, Filling, AloneInv, Alone, Busy
  <2>3. Rightful(viewer[view], view)
    BY <2>1, <2>2 DEF Verified, Shown, Rightful
  <2>5. pc'[p] = "copy" /\ backup'[p] = viewer[view] /\ viewer' = viewer
    BY <1>9 DEF Backup, Goto, Shape, Types
  <2>6. Cleared(artifact[b], view)
    BY <1>9, <2>1 DEF Backup, Verified, Installing
  <2>7. Installing(p)'
    BY <1>9, <2>3, <2>5, <2>6 DEF Backup, Installing, Cleared, Rightful
  <2> QED BY <1>3, <1>9, <2>7 DEF Backup, Goto, Shape, Types
<1>10. ASSUME NEW p \in Procs, CopyArtifact(p) PROVE Verified'
  <2>1. pc'[p] = "fill" /\ target' = target /\ verb[p] = "active"
    BY <1>10 DEF CopyArtifact, Goto, Shape, Types, UnderWay
  <2>2. Installing(p)'
    BY <1>10, <2>1 DEF CopyArtifact, history, Verified, Installing, Cleared, Rightful
  <2>3. \A q \in Procs : Installing(q)'
    BY <1>10, <2>2, OneInstalls DEF CopyArtifact, Goto, Shape, Types
  <2>4. ASSUME NEW v \in Views PROVE Shown(v)'
    <3>1. CASE v = ViewOf[target[p]]
      BY <1>10, <2>1, <3>1 DEF CopyArtifact, Shape, Types, Shown, Filling
    <3>2. CASE v # ViewOf[target[p]]
      BY <1>10, <3>2, OneShows DEF CopyArtifact, Goto, Shape, Types
    <3> QED BY <3>1, <3>2
  <2> QED BY <1>1, <1>10, <2>3, <2>4 DEF CopyArtifact, Verified
<1>11. ASSUME NEW p \in Procs, Fill(p) PROVE Verified'
  <2> DEFINE b == target[p]  view == ViewOf[b]
             source == IF verb[p] = "active" THEN artifact[b] ELSE backup[p]
  <2>1. b \in Blocks /\ view \in Views /\ verb[p] \in {"active", "deprecated"}
    BY <1>11 DEF Fill, Shape, UnderWay, Busy
  <2>2. artifact[b] \in Contents
    BY <2>1 DEF Shape, Types
  <2>3. Rightful(source, view)
    <3>1. CASE verb[p] = "active"
      <4>1. Cleared(artifact[b], view)
        BY <1>11, <3>1 DEF Fill, Verified, Installing
      <4> QED BY <2>1, <2>2, <3>1, <4>1 DEF Cleared, Evident, EvidenceOf, Rightful
    <3>2. CASE verb[p] # "active"
      BY <1>11, <3>2 DEF Fill, Verified, Installing
    <3> QED BY <3>1, <3>2
  <2>4. viewer'[view] = source \/ (viewer'[view] = "torn" /\ overlap)
    BY <1>11, <2>1 DEF Fill, Shape, Types
  <2>5. Rightful(viewer[view], view)'
    BY <1>11, <2>3, <2>4 DEF Fill, history, Rightful
  <2>6. ASSUME NEW v \in Views PROVE Shown(v)'
    <3>1. CASE v = view
      BY <1>11, <2>5, <3>1 DEF Fill, Shown, Rightful
    <3>2. CASE v # view
      <4>1. viewer'[v] = viewer[v]
        BY <1>11, <3>2 DEF Fill, Shape, Types
      <4> QED BY <1>11, <3>2, <4>1, OneShows DEF Fill, Goto, Shape, Types
    <3> QED BY <3>1, <3>2
  <2>7. pc'[p] \in {"record", "write"}
    BY <1>11 DEF Fill, Goto, Shape, Types
  <2>8. Rightful(backup[p], view)'
    BY <1>11 DEF Fill, history, Verified, Installing, Rightful
  <2>9. Installing(p)'
    BY <1>11, <2>7, <2>8 DEF Fill, Installing
  <2>10. \A q \in Procs : Installing(q)'
    BY <1>11, <2>9, OneInstalls DEF Fill, Goto, Shape, Types
  <2> QED BY <1>1, <1>11, <2>6, <2>10 DEF Fill, Verified
<1>12. ASSUME NEW p \in Procs, RecordInstall(p) PROVE Verified'
  <2> DEFINE b == target[p]  view == ViewOf[b]
  <2>1. view \in Views /\ Rightful(backup[p], view)
    BY <1>12 DEF RecordInstall, Shape, UnderWay, Busy, Verified, Installing
  <2>2. \A v \in Views : installed'[v].backup = IF v = view THEN backup[p] ELSE installed[v].backup
    BY <1>12, <2>1 DEF RecordInstall, Shape, Types
  <2>3. \A v \in Views : Rightful(installed[v].backup, v)'
    BY <1>12, <2>1, <2>2 DEF RecordInstall, history, Verified, Rightful
  <2>4. Installing(p)'
    BY <1>12 DEF RecordInstall, Goto, Shape, Types, Installing
  <2>5. \A q \in Procs : Installing(q)'
    BY <1>12, <2>4, OneInstalls DEF RecordInstall, Goto, Shape, Types
  <2>6. \A v \in Views : Shown(v)'
    BY <1>12, OneShows DEF RecordInstall, Goto, Shape, Types
  <2> QED BY <2>3, <2>5, <2>6 DEF Verified
<1>13. ASSUME NEW p \in Procs, Consume(p) PROVE Verified'
  <2>1. Installing(p)'
    BY <1>13 DEF Consume, Goto, Shape, Types, Installing
  <2> QED BY <1>3, <1>13, <2>1 DEF Consume, Goto, Shape, Types
<1>14. ASSUME NEW p \in Procs, Restore(p) PROVE Verified'
  <2> DEFINE b == target[p]  view == ViewOf[b]
  <2>1. view \in Views /\ verb[p] = "deprecated"
    BY <1>14 DEF Restore, Shape, UnderWay, Busy
  <2>2. CASE Goto(p, "write") /\ UNCHANGED <<backup, viewer>>
    <3>1. Installing(p)'
      BY <2>2 DEF Goto, Shape, Types, Installing
    <3> QED BY <1>3, <1>14, <2>2, <3>1 DEF Restore, Goto, Shape, Types
  <2>3. CASE /\ backup' = [backup EXCEPT ![p] = installed[view].backup]
             /\ viewer' = [viewer EXCEPT ![view] = "torn"]
             /\ Goto(p, "fill")
    <3>1. pc'[p] = "fill" /\ target' = target /\ verb' = verb /\ backup'[p] = installed[view].backup
      BY <1>14, <2>3 DEF Restore, Goto, Shape, Types
    <3>2. Rightful(installed[view].backup, view)
      BY <2>1 DEF Verified
    <3>3. Installing(p)'
      BY <1>14, <2>1, <3>1, <3>2 DEF Restore, history, Installing, Rightful
    <3>4. \A q \in Procs : Installing(q)'
      BY <1>14, <2>3, <3>3, OneInstalls DEF Restore, Goto, Shape, Types
    <3>5. ASSUME NEW v \in Views PROVE Shown(v)'
      <4>1. CASE v = view
        BY <2>3, <3>1, <4>1 DEF Shape, Types, Shown, Filling
      <4>2. CASE v # view
        <5>1. viewer'[v] = viewer[v]
          BY <2>3, <4>2 DEF Shape, Types
        <5> QED BY <1>14, <2>3, <5>1, OneShows DEF Restore, Goto, Shape, Types
      <4> QED BY <4>1, <4>2
    <3> QED BY <1>1, <1>14, <3>4, <3>5 DEF Restore, Verified
  <2> QED BY <1>14, <2>2, <2>3 DEF Restore
<1>15. ASSUME NEW p \in Procs, Write(p) \/ WriteArtifact(p) PROVE Verified'
  BY <1>6, <1>15 DEF Write, WriteArtifact
<1>16. ASSUME NEW p \in Procs, Kill(p) PROVE Verified'
  <2>1. CASE pc[p] # "fill"
    BY <1>6, <1>16, <2>1 DEF Kill
  <2>2. CASE pc[p] = "fill"
    <3> DEFINE view == ViewOf[target[p]]
    <3>1. view \in cut'
      BY <1>16, <2>2 DEF Kill
    <3>2. \A q \in Procs : q # p => /\ pc'[q] = pc[q] /\ verb'[q] = verb[q]
                                    /\ target'[q] = target[q] /\ backup'[q] = backup[q]
      BY <1>16 DEF Kill, End, Goto, Shape, Types
    <3>3. Installing(p)'
      BY <1>16 DEF Kill, End, Goto, Shape, Types, Installing
    <3>4. \A q \in Procs : Installing(q)'
      BY <3>2, <3>3, OneInstalls
    <3>5. ASSUME NEW v \in Views PROVE Shown(v)'
      <4>1. viewer'[v] = viewer[v]
        BY <1>16 DEF Kill
      <4>2. CASE v = view /\ viewer[v] = "torn"
        BY <3>1, <4>1, <4>2 DEF Shown, Rightful
      <4>3. CASE v = view /\ viewer[v] # "torn"
        <5>1. Rightful(viewer[v], v)
          BY <4>3 DEF Verified, Shown
        <5> QED BY <4>1, <5>1, HistoryGrows DEF Shown, Rightful
      <4>4. CASE v # view
        BY <3>2, <4>1, <4>4, OneShows
      <4> QED BY <4>2, <4>3, <4>4
    <3> QED BY <1>1, <1>16, <3>4, <3>5 DEF Kill, Verified
  <2> QED BY <2>1, <2>2
<1> QED BY <1>2, <1>4, <1>5, <1>7, <1>8, <1>9, <1>10, <1>11, <1>12, <1>13, <1>14, <1>15, <1>16
        DEF Next, vars, VerifyReads, Edit, Answer, VerifyChecks, VerifyRecords

(* A view shows its former viewer or a design that passed verification,    *)
(* whatever commands overlap or are killed; other than these only what was *)
(* put into an artifact under a command, or a file torn by a copy that is  *)
(* under way, was killed or overlapped (validate_design_evidence, copyfile).*)
THEOREM ViewsShowVerified == Spec => []OnlyVerifiedIsInstalled
<1> DEFINE Inv == Shape /\ AloneInv /\ Evident /\ Verified
<1>1. Init => Inv
  BY ShapeInit, AloneInit, VerifiedInit
<1>2. Inv /\ [Next]_vars => Inv'
  BY ShapeStep, AloneStep, EvidentStep, VerifiedStep
<1>3. Inv => OnlyVerifiedIsInstalled
  BY DEF Verified, Shown, Rightful, Filling, OnlyVerifiedIsInstalled, MayBeTorn
<1> QED BY <1>1, <1>2, <1>3, PTL DEF Spec

-----------------------------------------------------------------------------
\* As long as no command was killed either: the record of the viewers keeps
\* for an active block what its promotion found, a promotion under way is
\* bringing that about, and a deprecation under way has put it back.
Restoring(p) ==
  LET b == target[p]  view == ViewOf[target[p]] IN
  /\ pc[p] \in {"copy", "fill", "record"} /\ verb[p] = "active" => backup[p] = before[b]
  /\ pc[p] = "fill" /\ verb[p] = "deprecated" /\ records[b] = "active" => backup[p] = before[b]
  /\ pc[p] \in {"consume", "write"} /\ verb[p] = "active"
     => installed[view].block = b /\ installed[view].backup = before[b]
  /\ /\ pc[p] = "write" /\ verb[p] = "deprecated" /\ records[b] = "active"
     /\ installed[view].block = b /\ before[b] # "none"
     => viewer[view] = before[b]

Restorable ==
  /\ \A p \in Procs : Restoring(p)
  /\ \A b \in Blocks : records[b] = "active" /\ installed[ViewOf[b]].block = b
                       => installed[ViewOf[b]].backup = before[b]

RestoreInv == overlap \/ kills > 0 \/ Restorable

LEMMA RestoreInit == Init => RestoreInv
BY DEF Init, RestoreInv, Restorable, Restoring

LEMMA KillsStay == ASSUME Shape, [Next]_vars, ~(kills' > 0) PROVE ~(kills > 0)
<1>1. kills' = kills \/ kills' = kills + 1
  BY DEF Next, vars, process, history, Generate, OpenArtifact, WriteArtifact, VerifyReads, Edit,
         Answer, Start, VerifyChecks, VerifyRecords, Gate, Backup, CopyArtifact, Fill, RecordInstall,
         Consume, Restore, Write, Kill
<1> QED BY <1>1 DEF Shape, Types

LEMMA RestoreStep == Shape /\ AloneInv /\ RestoreInv /\ [Next]_vars => RestoreInv'
<1> SUFFICES ASSUME Shape, AloneInv, RestoreInv, [Next]_vars, ~overlap', ~(kills' > 0)
             PROVE  Restorable'
  BY DEF RestoreInv
<1> USE DesignAssumption
<1>0. Alone /\ Restorable
  BY OverlapStays, KillsStay DEF AloneInv, RestoreInv
<1>1. ASSUME NEW p \in Procs, NEW b \in Blocks, Generate(p, b) PROVE Restorable'
  <2>1. \A q \in Procs : pc'[q] \in {"idle", "generate"}
    BY <1>1 DEF Generate, Overlaps, Goto, Shape, Types, Busy
  <2>2. \A c \in Blocks : records'[c] = "active" => records[c] = "active"
    BY <1>1 DEF Generate, Shape, Types
  <2> QED BY <1>0, <1>1, <2>1, <2>2 DEF Generate, Restorable, Restoring
<1>19. ASSUME NEW p \in Procs, OpenArtifact(p) PROVE Restorable'
  <2>1. \A q \in Procs : pc'[q] \in {"idle", "artifact"}
    BY <1>0, <1>19 DEF OpenArtifact, Alone, Goto, Shape, Types, Busy
  <2> QED BY <1>0, <1>19, <2>1 DEF OpenArtifact, Restorable, Restoring
<1>20. ASSUME NEW p \in Procs, WriteArtifact(p) PROVE Restorable'
  <2>1. \A q \in Procs : pc'[q] = "idle"
    BY <1>0, <1>20 DEF WriteArtifact, End, Alone, Goto, Shape, Types, Busy
  <2> QED BY <1>0, <1>20, <2>1 DEF WriteArtifact, Restorable, Restoring
<1>2. ASSUME NEW b \in Blocks, VerifyReads(b) PROVE Restorable'
  BY <1>0, <1>2 DEF VerifyReads, process, history, Restorable, Restoring
<1>3. ASSUME NEW b \in Blocks, NEW design \in Designs, Edit(b, design) PROVE Restorable'
  BY <1>0, <1>3 DEF Edit, process, Restorable, Restoring
<1>4. ASSUME NEW b \in Blocks, NEW answer \in {"approved", "denied"}, Answer(b, answer) PROVE Restorable'
  BY <1>0, <1>4 DEF Answer, process, history, Restorable, Restoring
<1>5. ASSUME NEW b \in Blocks, NEW p \in Procs, NEW to \in States, Start(p, to, b) PROVE Restorable'
  <2>1. pc'[p] \in {"gate", "restore"} \/ (pc'[p] = "write" /\ verb'[p] = "registered")
    BY <1>5 DEF Start, Goto, Allowed, Shape, Types, States
  <2>2. \A q \in Procs : q # p => pc'[q] = "idle"
    BY <1>5 DEF Start, Overlaps, Goto, Shape, Types, Busy
  <2> QED BY <1>0, <1>5, <2>1, <2>2 DEF Start, Restorable, Restoring
<1>6. CASE VerifyChecks
  BY <1>0, <1>6 DEF VerifyChecks, process, history, Restorable, Restoring
<1>7. CASE VerifyRecords
  BY <1>0, <1>7 DEF VerifyRecords, process, history, Restorable, Restoring
<1>9. ASSUME NEW p \in Procs, Busy(p)
      PROVE  /\ \A q \in Procs : q # p => pc[q] = "idle"
             /\ target[p] \in Blocks /\ ViewOf[target[p]] \in Views
             /\ verb[p] = "active" => records[target[p]] = "registered"
  <2>1. \A q \in Procs : q # p => pc[q] = "idle"
    BY <1>0, <1>9 DEF Alone, Busy
  <2>2. target[p] \in Blocks /\ records[target[p]] \in States \cup {"none"}
    BY <1>9 DEF Shape, Types, UnderWay
  <2>3. verb[p] = "active" => records[target[p]] = "registered"
    BY <1>0, <1>9, <2>2 DEF Alone, Promoting, Allowed, States
  <2> QED BY <2>1, <2>2, <2>3
<1>10. ASSUME NEW p \in Procs, NEW remembered \in BOOLEAN, Gate(p, remembered) PROVE Restorable'
  <2>1. \A q \in Procs : pc'[q] \in {"idle", "backup"}
    <3>1. \A q \in Procs : q # p => pc[q] = "idle"
      BY <1>9, <1>10 DEF Gate, Busy
    <3>2. Goto(p, "idle") \/ Goto(p, "backup")
      BY <1>10 DEF Gate, End
    <3>3. pc' = [pc EXCEPT ![p] = "idle"] \/ pc' = [pc EXCEPT ![p] = "backup"]
      BY <3>2 DEF Goto
    <3>4. pc \in [Procs -> Steps]
      BY DEF Shape, Types
    <3> QED BY <3>1, <3>3, <3>4
  <2> QED BY <1>0, <1>10, <2>1 DEF Gate, history, Restorable, Restoring
<1>11. ASSUME NEW p \in Procs, Backup(p) PROVE Restorable'
  <2> DEFINE b == target[p]
  <2>1. \A q \in Procs : q # p => pc'[q] = "idle"
    BY <1>9, <1>11 DEF Backup, Goto, Shape, Types, Busy
  <2>2. b \in Blocks /\ records[b] = "registered"
    BY <1>9, <1>11 DEF Backup, Shape, UnderWay, Busy
  <2>3. /\ pc'[p] = "copy" /\ backup'[p] = before'[b]
        /\ \A c \in Blocks : c # b => before'[c] = before[c]
    BY <1>11, <2>2 DEF Backup, Goto, Shape, Types
  <2> QED BY <1>0, <1>11, <2>1, <2>2, <2>3 DEF Backup, Restorable, Restoring
<1>12. ASSUME NEW p \in Procs, CopyArtifact(p) PROVE Restorable'
  <2>1. /\ \A q \in Procs : q # p => pc'[q] = "idle"
        /\ pc[p] = "copy" /\ pc'[p] = "fill" /\ verb[p] = "active"
    BY <1>9, <1>12 DEF UnderWay, CopyArtifact, Goto, Shape, Types, Busy
  <2> QED BY <1>0, <1>12, <2>1 DEF CopyArtifact, history, Restorable, Restoring
<1>13. ASSUME NEW p \in Procs, RecordInstall(p) PROVE Restorable'
  <2> DEFINE b == target[p]
  <2>1. /\ \A q \in Procs : q # p => pc'[q] = "idle"
        /\ pc'[p] = "consume"
    BY <1>9, <1>13 DEF RecordInstall, Goto, Shape, Types, Busy
  <2>2. b \in Blocks /\ ViewOf[b] \in Views /\ records[b] = "registered" /\ backup[p] = before[b]
    BY <1>0, <1>9, <1>13 DEF RecordInstall, Shape, UnderWay, Busy, Restorable, Restoring
  <2>3. /\ installed'[ViewOf[b]] = [block |-> b, backup |-> before[b]]
        /\ \A v \in Views : v # ViewOf[b] => installed'[v] = installed[v]
    BY <1>13, <2>2 DEF RecordInstall, Shape, Types
  <2>4. \A q \in Procs : Restoring(q)'
    BY <1>13, <2>1, <2>3 DEF RecordInstall, history, Restoring
  <2>5. ASSUME NEW c \in Blocks, records[c] = "active", installed'[ViewOf[c]].block = c
        PROVE  installed'[ViewOf[c]].backup = before[c]
    <3>1. ViewOf[c] \in Views /\ c # b
      BY <2>2, <2>5
    <3>2. ViewOf[c] # ViewOf[b]
      BY <2>3, <2>5, <3>1
    <3> QED BY <1>0, <2>3, <2>5, <3>1, <3>2 DEF Restorable
  <2> QED BY <1>13, <2>4, <2>5 DEF RecordInstall, history, Restorable
<1>14. ASSUME NEW p \in Procs, Consume(p) PROVE Restorable'
  <2>1. /\ \A q \in Procs : q # p => pc'[q] = "idle"
        /\ pc'[p] = "write" /\ pc[p] = "consume" /\ verb[p] = "active"
    BY <1>9, <1>14 DEF Consume, Goto, Shape, Types, Busy, UnderWay
  <2> QED BY <1>0, <1>14, <2>1 DEF Consume, history, Restorable, Restoring
<1>15. ASSUME NEW p \in Procs, Restore(p) PROVE Restorable'
  <2> DEFINE b == target[p]  view == ViewOf[b]
  <2>1. /\ \A q \in Procs : q # p => pc'[q] = "idle"
        /\ b \in Blocks /\ view \in Views /\ verb[p] = "deprecated"
    BY <1>9, <1>15 DEF Restore, Goto, Shape, Types, Busy, UnderWay
  <2>2. records[b] = "active" /\ installed[view].block = b => installed[view].backup = before[b]
    BY <1>0, <2>1 DEF Restorable
  <2>3. \/ pc'[p] = "fill" /\ installed[view].block = b /\ backup'[p] = installed[view].backup
        \/ pc'[p] = "write" /\ (installed[view].block = b => installed[view].backup = "none")
    BY <1>15 DEF Restore, Goto, Shape, Types
  <2>4. Restoring(p)'
    BY <1>15, <2>1, <2>2, <2>3 DEF Restore, history, Restoring
  <2> QED BY <1>0, <1>15, <2>1, <2>4 DEF Restore, history, Restorable, Restoring
<1>21. ASSUME NEW p \in Procs, Fill(p) PROVE Restorable'
  <2> DEFINE b == target[p]  view == ViewOf[b]
  <2>1. /\ \A q \in Procs : q # p => pc'[q] = "idle"
        /\ b \in Blocks /\ view \in Views /\ verb[p] \in {"active", "deprecated"}
    BY <1>9, <1>21 DEF Fill, Goto, Shape, Types, Busy, UnderWay
  <2>2. pc'[p] = IF verb[p] = "active" THEN "record" ELSE "write"
    BY <1>21 DEF Fill, Goto, Shape, Types
  <2>3. verb[p] = "deprecated" => viewer'[view] = backup[p]
    BY <1>21, <2>1 DEF Fill, history, Shape, Types
  <2>4. Restoring(p)'
    BY <1>0, <1>21, <2>1, <2>2, <2>3 DEF Fill, history, Restorable, Restoring
  <2> QED BY <1>0, <1>21, <2>1, <2>4 DEF Fill, history, Restorable, Restoring
<1>16. ASSUME NEW p \in Procs, Write(p) PROVE Restorable'
  <2> DEFINE b == target[p]  view == ViewOf[b]
  <2>1. \A q \in Procs : pc'[q] = "idle"
    BY <1>9, <1>16 DEF Write, End, Goto, Shape, Types, Busy
  <2>2. b \in Blocks /\ snapshot[p] = records
    BY <1>0, <1>9, <1>16 DEF Write, Busy, Shape, UnderWay, Alone, Promoting
  <2>3. \A c \in Blocks : /\ records'[c] = IF c = b THEN verb[p] ELSE records[c]
                          /\ c # b \/ verb[p] = "active" => before'[c] = before[c]
    BY <1>16, <2>2 DEF Write, Shape, Types
  <2>4. ASSUME NEW c \in Blocks, records'[c] = "active", installed[ViewOf[c]].block = c
        PROVE  installed[ViewOf[c]].backup = before'[c]
    <3>1. CASE c = b
      BY <1>0, <1>16, <2>3, <2>4, <3>1 DEF Write, Restorable, Restoring
    <3>2. CASE c # b
      BY <1>0, <2>3, <2>4, <3>2 DEF Restorable
    <3> QED BY <3>1, <3>2
  <2> QED BY <1>16, <2>1, <2>4 DEF Write, Restorable, Restoring
<1>17. ASSUME NEW p \in Procs, Kill(p) PROVE Restorable'
  BY <1>17 DEF Kill, Shape, Types
<1>18. CASE UNCHANGED vars
  BY <1>0, <1>18 DEF vars, process, history, Restorable, Restoring
<1> QED BY <1>1, <1>2, <1>3, <1>4, <1>5, <1>6, <1>7, <1>10, <1>11, <1>12, <1>13, <1>14, <1>15,
           <1>16, <1>17, <1>18, <1>19, <1>20, <1>21 DEF Next

(* Deprecating the design a view shows brings back what its promotion      *)
(* found there, if there was a viewer and no command was killed and none   *)
(* overlapped (restore_design_viewer).                                     *)
THEOREM DeprecationRestores == Spec => DeprecateRestores
<1> DEFINE Inv == Shape /\ AloneInv /\ RestoreInv
           Restores == \A p \in Procs :
             LET b == target[p] IN
             /\ pc[p] = "write" /\ pc'[p] = "idle" /\ records' # records
             /\ verb[p] = "deprecated" /\ snapshot[p][b] = "active"
             /\ installed[ViewOf[b]].block = b /\ before[b] # "none" /\ kills = 0 /\ ~overlap
             => viewer[ViewOf[b]] = before[b]
<1>1. Init => Inv
  BY ShapeInit, AloneInit, RestoreInit
<1>2. Inv /\ [Next]_vars => Inv'
  BY ShapeStep, AloneStep, RestoreStep
<1>3. Inv => [Restores]_vars
  <2> SUFFICES ASSUME Inv, NEW p \in Procs, pc[p] = "write", verb[p] = "deprecated",
                      snapshot[p][target[p]] = "active", installed[ViewOf[target[p]]].block = target[p],
                      before[target[p]] # "none", kills = 0, ~overlap
               PROVE  viewer[ViewOf[target[p]]] = before[target[p]]
    OBVIOUS
  <2>1. Alone /\ Restorable
    BY DEF AloneInv, RestoreInv
  <2>2. snapshot[p] = records
    BY <2>1 DEF Alone, Promoting, Busy
  <2> QED BY <2>1, <2>2 DEF Restorable, Restoring
<1> QED BY <1>1, <1>2, <1>3, PTL DEF Spec, DeprecateRestores

=============================================================================
