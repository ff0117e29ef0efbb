------------------------- MODULE ApprovalStoreProofs -------------------------
(***************************************************************************)
(* Two facts about approvals.json, for any processes, ids and plans and on *)
(* either platform.  However commands overlap, what is approved on the     *)
(* disk was typed by a teacher, because that holds of every list in any    *)
(* file or memory.  As long as none overlap, the files implement the       *)
(* atomic ledger: the one command at work holds what its own change makes  *)
(* of the file as it is.                                                   *)
(***************************************************************************)
EXTENDS ApprovalStore, TLAPS

USE DEF L!Ledger, L!Record, L!Statuses, L!Actors, L!Exists, L!NoRecord

Steps == {"idle", "load", "open", "write", "replace"}
Handles == {"none", "tmp", "file", "orphan"}
Used == {"approved", "consumed"}

-----------------------------------------------------------------------------
(* What a file or a process may hold, and how commands change a list.      *)

LEMMA ParsedIsLedger == ASSUME NEW c \in Contents PROVE Parsed(c) \in L!Ledger
BY DEF Contents, Parsed

LEMMA ParsedOfLedger == ASSUME NEW recs \in L!Ledger PROVE Parsed(recs) = recs
BY FileAssumption DEF Parsed

(* A command that was accepted makes a ledger of a ledger, and uses an     *)
(* approval only if a teacher types it or it is consumed.                  *)
LEMMA UpdatedLemma ==
  ASSUME NEW recs \in L!Ledger, NEW c \in Command, c.op # "check", Accepts(recs, c)
  PROVE  /\ Updated(recs, c) \in L!Ledger
         /\ \A id \in ApprovalIds :
              Updated(recs, c)[id].status \in Used =>
                \/ recs[id].status \in Used
                \/ id \in TypedBy(c)
                \/ c.op = "consume" /\ id = c.id
<1> USE StoreAssumption DEF Command, Used
<1>1. CASE c.op = "ensure"
  BY <1>1 DEF Updated, L!EnsureIn
<1>2. CASE c.op = "approve"
  <2>1. c.actor \in Teachers
    BY <1>2 DEF Accepts, L!MayApprove
  <2> QED BY <1>2, <2>1 DEF Updated, L!ApproveIn, TypedBy
<1>3. CASE c.op = "deny"
  BY <1>3 DEF Updated, L!DenyIn
<1>4. CASE c.op = "consume"
  BY <1>4 DEF Updated, L!ConsumeIn
<1> QED BY <1>1, <1>2, <1>3, <1>4

-----------------------------------------------------------------------------
(* The sets the variables range over.                                      *)

\* What a command in progress may rely on: it is one that makes sense.
Sensible(c) ==
  /\ c \in Command
  /\ c.op = "consume" => <<c.id, c.plan>> \in cleared

Shape ==
  /\ file \in Contents /\ tmp \in Contents
  /\ pc \in [Procs -> Steps]
  /\ cmd \in [Procs -> Command \cup {NoCommand}]
  /\ \A p \in Procs : pc[p] # "idle" => Sensible(cmd[p])
  /\ \A p \in Procs : pc[p] \in {"open", "write", "replace"} => cmd[p].op # "check"
  /\ snap \in [Procs -> Contents]
  /\ handle \in [Procs -> Handles]
  /\ started \in 0..MaxCommands /\ overlap \in BOOLEAN
  /\ cleared \subseteq ApprovalIds \X Plans
  /\ typed \subseteq ApprovalIds /\ granted \subseteq ApprovalIds

LEMMA ShapeInit == Init => Shape
<1> SUFFICES ASSUME Init PROVE Shape OBVIOUS
<1>1. started \in 0..MaxCommands
  BY StoreAssumption DEF Init
<1>2. snap \in [Procs -> Contents] /\ file \in Contents /\ tmp \in Contents
  BY DEF Init, Contents
<1>3. cmd \in [Procs -> Command \cup {NoCommand}] /\ pc \in [Procs -> Steps] /\ handle \in [Procs -> Handles]
  BY DEF Init, Steps, Handles
<1> QED BY <1>1, <1>2, <1>3 DEF Init, Shape

LEMMA ExitShape ==
  ASSUME Shape, NEW p \in Procs, Exits(p), cleared \subseteq cleared'
  PROVE  /\ pc' \in [Procs -> Steps]
         /\ cmd' \in [Procs -> Command \cup {NoCommand}]
         /\ snap' \in [Procs -> Contents]
         /\ \A q \in Procs : pc'[q] # "idle" => Sensible(cmd[q])'
         /\ \A q \in Procs : pc'[q] \in {"open", "write", "replace"} => cmd'[q].op # "check"
<1> USE DEF Shape, Exits, Steps, Sensible
<1>1. pc' \in [Procs -> Steps] /\ cmd' \in [Procs -> Command \cup {NoCommand}]
  OBVIOUS
<1>2. snap' \in [Procs -> Contents]
  BY DEF Contents
<1>3. \A q \in Procs : pc'[q] # "idle" => q # p /\ pc'[q] = pc[q] /\ cmd'[q] = cmd[q]
  OBVIOUS
<1> QED BY <1>1, <1>2, <1>3

LEMMA ShapeStep == Shape /\ [Next]_vars => Shape'
<1> SUFFICES ASSUME Shape, [Next]_vars PROVE Shape' OBVIOUS
<1> USE DEF Shape
<1>1. ASSUME NEW p \in Procs, Start(p) PROVE Shape'
  <2>1. PICK c \in Runnable : cmd' = [cmd EXCEPT ![p] = c]
    BY <1>1 DEF Start
  <2>2. Sensible(c)
    BY <2>1 DEF Runnable, Sensible
  <2>3. started' \in 0..MaxCommands /\ overlap' \in BOOLEAN
    BY <1>1, StoreAssumption DEF Start
  <2>4. pc' \in [Procs -> Steps] /\ cmd' \in [Procs -> Command \cup {NoCommand}]
    BY <1>1, <2>1, <2>2 DEF Start, Steps, Sensible
  <2>5. \A q \in Procs : /\ pc'[q] # "idle" => Sensible(cmd[q])'
                         /\ pc'[q] \in {"open", "write", "replace"} => cmd'[q].op # "check"
    BY <1>1, <2>1, <2>2 DEF Start, Sensible, Steps
  <2> QED BY <1>1, <2>3, <2>4, <2>5 DEF Start
<1>2. ASSUME NEW p \in Procs, Check(p) PROVE Shape'
  <2>1. cleared \subseteq cleared' /\ cleared' \subseteq ApprovalIds \X Plans
    BY <1>2 DEF Check, Sensible, Command
  <2> QED BY <1>2, <2>1, ExitShape DEF Check
<1>3. ASSUME NEW p \in Procs, Load(p) PROVE Shape'
  <2>1. cmd[p] \in Command /\ cmd[p].op # "check" /\ Parsed(file) \in L!Ledger
    BY <1>3, ParsedIsLedger DEF Load, Sensible
  <2>2. CASE Accepts(Parsed(file), cmd[p])
    <3>1. Updated(Parsed(file), cmd[p]) \in L!Ledger
      BY <2>1, <2>2, UpdatedLemma
    <3>2. snap' \in [Procs -> Contents]
      BY <1>3, <2>2, <3>1 DEF Load, Contents
    <3>3. typed' \subseteq ApprovalIds
      BY <1>3, <2>1, <2>2 DEF Load, TypedBy, Command
    <3>4. pc' \in [Procs -> Steps]
      BY <1>3, <2>2 DEF Load, Steps
    <3>5. \A q \in Procs : /\ pc'[q] # "idle" => Sensible(cmd[q])'
                           /\ pc'[q] \in {"open", "write", "replace"} => cmd'[q].op # "check"
      BY <1>3, <2>1, <2>2 DEF Load, Sensible, Steps
    <3> QED BY <1>3, <2>2, <3>2, <3>3, <3>4, <3>5 DEF Load
  <2>3. CASE ~Accepts(Parsed(file), cmd[p])
    BY <1>3, <2>3, ExitShape DEF Load
  <2> QED BY <2>2, <2>3
<1>4. ASSUME NEW p \in Procs, OpenTmp(p) PROVE Shape'
  BY <1>4 DEF OpenTmp, Contents, Steps, Handles, Sensible
<1>5. ASSUME NEW p \in Procs, WriteTmp(p) PROVE Shape'
  BY <1>5 DEF WriteTmp, Steps, Handles, Sensible
<1>6. ASSUME NEW p \in Procs, Replace(p) PROVE Shape'
  <2>1. granted' \subseteq ApprovalIds
    <3>1. cmd[p].id \in ApprovalIds
      BY <1>6 DEF Replace, Sensible, Command
    <3>2. TypedBy(cmd[p]) \subseteq ApprovalIds
      BY <3>1 DEF TypedBy
    <3> QED BY <1>6, <3>2 DEF Replace
  <2>2. handle' \in [Procs -> Handles]
    BY <1>6 DEF Replace, Handles
  <2>3. file' \in Contents /\ tmp' \in Contents
    BY <1>6 DEF Replace, Contents
  <2> QED BY <1>6, <2>1, <2>2, <2>3, ExitShape DEF Replace
<1>7. ASSUME NEW p \in Procs, Crash(p) PROVE Shape'
  BY <1>7, ExitShape DEF Crash, Handles
<1>8. CASE UNCHANGED vars
  BY <1>8 DEF vars, Sensible
<1> QED BY <1>1, <1>2, <1>3, <1>4, <1>5, <1>6, <1>7, <1>8 DEF Next

-----------------------------------------------------------------------------
(* What a teacher typed.                                                   *)

\* Whatever a list shows as approved or used up was typed.
Typed(contents) ==
  \A id \in ApprovalIds : Parsed(contents)[id].status \in Used => id \in typed

TypedInv ==
  /\ Typed(file) /\ Typed(tmp)
  /\ \A p \in Procs : Typed(snap[p])
  /\ \A id \in ApprovalIds, plan \in Plans : <<id, plan>> \in cleared => id \in typed

LEMMA UnreadableIsTyped == Typed(Torn) /\ Typed(Missing)
BY DEF Typed, Parsed, Used

LEMMA TypedGrows ==
  ASSUME typed \subseteq typed', NEW contents, Typed(contents)
  PROVE  \A id \in ApprovalIds : Parsed(contents)[id].status \in Used => id \in typed'
BY DEF Typed

LEMMA TypedStep == Shape /\ TypedInv /\ [Next]_vars => TypedInv'
<1> SUFFICES ASSUME Shape, TypedInv, [Next]_vars PROVE TypedInv' OBVIOUS
<1>1. ASSUME NEW p \in Procs, Start(p) PROVE TypedInv'
  BY <1>1 DEF Start, TypedInv, Typed
<1>2. ASSUME NEW p \in Procs, Check(p) PROVE TypedInv'
  <2>1. \A id \in ApprovalIds, plan \in Plans : <<id, plan>> \in cleared' => id \in typed
    BY <1>2 DEF Check, TypedInv, Typed, L!HasStatus, Used
  <2>2. \A q \in Procs : Typed(snap'[q])
    BY <1>2, UnreadableIsTyped DEF Check, Exits, Shape, TypedInv
  <2> QED BY <1>2, <2>1, <2>2 DEF Check, TypedInv, Typed
<1>3. ASSUME NEW p \in Procs, Load(p) PROVE TypedInv'
  <2>1. CASE Accepts(Parsed(file), cmd[p])
    <3> DEFINE new == Updated(Parsed(file), cmd[p])
    <3>1. cmd[p] \in Command /\ cmd[p].op # "check" /\ Parsed(file) \in L!Ledger
      BY <1>3, ParsedIsLedger DEF Load, Shape, Sensible
    <3>2. new \in L!Ledger /\ Parsed(new) = new
      BY <2>1, <3>1, UpdatedLemma, ParsedOfLedger
    <3>3. typed' = typed \cup TypedBy(cmd[p]) /\ snap' = [snap EXCEPT ![p] = new]
      BY <1>3, <2>1 DEF Load
    <3>4. cmd[p].op = "consume" => cmd[p].id \in typed
      BY <1>3 DEF Load, Shape, Sensible, Command, TypedInv
    <3>5. \A id \in ApprovalIds : new[id].status \in Used => id \in typed'
      BY <2>1, <3>1, <3>3, <3>4, UpdatedLemma DEF TypedInv, Typed
    <3> HIDE DEF new
    <3>6. \A q \in Procs : Typed(snap[q])'
      BY <3>2, <3>3, <3>5 DEF Shape, TypedInv, Typed
    <3> QED BY <1>3, <3>3, <3>6 DEF Load, TypedInv, Typed
  <2>2. CASE ~Accepts(Parsed(file), cmd[p])
    <3>1. \A q \in Procs : Typed(snap'[q])
      BY <1>3, <2>2, UnreadableIsTyped DEF Load, Exits, Shape, TypedInv
    <3> QED BY <1>3, <2>2, <3>1 DEF Load, TypedInv, Typed
  <2> QED BY <2>1, <2>2
<1>4. ASSUME NEW p \in Procs, OpenTmp(p) PROVE TypedInv'
  BY <1>4, UnreadableIsTyped DEF OpenTmp, TypedInv, Typed
<1>5. ASSUME NEW p \in Procs, WriteTmp(p) PROVE TypedInv'
  BY <1>5 DEF WriteTmp, TypedInv, Typed
<1>6. ASSUME NEW p \in Procs, Replace(p) PROVE TypedInv'
  <2>1. \A q \in Procs : Typed(snap'[q])
    BY <1>6, UnreadableIsTyped DEF Replace, Exits, Shape, TypedInv
  <2>2. Typed(file') /\ Typed(tmp')
    BY <1>6, UnreadableIsTyped DEF Replace, TypedInv
  <2> QED BY <1>6, <2>1, <2>2 DEF Replace, TypedInv, Typed
<1>7. ASSUME NEW p \in Procs, Crash(p) PROVE TypedInv'
  <2>1. \A q \in Procs : Typed(snap'[q])
    BY <1>7, UnreadableIsTyped DEF Crash, Exits, Shape, TypedInv
  <2> QED BY <1>7, <2>1 DEF Crash, TypedInv, Typed
<1>8. CASE UNCHANGED vars
  BY <1>8 DEF vars, TypedInv, Typed
<1> QED BY <1>1, <1>2, <1>3, <1>4, <1>5, <1>6, <1>7, <1>8 DEF Next

LEMMA TypedInit == Init => TypedInv
BY UnreadableIsTyped DEF Init, TypedInv

(* The files hold ledgers or nothing readable, and the commands are        *)
(* between the steps of _save_records.                                     *)
THEOREM TypeCorrect == Spec => []TypeOK
<1>1. Shape => TypeOK
  BY DEF Shape, TypeOK, Steps, Handles
<1> QED BY ShapeInit, ShapeStep, <1>1, PTL DEF Spec

(* No overlap of commands makes up an approval: what is approved or        *)
(* consumed on the disk, a teacher typed (approve_request).                *)
THEOREM NothingIsMadeUp == Spec => []UsedOnlyIfTyped
<1>1. Init => Shape /\ TypedInv
  BY ShapeInit, TypedInit
<1>2. Shape /\ TypedInv /\ [Next]_vars => (Shape /\ TypedInv)'
  BY ShapeStep, TypedStep
<1>3. TypedInv => UsedOnlyIfTyped
  BY DEF TypedInv, Typed, UsedOnlyIfTyped, Used
<1> QED BY <1>1, <1>2, <1>3, PTL DEF Spec

-----------------------------------------------------------------------------
(* One command at a time.                                                  *)

\* The change a command that works alone is bringing to the disk.
Change(p) == Updated(Parsed(file), cmd[p])

Saving(p) ==
  /\ pc[p] \in {"open", "write", "replace"} =>
       Accepts(Parsed(file), cmd[p]) /\ snap[p] = Change(p)
  /\ pc[p] = "write" => handle[p] = "tmp"
  /\ pc[p] # "write" => handle[p] = "none"
  /\ pc[p] = "replace" => tmp = snap[p]

Alone ==
  /\ \A p, q \in Procs : pc[p] # "idle" /\ pc[q] # "idle" => p = q
  /\ \A p \in Procs : Saving(p)

AloneInv == overlap \/ Alone

LEMMA AloneInit == Init => AloneInv
BY DEF Init, AloneInv, Alone, Saving

\* A command that exits leaves no file open, and nobody is at work.
LEMMA ExitAlone ==
  ASSUME Shape, Alone, NEW p \in Procs, pc[p] # "idle", Exits(p),
         \A q \in Procs : handle'[q] = "none"
  PROVE  Alone'
<1>1. \A q \in Procs : pc'[q] = "idle"
  BY DEF Exits, Shape, Alone
<1> QED BY <1>1 DEF Alone, Saving

\* A command that goes on: the others do not move.
LEMMA StepAlone ==
  ASSUME Shape, Alone, NEW p \in Procs, pc[p] # "idle", NEW step, step # "idle",
         pc' = [pc EXCEPT ![p] = step], \A q \in Procs : q # p => handle'[q] = handle[q],
         Saving(p)'
  PROVE  Alone'
<1>1. \A q \in Procs : q # p => pc[q] = "idle" /\ pc'[q] = "idle"
  BY DEF Shape, Alone
<1>2. \A q \in Procs : Saving(q)'
  BY <1>1 DEF Alone, Saving
<1> QED BY <1>1, <1>2 DEF Alone

LEMMA AloneStep == Shape /\ AloneInv /\ [Next]_vars => AloneInv'
<1> SUFFICES ASSUME Shape, AloneInv, [Next]_vars, ~overlap' PROVE Alone'
  BY DEF AloneInv
<1>0. Alone
  BY DEF AloneInv, Next, vars, Start, Check, Load, OpenTmp, WriteTmp, Replace, Crash
<1>1. ASSUME NEW p \in Procs, Start(p) PROVE Alone'
  <2>1. \A q \in Procs : pc[q] = "idle"
    BY <1>1 DEF Start, Active
  <2>2. pc'[p] = "load" /\ \A q \in Procs : q # p => pc'[q] = "idle"
    BY <1>1, <2>1 DEF Start, Shape
  <2>3. \A q \in Procs : handle'[q] = "none"
    BY <1>0, <1>1, <2>1 DEF Start, Alone, Saving
  <2> QED BY <2>2, <2>3 DEF Alone, Saving
<1>2. ASSUME NEW p \in Procs, pc[p] # "idle", pc[p] # "write"
      PROVE  \A q \in Procs : handle[q] = "none"
  BY <1>0, <1>2 DEF Alone, Saving
<1>3. ASSUME NEW p \in Procs, Check(p) PROVE Alone'
  BY <1>0, <1>2, <1>3, ExitAlone DEF Check
<1>4. ASSUME NEW p \in Procs, Load(p) PROVE Alone'
  <2>1. CASE Accepts(Parsed(file), cmd[p])
    <3>1. snap'[p] = Change(p) /\ pc'[p] = "open" /\ UNCHANGED <<file, cmd, handle>>
      BY <1>4, <2>1 DEF Load, Shape, Change
    <3>2. Saving(p)'
      BY <1>2, <1>4, <2>1, <3>1 DEF Load, Saving, Change
    <3> QED BY <1>0, <1>4, <2>1, <3>1, <3>2, StepAlone DEF Load
  <2>2. CASE ~Accepts(Parsed(file), cmd[p])
    BY <1>0, <1>2, <1>4, <2>2, ExitAlone DEF Load
  <2> QED BY <2>1, <2>2
<1>5. ASSUME NEW p \in Procs, OpenTmp(p) PROVE Alone'
  <2>1. Saving(p)'
    BY <1>0, <1>5 DEF OpenTmp, Shape, Alone, Saving, Change
  <2>2. /\ pc[p] # "idle" /\ pc' = [pc EXCEPT ![p] = "write"]
        /\ \A q \in Procs : q # p => handle'[q] = handle[q]
    BY <1>5 DEF OpenTmp, Shape
  <2> QED BY <1>0, <2>1, <2>2, StepAlone
<1>6. ASSUME NEW p \in Procs, WriteTmp(p) PROVE Alone'
  <2>1. Saving(p)'
    BY <1>0, <1>6 DEF WriteTmp, Shape, Alone, Saving, Change
  <2>2. /\ pc[p] # "idle" /\ pc' = [pc EXCEPT ![p] = "replace"]
        /\ \A q \in Procs : q # p => handle'[q] = handle[q]
    BY <1>6 DEF WriteTmp, Shape
  <2> QED BY <1>0, <2>1, <2>2, StepAlone
<1>7. ASSUME NEW p \in Procs, Replace(p) PROVE Alone'
  <2>1. \A q \in Procs : handle'[q] = "none"
    BY <1>2, <1>7 DEF Replace, Shape
  <2> QED BY <1>0, <1>7, <2>1, ExitAlone DEF Replace
<1>8. ASSUME NEW p \in Procs, Crash(p) PROVE Alone'
  <2>1. \A q \in Procs : handle'[q] = "none"
    BY <1>0, <1>8 DEF Crash, Shape, Alone, Saving
  <2> QED BY <1>0, <1>8, <2>1, ExitAlone DEF Crash
<1>9. CASE UNCHANGED vars
  BY <1>0, <1>9 DEF vars, Alone, Saving, Change
<1> QED BY <1>1, <1>3, <1>4, <1>5, <1>6, <1>7, <1>8, <1>9 DEF Next

-----------------------------------------------------------------------------
(* The refinement: only Check and Replace are seen in the ledger.          *)

\* The rename is the ledger function the command stands for.
LEMMA ReplaceIsLedgerStep ==
  ASSUME Shape, Alone, NEW p \in Procs, Replace(p)
  PROVE  L!Next \/ UNCHANGED L!vars
<1> DEFINE c == cmd[p]
<1>1. Sensible(c) /\ c.op # "check" /\ Parsed(file) \in L!Ledger
  BY ParsedIsLedger DEF Replace, Shape
<1>2. Accepts(Parsed(file), c) /\ snap[p] = Updated(Parsed(file), c) /\ tmp = snap[p]
  BY DEF Replace, Alone, Saving, Change
<1>3. CASE ~CanReplace
  BY <1>3 DEF Replace, L!vars
<1>4. CASE CanReplace
  <2>1. /\ Parsed(file)' = Updated(Parsed(file), c)
        /\ cleared' = cleared /\ granted' = granted \cup TypedBy(c)
    <3>1. file' = Updated(Parsed(file), c)
      BY <1>2, <1>4 DEF Replace
    <3>2. Updated(Parsed(file), c) \in L!Ledger
      BY <1>1, <1>2, UpdatedLemma DEF Sensible
    <3>3. Parsed(file') = Updated(Parsed(file), c)
      BY <3>1, <3>2, ParsedOfLedger
    <3> QED BY <1>4, <3>3 DEF Replace
  <2>2. c.id \in ApprovalIds /\ c.plan \in Plans /\ c.actor \in L!Actors
    BY <1>1 DEF Sensible, Command
  <2> HIDE DEF c
  <2>3. CASE c.op = "ensure"
    <3>1. L!EnsureRequest(c.plan)
      BY <2>1, <2>3 DEF L!EnsureRequest, Updated, TypedBy
    <3> QED BY <2>2, <3>1 DEF L!Next
  <2>4. CASE c.op = "approve"
    <3>1. L!Approve(c.id, c.actor)
      BY <1>2, <2>1, <2>4 DEF L!Approve, Updated, Accepts, TypedBy
    <3> QED BY <2>2, <3>1 DEF L!Next
  <2>5. CASE c.op = "deny"
    <3>1. L!Deny(c.id, c.actor)
      BY <1>2, <2>1, <2>5 DEF L!Deny, Updated, Accepts, TypedBy
    <3> QED BY <2>2, <3>1 DEF L!Next
  <2>6. CASE c.op = "consume"
    <3>1. L!Consume(c.id, c.plan)
      BY <1>1, <2>1, <2>6 DEF L!Consume, Updated, TypedBy, Sensible
    <3> QED BY <2>2, <3>1 DEF L!Next
  <2> QED BY <1>1, <2>3, <2>4, <2>5, <2>6 DEF Sensible, Command
<1> QED BY <1>3, <1>4

LEMMA EveryStepIsLedgerStep ==
  Shape /\ AloneInv /\ [Next]_vars => [L!Next \/ overlap']_(L!vars)
<1> SUFFICES ASSUME Shape, AloneInv, [Next]_vars, ~overlap'
             PROVE  L!Next \/ UNCHANGED L!vars
  OBVIOUS
<1>0. Alone
  BY DEF AloneInv, Next, vars, Start, Check, Load, OpenTmp, WriteTmp, Replace, Crash
<1>1. ASSUME NEW p \in Procs, Check(p) PROVE L!Next \/ UNCHANGED L!vars
  <2> DEFINE c == cmd[p]
  <2>1. c.id \in ApprovalIds /\ c.plan \in Plans
    BY <1>1 DEF Check, Shape, Sensible, Command
  <2>2. CASE L!HasStatus(Parsed(file), c.id, c.plan, "approved")
    <3>1. L!Clear(c.id, c.plan)
      BY <1>1, <2>2 DEF Check, L!Clear
    <3> QED BY <2>1, <3>1 DEF L!Next
  <2>3. CASE ~L!HasStatus(Parsed(file), c.id, c.plan, "approved")
    BY <1>1, <2>3 DEF Check, L!vars
  <2> QED BY <2>2, <2>3
<1>2. ASSUME NEW p \in Procs, Replace(p) PROVE L!Next \/ UNCHANGED L!vars
  BY <1>0, <1>2, ReplaceIsLedgerStep
<1>3. ASSUME NEW p \in Procs, WriteTmp(p) PROVE UNCHANGED L!vars
  BY <1>0, <1>3 DEF WriteTmp, Alone, Saving, L!vars
<1>4. ASSUME NEW p \in Procs, Start(p) \/ Load(p) \/ OpenTmp(p) \/ Crash(p) PROVE UNCHANGED L!vars
  BY <1>4 DEF Start, Load, OpenTmp, Crash, L!vars
<1> QED BY <1>1, <1>2, <1>3, <1>4 DEF Next, vars, L!vars

(* As long as no two commands overlap, the files implement the atomic      *)
(* ledger, whenever a process is killed: a command's change is on the disk *)
(* in full or not at all (tmp_path.replace).                               *)
THEOREM StoreImplementsLedger == Spec => ImplementsLedger
<1>1. Init => Shape /\ AloneInv /\ L!Init
  BY ShapeInit, AloneInit DEF Init, L!Init, L!EmptyLedger, Parsed
<1>2. Shape /\ AloneInv /\ [Next]_vars => (Shape /\ AloneInv)'
  BY ShapeStep, AloneStep
<1>3. Shape /\ AloneInv /\ [Next]_vars => [L!Next \/ overlap']_(L!vars)
  BY EveryStepIsLedgerStep
<1> QED BY <1>1, <1>2, <1>3, PTL DEF Spec, ImplementsLedger

=============================================================================
