--------------------------- MODULE SessionProofs ----------------------------
(***************************************************************************)
(* The safety promises of the two things that hooks do for the sessions of *)
(* a host: the transcript ledger, then the closeout.                       *)
(*                                                                         *)
(* The ledger, for any sessions, ingests and limits: a line that counts as *)
(* read is in its log, because that holds of every checkpoint anywhere, on *)
(* the disk, in an ingest or in a command of the owner.  Lines are not     *)
(* recorded twice and retention removes the oldest log, because as long as *)
(* nothing is cut short the lock lets one ingest in, which alone holds the *)
(* checkpoint that goes with the logs.                                     *)
(*                                                                         *)
(* The closeout, for any sessions, directories and blockers and any number *)
(* of openings, compactions and kills: a session is let go for cause, and  *)
(* a compaction is not forgotten.  The counter of a directory is backed by *)
(* what its sessions were told: by the one session that has it to itself,  *)
(* and, where sessions share it, by all of them together.                  *)
(***************************************************************************)
EXTENDS SessionLedger, SessionCloseout, SequenceTheorems, FiniteSetTheorems, WellFoundedInduction,
        TLAPS

-----------------------------------------------------------------------------
(* Greatest elements: a set of numbers below a bound has one.              *)

LEMMA HasLeast ==
  ASSUME NEW T, T \subseteq Nat, T # {} PROVE \E x \in T : \A y \in T : x <= y
<1>1. \E x \in T : \A y \in T : ~(<<y, x>> \in OpToRel(<, Nat))
  BY Zenon, NatLessThanWellFounded, WFMin
<1>2. \A x, y \in Nat : y < x => <<y, x>> \in OpToRel(<, Nat)
  BY Zenon DEF OpToRel
<1>3. \E x \in T : \A y \in T : ~(y < x)
  BY Zenon, <1>1, <1>2
<1> QED BY <1>3

\* The least distance to the bound is that of the greatest element.
LEMMA MaxLemma ==
  ASSUME NEW n \in Nat, NEW T, T \subseteq 1..n, T # {}
  PROVE  Max(T) \in T /\ \A t \in T : t <= Max(T)
<1> DEFINE D == {d \in Nat : n - d \in T}
<1>1. D # {}
  <2>1. PICK t \in T : TRUE
    OBVIOUS
  <2>2. n - t \in Nat /\ n - (n - t) = t
    BY <2>1
  <2> QED BY <2>1, <2>2
<1>2. PICK d \in D : \A e \in D : d <= e
  BY <1>1, HasLeast
<1>3. ASSUME NEW y \in T PROVE n - d >= y
  <2>1. y \in 1..n
    OBVIOUS
  <2>2. n - y \in Nat /\ n - (n - y) = y
    BY <2>1
  <2>3. d <= n - y /\ d \in Nat
    BY <1>2, <2>2
  <2> QED BY <2>1, <2>3
<1>4. \E x \in T : \A y \in T : x >= y
  BY <1>3
<1> QED BY <1>4 DEF Max

-----------------------------------------------------------------------------
(* The sets the variables range over.                                      *)

Shape ==
  /\ lines \in Seq(Sessions) /\ Len(lines) <= MaxLines /\ archived \subseteq Sessions
  /\ copies \in [Times -> Nat] /\ disk \in Checkpoints
  /\ lock \in {"none", "fresh", "stale"}
  /\ pc \in [Ingests -> {"idle", "lock", "unlink", "retry", "load", "files", "commit", "release"}]
  /\ mem \in [Ingests -> Checkpoints]
  /\ todo \in [Ingests -> SUBSET (Sessions \X Times)]
  /\ toggle \in [wants : BOOLEAN, read : Checkpoints, open : BOOLEAN]
  /\ setbacks \in Nat /\ toggles \in Nat
  /\ evicted \subseteq Sessions /\ wish \in BOOLEAN /\ crossed \in BOOLEAN /\ rolled \in BOOLEAN

LEMMA EmptyIsCheckpoint == Empty \in Checkpoints
BY LedgerAssumption DEF Empty, Checkpoints

LEMMA ShapeInit == Init => Shape
<1> SUFFICES ASSUME Init PROVE Shape OBVIOUS
<1>1. lines \in Seq(Sessions) /\ Len(lines) <= MaxLines
  BY LedgerAssumption DEF Init
<1>2. disk \in Checkpoints /\ mem \in [Ingests -> Checkpoints]
  BY EmptyIsCheckpoint DEF Init
<1>3. toggle \in [wants : BOOLEAN, read : Checkpoints, open : BOOLEAN]
  BY EmptyIsCheckpoint DEF Init, None
<1> QED BY <1>1, <1>2, <1>3 DEF Init, Shape

\* Lines are numbered from 1, and a session's lines are among them.
LEMMA Numbering ==
  ASSUME Shape
  PROVE  /\ Len(lines) \in Nat /\ DOMAIN lines = 1..Len(lines) /\ DOMAIN lines \subseteq Times
         /\ \A t \in DOMAIN lines : lines[t] \in Sessions
         /\ \A s \in Sessions : LinesOf(s) \subseteq 1..Len(lines)
BY LedgerAssumption DEF Shape, Times, LinesOf

\* What a run takes of a rollout: the lines from its offset up to the last
\* one taken, which is the new offset.
LEMMA TookLemma ==
  ASSUME Shape, NEW s \in Sessions, NEW at \in 0..MaxLines, NEW n,
         NEW took \in FirstLines(NewLines(s, at), n)
  PROVE  /\ took \subseteq LinesOf(s) /\ \A t \in took : t > at
         /\ took # {} => /\ Max(took) \in took /\ \A t \in took : t <= Max(took)
                         /\ \A t \in LinesOf(s) : t > at /\ t <= Max(took) => t \in took
<1>1. took \subseteq NewLines(s, at) /\ \A t \in took, u \in NewLines(s, at) \ took : t < u
  BY DEF FirstLines
<1>2. took \subseteq LinesOf(s) /\ took \subseteq 1..Len(lines) /\ \A t \in took : t > at
  BY <1>1, Numbering DEF NewLines
<1>3. took # {} => Max(took) \in took /\ \A t \in took : t <= Max(took)
  BY <1>2, Numbering, MaxLemma
<1>4. ASSUME took # {}, NEW t \in LinesOf(s), t > at, t <= Max(took) PROVE t \in took
  <2>1. t \in NewLines(s, at) /\ Max(took) \in took
    BY <1>3, <1>4 DEF NewLines
  <2>2. t \in 1..Len(lines) /\ Max(took) \in 1..Len(lines) /\ Len(lines) \in Nat
    BY <1>2, <1>4, <2>1, Numbering
  <2>3. t \notin took => Max(took) < t
    BY <1>1, <2>1
  <2> QED BY <1>4, <2>2, <2>3
<1> QED BY <1>2, <1>3, <1>4

LEMMA ObserveShape ==
  ASSUME Shape, NEW m \in Checkpoints, NEW s \in Sessions, NEW n,
         NEW took \in FirstLines(NewLines(s, m.at[s]), n)
  PROVE  Observe(m, s, took) \in Checkpoints
<1>1. m.at[s] \in 0..MaxLines
  BY DEF Checkpoints
<1>2. CASE took = {}
  BY <1>2 DEF Observe
<1>3. CASE took # {}
  <2>1. Max(took) \in 0..MaxLines
    BY <1>1, <1>3, TookLemma, Numbering, LedgerAssumption DEF Shape
  <2> HIDE DEF IsFull
  <2> QED BY <1>3, <2>1 DEF Observe, Checkpoints
<1> QED BY <1>2, <1>3

LEMMA LeaveShape ==
  ASSUME Shape, NEW p \in Ingests, Forget(p)
  PROVE  mem' \in [Ingests -> Checkpoints] /\ todo' \in [Ingests -> SUBSET (Sessions \X Times)]
BY EmptyIsCheckpoint DEF Shape, Forget

LEMMA ShapeStep == Shape /\ [Next]_vars => Shape'
<1> SUFFICES ASSUME Shape, [Next]_vars PROVE Shape' OBVIOUS
<1>1. ASSUME NEW s \in Sessions, HostWrites(s) PROVE Shape'
  <2>1. lines' \in Seq(Sessions) /\ Len(lines') <= MaxLines
    BY <1>1, AppendProperties, LedgerAssumption DEF HostWrites, Shape
  <2> QED BY <1>1, <2>1 DEF HostWrites, Shape, local, history
<1>2. ASSUME NEW s \in Sessions, HostArchives(s) \/ HostRestores(s) PROVE Shape'
  BY <1>2 DEF HostArchives, HostRestores, Shape, local, history
<1>3. ASSUME NEW on \in BOOLEAN, ToggleReads(on) PROVE Shape'
  <2>1. toggle' \in [wants : BOOLEAN, read : Checkpoints, open : BOOLEAN]
    BY <1>3 DEF ToggleReads, Shape
  <2>2. toggles' \in Nat /\ crossed' \in BOOLEAN
    BY <1>3 DEF ToggleReads, Shape
  <2> QED BY <1>3, <2>1, <2>2 DEF ToggleReads, Shape, local
<1>4. CASE ToggleWrites
  <2>1. disk' \in Checkpoints
    BY <1>4 DEF ToggleWrites, Shape, Checkpoints
  <2>2. toggle' \in [wants : BOOLEAN, read : Checkpoints, open : BOOLEAN]
    BY <1>4, EmptyIsCheckpoint DEF ToggleWrites, None
  <2>3. wish' \in BOOLEAN /\ crossed' \in BOOLEAN /\ rolled' \in BOOLEAN
    BY <1>4 DEF ToggleWrites, Shape
  <2> QED BY <1>4, <2>1, <2>2, <2>3 DEF ToggleWrites, Shape, local
<1>5. ASSUME NEW p \in Ingests, Start(p) PROVE Shape'
  <2>1. crossed' \in BOOLEAN
    BY <1>5 DEF Start, Shape
  <2> QED BY <1>5, <2>1 DEF Start, Goto, Shape
<1>6. ASSUME NEW p \in Ingests, TryLock(p) \/ Unlink(p) \/ Retry(p) \/ Release(p) PROVE Shape'
  <2>1. /\ lock' \in {"none", "fresh", "stale"}
        /\ mem' \in [Ingests -> Checkpoints] /\ todo' \in [Ingests -> SUBSET (Sessions \X Times)]
    BY <1>6, LeaveShape DEF TryLock, Unlink, Retry, Release, Leave, Shape
  <2>2. pc' \in [Ingests -> {"idle", "lock", "unlink", "retry", "load", "files", "commit", "release"}]
    BY <1>6 DEF TryLock, Unlink, Retry, Release, Leave, Goto, Shape
  <2> QED BY <1>6, <2>1, <2>2 DEF TryLock, Unlink, Retry, Release, Shape, history
<1>7. ASSUME NEW p \in Ingests, Load(p) PROVE Shape'
  <2>1. mem' \in [Ingests -> Checkpoints]
    <3> DEFINE at == [s \in Sessions |-> IF s \in Present THEN disk.at[s] ELSE 0]
    <3>1. at \in [Sessions -> 0..MaxLines]
      BY LedgerAssumption DEF Shape, Checkpoints
    <3>2. [disk EXCEPT !.at = at] \in Checkpoints
      BY <3>1 DEF Shape, Checkpoints
    <3> QED BY <1>7, <3>2 DEF Load, Shape
  <2>2. todo' \in [Ingests -> SUBSET (Sessions \X Times)]
    <3>1. ASSUME NEW s \in Present PROVE s \in Sessions /\ LastLine(s) \in Times
      <4>1. s \in Sessions /\ LinesOf(s) # {}
        BY DEF Present
      <4>2. LinesOf(s) \subseteq 1..Len(lines) /\ Len(lines) \in Nat
        BY <4>1, Numbering
      <4>3. Max(LinesOf(s)) \in LinesOf(s)
        BY <4>1, <4>2, MaxLemma
      <4>4. LinesOf(s) \subseteq Times
        BY Numbering DEF LinesOf
      <4> QED BY <4>1, <4>3, <4>4 DEF LastLine
    <3> HIDE DEF Present, LastLine
    <3> QED BY <1>7, <3>1 DEF Load, Shape
  <2> QED BY <1>7, <2>1, <2>2 DEF Load, Goto, Shape, history
<1>8. ASSUME NEW p \in Ingests, IngestFile(p) PROVE Shape'
  <2> DEFINE Reads(s) == \E took \in FirstLines(NewLines(s, mem[p].at[s]), budget[p]) :
          /\ copies' = IF IsFull(s) THEN copies
                       ELSE [t \in Times |-> IF t \in took THEN copies[t] + 1 ELSE copies[t]]
          /\ mem' = [mem EXCEPT ![p] = Observe(@, s, took)]
  <2>0. PICK file \in Newest(todo[p]) : Reads(file[1]) /\ todo' = [todo EXCEPT ![p] = @ \ {file}]
    BY <1>8, Zenon DEF IngestFile
  <2>1. PICK s : s = file[1] /\ Reads(s)
    BY <2>0, Zenon
  <2>2. PICK took \in FirstLines(NewLines(s, mem[p].at[s]), budget[p]) :
          /\ copies' = IF IsFull(s) THEN copies
                       ELSE [t \in Times |-> IF t \in took THEN copies[t] + 1 ELSE copies[t]]
          /\ mem' = [mem EXCEPT ![p] = Observe(@, s, took)]
    BY <2>1, Zenon
  <2>3. s \in Sessions
    BY <2>1 DEF Newest, Shape
  <2>4. mem' \in [Ingests -> Checkpoints]
    BY <2>2, <2>3, ObserveShape DEF Shape
  <2>5. copies' \in [Times -> Nat]
    BY <2>2 DEF Shape
  <2>6. todo' \in [Ingests -> SUBSET (Sessions \X Times)]
    BY <2>0 DEF Shape
  <2> QED BY <1>8, <2>4, <2>5, <2>6 DEF IngestFile, Shape, history
<1>9. ASSUME NEW p \in Ingests, IngestFails(p) \/ Kill(p) PROVE Shape'
  <2>1. Forget(p) /\ setbacks' = setbacks + 1
    BY <1>9 DEF IngestFails, Kill, Leave
  <2>2. pc' \in [Ingests -> {"idle", "lock", "unlink", "retry", "load", "files", "commit", "release"}]
    BY <1>9 DEF IngestFails, Kill, Leave, Goto, Shape
  <2>3. UNCHANGED <<lines, archived, copies, disk, lock, toggle, toggles, history>>
    BY <1>9 DEF IngestFails, Kill
  <2> QED BY <2>1, <2>2, <2>3, LeaveShape DEF Shape, history
<1>10. ASSUME NEW p \in Ingests, Prune(p) PROVE Shape'
  <2>1. PICK gone \in Surplus(mem[p]) :
          /\ copies' = [t \in Times |-> IF t \in DOMAIN lines /\ lines[t] \in gone THEN 0 ELSE copies[t]]
          /\ mem' = [mem EXCEPT ![p] =
               [on |-> @.on, at |-> @.at,
                last |-> [s \in Sessions |-> IF s \in gone THEN 0 ELSE @.last[s]],
                cut |-> [s \in Sessions |-> s \notin gone /\ @.cut[s]]]]
          /\ evicted' = evicted \cup gone
    BY <1>10 DEF Prune
  <2>2. gone \subseteq Sessions
    BY DEF Surplus
  <2>3. mem' \in [Ingests -> Checkpoints]
    BY <2>1, LedgerAssumption DEF Shape, Checkpoints
  <2>4. copies' \in [Times -> Nat]
    BY <2>1 DEF Shape
  <2> QED BY <1>10, <2>1, <2>2, <2>3, <2>4 DEF Prune, Goto, Shape
<1>11. ASSUME NEW p \in Ingests, Commit(p) PROVE Shape'
  <2>1. disk' \in Checkpoints
    BY <1>11 DEF Commit, Shape, Checkpoints
  <2> QED BY <1>11, <2>1, LeaveShape DEF Commit, Goto, Shape, history
<1>12. CASE GrowsStale
  BY <1>12 DEF GrowsStale, Shape, local, history
<1>13. CASE UNCHANGED vars
  BY <1>13 DEF vars, Shape, local, history
<1> QED BY <1>1, <1>2, <1>3, <1>4, <1>5, <1>6, <1>7, <1>8, <1>9, <1>10, <1>11, <1>12, <1>13
        DEF Next, Step

-----------------------------------------------------------------------------
(* What a step does to the lines and the logs.                             *)

\* Which lines are taken from a rollout, or removed with their log.
Takes(p, s, took) ==
  /\ pc[p] = "files" /\ pc' = pc
  /\ s \in Sessions /\ took \in FirstLines(NewLines(s, mem[p].at[s]), budget[p])
  /\ copies' = IF IsFull(s) THEN copies
               ELSE [t \in Times |-> IF t \in took THEN copies[t] + 1 ELSE copies[t]]
  /\ mem' = [mem EXCEPT ![p] = Observe(@, s, took)]
  /\ UNCHANGED <<lines, archived, disk, lock, toggle, setbacks, toggles, history>>

Removes(p, gone) ==
  /\ gone \in Surplus(mem[p]) /\ gone \subseteq Sessions
  /\ copies' = [t \in Times |-> IF t \in DOMAIN lines /\ lines[t] \in gone THEN 0 ELSE copies[t]]
  /\ mem' = [mem EXCEPT ![p] =
       [on |-> @.on, at |-> @.at,
        last |-> [s \in Sessions |-> IF s \in gone THEN 0 ELSE @.last[s]],
        cut |-> [s \in Sessions |-> s \notin gone /\ @.cut[s]]]]
  /\ evicted' = evicted \cup gone
  /\ pc[p] = "files" /\ Goto(p, "commit")
  /\ UNCHANGED <<lines, archived, disk, lock, toggle, setbacks, toggles, wish, crossed, rolled>>

LEMMA IngestTakes ==
  ASSUME Shape, NEW p \in Ingests, IngestFile(p)
  PROVE  \E s, took : Takes(p, s, took)
<1>1. \A file \in Newest(todo[p]) : file[1] \in Sessions
  BY DEF Newest, Shape
<1>2. PICK s \in Sessions : \E took \in FirstLines(NewLines(s, mem[p].at[s]), budget[p]) :
        /\ copies' = IF IsFull(s) THEN copies
                     ELSE [t \in Times |-> IF t \in took THEN copies[t] + 1 ELSE copies[t]]
        /\ mem' = [mem EXCEPT ![p] = Observe(@, s, took)]
  BY Zenon, <1>1 DEF IngestFile
<1>3. PICK took \in FirstLines(NewLines(s, mem[p].at[s]), budget[p]) :
        /\ copies' = IF IsFull(s) THEN copies
                     ELSE [t \in Times |-> IF t \in took THEN copies[t] + 1 ELSE copies[t]]
        /\ mem' = [mem EXCEPT ![p] = Observe(@, s, took)]
  BY Zenon, <1>2
<1>4. /\ pc[p] = "files" /\ pc' = pc
      /\ UNCHANGED <<lines, archived, disk, lock, toggle, setbacks, toggles, history>>
  BY Zenon DEF IngestFile
<1>5. Takes(p, s, took)
  BY Zenon, <1>1, <1>3, <1>4 DEF Takes
<1> QED BY Zenon, <1>5

LEMMA PruneRemoves ==
  ASSUME Shape, NEW p \in Ingests, Prune(p)
  PROVE  \E gone : Removes(p, gone)
<1>1. \A gone \in Surplus(mem[p]) : gone \subseteq Sessions
  BY DEF Surplus
<1> HIDE DEF Surplus
<1> QED BY <1>1 DEF Prune, Removes

LEMMA CopiesChange ==
  ASSUME Shape, [Next]_vars
  PROVE  \/ copies' = copies
         \/ \E p \in Ingests : \/ \E s, took : Takes(p, s, took)
                               \/ \E gone : Removes(p, gone)
<1>1. copies' = copies \/ \E p \in Ingests : IngestFile(p) \/ Prune(p)
  BY DEF Next, Step, vars, HostWrites, HostArchives, HostRestores, ToggleReads, ToggleWrites, Start,
         TryLock, Unlink, Retry, Load, Commit, Release, IngestFails, Kill, GrowsStale
<1> QED BY <1>1, IngestTakes, PruneRemoves

\* The lines there are stay; a new one has a number no other has had.
LEMMA LinesGrow ==
  ASSUME Shape, [Next]_vars
  PROVE  /\ Len(lines) \in Nat /\ Len(lines') \in Nat /\ Len(lines) <= Len(lines')
         /\ DOMAIN lines = 1..Len(lines) /\ DOMAIN lines' = 1..Len(lines')
         /\ \A t \in DOMAIN lines : lines'[t] = lines[t]
         /\ lines' = lines \/ (copies' = copies /\ evicted' = evicted /\ mem' = mem /\ disk' = disk)
<1>1. Len(lines) \in Nat /\ DOMAIN lines = 1..Len(lines) /\ DOMAIN lines' = 1..Len(lines') /\ Len(lines') \in Nat
  BY ShapeStep DEF Shape
<1>2. CASE lines' = lines
  BY <1>1, <1>2
<1>3. CASE lines' # lines
  <2>1. PICK s \in Sessions : HostWrites(s)
    BY <1>3 DEF Next, Step, vars, HostArchives, HostRestores, ToggleReads, ToggleWrites, Start, TryLock,
       Unlink, Retry, Load, IngestFile, Prune, Commit, Release, IngestFails, Kill, GrowsStale
  <2>2. Len(lines') = Len(lines) + 1 /\ \A t \in DOMAIN lines : lines'[t] = lines[t]
    BY <2>1, AppendProperties, Numbering DEF HostWrites, Shape
  <2>3. copies' = copies /\ evicted' = evicted /\ mem' = mem /\ disk' = disk
    BY <2>1 DEF HostWrites, local, history
  <2> QED BY <1>1, <2>2, <2>3
<1> QED BY <1>2, <1>3

\* A line that is in a log stays there, unless its log is removed.
LEMMA LogsGrow ==
  ASSUME Shape, [Next]_vars
  PROVE  /\ evicted \subseteq evicted'
         /\ \A t \in DOMAIN lines : copies[t] > 0 => copies'[t] > 0 \/ lines[t] \in evicted'
<1>1. evicted \subseteq evicted'
  BY DEF Next, Step, vars, history, HostWrites, HostArchives, HostRestores, ToggleReads, ToggleWrites, Start,
         TryLock, Unlink, Retry, Load, IngestFile, Prune, Commit, Release, IngestFails, Kill, GrowsStale
<1>2. ASSUME NEW p \in Ingests, NEW s, NEW took, Takes(p, s, took), NEW t \in DOMAIN lines, copies[t] > 0
      PROVE  copies'[t] > 0
  <2>1. t \in Times /\ copies[t] \in Nat
    BY Numbering DEF Shape
  <2> HIDE DEF IsFull
  <2> QED BY <1>2, <2>1 DEF Takes
<1>3. ASSUME NEW p \in Ingests, NEW gone, Removes(p, gone), NEW t \in DOMAIN lines, copies[t] > 0
      PROVE  copies'[t] > 0 \/ lines[t] \in evicted'
  <2>1. t \in Times
    BY Numbering
  <2> QED BY <1>3, <2>1 DEF Removes
<1> QED BY <1>1, <1>2, <1>3, CopiesChange

-----------------------------------------------------------------------------
(* Nothing is skipped.                                                     *)

\* A checkpoint that goes with the logs: what it counts as read is recorded.
Sound(m) ==
  /\ \A s \in Sessions : m.at[s] <= Len(lines)
  /\ \A t \in DOMAIN lines :
       t <= m.at[lines[t]] /\ lines[t] \notin evicted => copies[t] > 0 \/ m.cut[lines[t]]

SoundInv == Sound(disk) /\ Sound(toggle.read) /\ \A p \in Ingests : Sound(mem[p])

LEMMA EmptyIsSound == ASSUME Shape PROVE Sound(Empty)
BY Numbering DEF Sound, Empty

LEMMA SoundInit == Init => SoundInv
BY ShapeInit, EmptyIsSound DEF Init, SoundInv, None

\* The same of the lines and the logs as the step leaves them.
SoundThen(m) ==
  /\ \A s \in Sessions : m.at[s] <= Len(lines')
  /\ \A t \in DOMAIN lines' :
       t <= m.at[lines'[t]] /\ lines'[t] \notin evicted' => copies'[t] > 0 \/ m.cut[lines'[t]]

\* Whatever happens, a sound checkpoint stays so.
LEMMA SoundStays ==
  ASSUME Shape, [Next]_vars, NEW m \in Checkpoints, Sound(m)
  PROVE  SoundThen(m)
<1>1. \A s \in Sessions : m.at[s] \in Nat /\ m.at[s] <= Len(lines) /\ m.at[s] <= Len(lines')
  <2>1. \A s \in Sessions : m.at[s] \in Nat
    BY LedgerAssumption DEF Checkpoints
  <2> QED BY <2>1, LinesGrow DEF Sound
<1>2. ASSUME NEW t \in DOMAIN lines', t <= m.at[lines'[t]], lines'[t] \notin evicted'
      PROVE  copies'[t] > 0 \/ m.cut[lines'[t]]
  <2>1. lines'[t] \in Sessions
    BY ShapeStep DEF Shape
  <2>2. t \in DOMAIN lines
    BY <1>1, <1>2, <2>1, LinesGrow
  <2> QED BY <1>2, <2>2, LinesGrow, LogsGrow DEF Sound
<1> QED BY <1>1, <1>2 DEF SoundThen

\* The new offset is that of the last line taken: all before it were read.
LEMMA ObserveSound ==
  ASSUME Shape, SoundInv, [Next]_vars, NEW p \in Ingests, NEW s, NEW took, Takes(p, s, took)
  PROVE  SoundThen(mem'[p])
<1> DEFINE m == mem[p]
           new == Observe(m, s, took)
<1>0. m \in Checkpoints /\ Sound(m) /\ mem'[p] = new
  BY DEF Takes, Shape, SoundInv
<1>1. s \in Sessions /\ m.at[s] \in 0..MaxLines /\ SoundThen(m)
  <2>1. s \in Sessions
    BY DEF Takes
  <2> QED BY <1>0, <2>1, SoundStays DEF Checkpoints
<1>2. \A r \in Sessions : m.at[r] \in Nat
  BY <1>0, LedgerAssumption DEF Checkpoints
<1>3. CASE took = {}
  BY <1>0, <1>1, <1>3 DEF Observe
<1>4. CASE took # {}
  <2>1. /\ took \subseteq LinesOf(s) /\ Max(took) \in took /\ Max(took) \in 1..Len(lines)
        /\ \A t \in LinesOf(s) : t > m.at[s] /\ t <= Max(took) => t \in took
    BY <1>1, <1>4, TookLemma, Numbering DEF Takes
  <2>2. /\ \A r \in Sessions : new.at[r] = IF r = s THEN Max(took) ELSE m.at[r]
        /\ \A r \in Sessions : m.cut[r] => new.cut[r]
        /\ IsFull(s) => new.cut[s]
    <3> HIDE DEF IsFull
    <3> QED BY <1>0, <1>1, <1>4 DEF Observe, Checkpoints
  <2>3. ASSUME NEW t \in took, ~IsFull(s) PROVE copies'[t] > 0
    <3>1. t \in Times /\ copies[t] \in Nat
      <4>1. t \in LinesOf(s)
        BY <2>1
      <4>2. t \in Times
        BY <4>1, Numbering DEF LinesOf
      <4> QED BY <4>2 DEF Shape
    <3>2. copies' = [u \in Times |-> IF u \in took THEN copies[u] + 1 ELSE copies[u]]
      BY <2>3 DEF Takes
    <3> QED BY <3>1, <3>2
  <2>4. lines' = lines /\ evicted' = evicted
    BY DEF Takes, history
  <2>5. \A t \in DOMAIN lines : lines[t] \in Sessions /\ t \in Nat
    BY Numbering
  <2>6. Len(lines) \in Nat /\ \A r \in Sessions : m.at[r] <= Len(lines)
    BY <1>0, Numbering DEF Sound
  <2> HIDE DEF new, m, IsFull
  <2>7. \A r \in Sessions : new.at[r] <= Len(lines')
    BY <2>1, <2>2, <2>4, <2>6
  <2>8. ASSUME NEW t \in DOMAIN lines, t <= new.at[lines[t]], lines[t] \notin evicted
        PROVE  copies'[t] > 0 \/ new.cut[lines[t]]
    <3>1. CASE t <= m.at[lines[t]]
      <4>1. copies'[t] > 0 \/ m.cut[lines[t]]
        BY <1>1, <2>4, <2>8, <3>1 DEF SoundThen
      <4> QED BY <2>2, <2>5, <4>1
    <3>2. CASE ~(t <= m.at[lines[t]])
      <4>1. lines[t] = s /\ t <= Max(took)
        BY <2>2, <2>5, <2>8, <3>2
      <4>2. t \in took
        BY <1>2, <2>1, <2>5, <3>2, <4>1 DEF LinesOf
      <4> QED BY <2>2, <2>3, <4>1, <4>2
    <3> QED BY <3>1, <3>2
  <2> QED BY <1>0, <2>4, <2>7, <2>8 DEF SoundThen
<1> QED BY <1>3, <1>4

LEMMA PruneSound ==
  ASSUME Shape, SoundInv, [Next]_vars, NEW p \in Ingests, NEW gone, Removes(p, gone)
  PROVE  SoundThen(mem'[p])
<1> DEFINE m == mem[p]
<1>1. m \in Checkpoints /\ SoundThen(m)
  <2>1. m \in Checkpoints /\ Sound(m)
    BY DEF Shape, SoundInv
  <2> QED BY <2>1, SoundStays
<1>2. /\ mem'[p].at = m.at
      /\ \A s \in Sessions \ gone : mem'[p].cut[s] = m.cut[s]
  BY <1>1 DEF Removes, Shape, Checkpoints
<1>3. gone \subseteq evicted' /\ lines' = lines
  BY DEF Removes
<1>4. \A t \in DOMAIN lines : lines[t] \in Sessions
  BY Numbering
<1> QED BY <1>1, <1>2, <1>3, <1>4 DEF SoundThen

\* Where a step may find the checkpoints it leaves.
LEMMA MemChange ==
  ASSUME Shape, [Next]_vars, NEW p \in Ingests
  PROVE  \/ mem'[p] = mem[p] \/ mem'[p] = Empty \/ Load(p)
         \/ (\E s, took : Takes(p, s, took)) \/ (\E gone : Removes(p, gone))
<1>1. ASSUME NEW q \in Ingests, Forget(q) PROVE mem'[p] = mem[p] \/ mem'[p] = Empty
  BY <1>1 DEF Forget, Shape
<1>2. ASSUME NEW q \in Ingests, Load(q) \/ IngestFile(q) \/ Prune(q), q # p PROVE mem'[p] = mem[p]
  <2>1. Load(q) => mem'[p] = mem[p]
    BY <1>2 DEF Load, Shape
  <2>2. IngestFile(q) => mem'[p] = mem[p]
    BY <1>2, IngestTakes DEF Takes, Shape
  <2>3. Prune(q) => mem'[p] = mem[p]
    BY <1>2, PruneRemoves DEF Removes, Shape
  <2> QED BY <1>2, <2>1, <2>2, <2>3
<1>3. \/ mem' = mem
      \/ \E q \in Ingests : Forget(q) \/ Load(q) \/ IngestFile(q) \/ Prune(q)
  BY DEF Next, Step, vars, local, HostWrites, HostArchives, HostRestores, ToggleReads, ToggleWrites, Start,
         TryLock, Unlink, Retry, Commit, Release, IngestFails, Kill, Leave, GrowsStale
<1> QED BY <1>1, <1>2, <1>3, IngestTakes, PruneRemoves

LEMMA DiskChange ==
  ASSUME Shape, [Next]_vars
  PROVE  /\ disk' = disk \/ ToggleWrites \/ \E p \in Ingests : Commit(p)
         /\ toggle'.read \in {toggle.read, disk, Empty}
<1>1. disk' = disk \/ ToggleWrites \/ \E p \in Ingests : Commit(p)
  BY DEF Next, Step, vars, HostWrites, HostArchives, HostRestores, ToggleReads, Start, TryLock, Unlink,
         Retry, Load, IngestFile, Prune, Release, IngestFails, Kill, GrowsStale
<1>2. toggle' = toggle \/ ToggleWrites \/ \E on \in BOOLEAN : ToggleReads(on)
  BY DEF Next, Step, vars, HostWrites, HostArchives, HostRestores, Start, TryLock, Unlink, Retry, Load,
         IngestFile, Prune, Commit, Release, IngestFails, Kill, GrowsStale
<1>3. ToggleWrites => toggle'.read = Empty
  BY DEF ToggleWrites, None
<1>4. \A on \in BOOLEAN : ToggleReads(on) => toggle'.read = disk
  BY DEF ToggleReads
<1> QED BY <1>1, <1>2, <1>3, <1>4

LEMMA SoundStep == Shape /\ SoundInv /\ [Next]_vars => SoundInv'
<1> SUFFICES ASSUME Shape, SoundInv, [Next]_vars PROVE SoundInv' OBVIOUS
<1>1. \A m \in Checkpoints : Sound(m) => SoundThen(m)
  BY SoundStays
<1>2. SoundThen(Empty) /\ SoundThen(disk) /\ SoundThen(toggle.read)
  BY <1>1, EmptyIsSound, EmptyIsCheckpoint DEF SoundInv, Shape
<1>3. ASSUME NEW p \in Ingests PROVE SoundThen(mem'[p])
  <2>1. SoundThen(mem[p])
    BY <1>1 DEF SoundInv, Shape
  <2>2. CASE Load(p)
    <3>1. /\ \A s \in Sessions : mem'[p].at[s] \in {0, disk.at[s]} /\ disk.at[s] \in Nat
          /\ mem'[p].cut = disk.cut
      <4> DEFINE at == [s \in Sessions |-> IF s \in Present THEN disk.at[s] ELSE 0]
      <4>1. mem'[p] = [disk EXCEPT !.at = at]
        BY <2>2 DEF Load, Shape
      <4>2. mem'[p].at = at /\ mem'[p].cut = disk.cut
        BY <4>1 DEF Shape, Checkpoints
      <4> QED BY <4>2, LedgerAssumption DEF Shape, Checkpoints
    <3>2. \A t \in DOMAIN lines' : lines'[t] \in Sessions /\ t \in Nat /\ t > 0
      BY ShapeStep, LinesGrow DEF Shape
    <3>3. Len(lines') \in Nat
      BY LinesGrow
    <3> QED BY <1>2, <3>1, <3>2, <3>3 DEF SoundThen
  <2> QED BY <1>2, <2>1, <2>2, MemChange, ObserveSound, PruneSound
<1>4. SoundThen(disk')
  <2>1. CASE ToggleWrites
    <3>1. disk'.at = toggle.read.at /\ disk'.cut = toggle.read.cut
      BY <2>1 DEF ToggleWrites, Shape, Checkpoints
    <3> QED BY <1>2, <3>1 DEF SoundThen
  <2>2. ASSUME NEW p \in Ingests, Commit(p) PROVE SoundThen(disk')
    <3>1. disk'.at = mem[p].at /\ disk'.cut = mem[p].cut
      BY <2>2 DEF Commit, Shape, Checkpoints
    <3>2. SoundThen(mem[p])
      BY <1>1 DEF SoundInv, Shape
    <3> QED BY <3>1, <3>2 DEF SoundThen
  <2> QED BY <1>2, <2>1, <2>2, DiskChange
<1>5. SoundThen(toggle'.read)
  BY <1>2, DiskChange
<1> QED BY <1>3, <1>4, <1>5 DEF SoundInv, Sound, SoundThen

-----------------------------------------------------------------------------
(* Off stays off.                                                          *)

\* Once the owner's command has been carried out, nobody is at work.
OffInv ==
  ~wish /\ ~crossed /\ ~toggle.open => ~disk.on /\ \A p \in Ingests : ~Running(p)

LEMMA OffStep == Shape /\ OffInv /\ [Next]_vars => OffInv'
<1> SUFFICES ASSUME Shape, OffInv, [Next]_vars, ~wish', ~crossed', ~toggle'.open
             PROVE  ~disk'.on /\ \A p \in Ingests : ~Running(p)'
  BY DEF OffInv
<1>1. CASE ToggleWrites
  BY <1>1 DEF ToggleWrites, Running, Shape, Checkpoints, local
<1>2. CASE ~ToggleWrites
  <2>0. ASSUME NEW on \in BOOLEAN, ToggleReads(on) PROVE FALSE
    <3>1. toggle'.open = TRUE
      BY <2>0 DEF ToggleReads
    <3> QED BY <3>1
  <2>1. toggle' = toggle /\ wish' = wish
    BY <1>2, <2>0 DEF Next, Step, vars, history, HostWrites, HostArchives, HostRestores, Start, TryLock,
       Unlink, Retry, Load, IngestFile, Prune, Commit, Release, IngestFails, Kill, GrowsStale
  <2>2. ASSUME NEW p \in Ingests, Start(p) PROVE FALSE
    <3>1. ~wish /\ ~toggle.open
      BY <2>1
    <3>2. ~crossed
      BY <2>2 DEF Start
    <3>3. disk.on
      BY <2>2 DEF Start
    <3> QED BY <3>1, <3>2, <3>3 DEF OffInv
  <2>3. crossed' = crossed
    BY <1>2, <2>0, <2>2 DEF Next, Step, vars, history, HostWrites, HostArchives, HostRestores,
       TryLock, Unlink, Retry, Load, IngestFile, Prune, Commit, Release, IngestFails, Kill, GrowsStale
  <2>4. ~disk.on /\ \A p \in Ingests : pc[p] = "idle"
    BY <2>1, <2>3 DEF OffInv, Running
  <2>5. disk' = disk /\ pc' = pc
    BY <1>2, <2>0, <2>2, <2>4 DEF Next, Step, vars, local, history, HostWrites, HostArchives, HostRestores,
       TryLock, Unlink, Retry, Load, IngestFile, Prune, Commit, Release, IngestFails, Kill,
       Running, GrowsStale
  <2> QED BY <2>4, <2>5 DEF Running
<1> QED BY <1>1, <1>2

(* Once the owner has opted out no ingest turns the ledger on again, if    *)
(* none was under way at that moment (set_enabled, is_enabled).            *)
THEOREM OptOutHolds == Spec => []StaysOff
<1>1. Init => Shape /\ OffInv
  BY ShapeInit DEF Init, OffInv
<1>2. Shape /\ OffInv /\ [Next]_vars => (Shape /\ OffInv)'
  BY ShapeStep, OffStep
<1>3. OffInv => StaysOff
  BY DEF OffInv, StaysOff
<1> QED BY <1>1, <1>2, <1>3, PTL DEF Spec

-----------------------------------------------------------------------------
(* The lock.                                                               *)

\* As long as no process was cut short the lock is held by the one inside.
Locked ==
  /\ archived = {} /\ lock # "stale"
  /\ \A p \in Ingests : pc[p] \notin {"unlink", "retry"}
  /\ \A p, q \in Ingests : Inside(p) /\ Inside(q) => p = q
  /\ lock = "fresh" <=> \E p \in Ingests : Inside(p)

LockInv == setbacks > 0 \/ Locked

LEMMA SetbacksStay ==
  ASSUME Shape, [Next]_vars, ~(setbacks' > 0)
  PROVE  setbacks = 0 /\ setbacks' = setbacks
<1>1. setbacks' = setbacks \/ setbacks' = setbacks + 1
  BY DEF Next, Step, vars, HostWrites, HostArchives, HostRestores, ToggleReads, ToggleWrites, Start, TryLock,
         Unlink, Retry, Load, IngestFile, Prune, Commit, Release, IngestFails, Kill, GrowsStale
<1> QED BY <1>1 DEF Shape

LEMMA LockStep == Shape /\ LockInv /\ [Next]_vars => LockInv'
<1> SUFFICES ASSUME Shape, LockInv, [Next]_vars, ~(setbacks' > 0) PROVE Locked'
  BY DEF LockInv
<1>0. Locked /\ setbacks = 0 /\ setbacks' = setbacks
  BY SetbacksStay DEF LockInv
<1>1. ASSUME UNCHANGED <<archived, lock, pc>> PROVE Locked'
  BY <1>0, <1>1 DEF Locked, Inside
<1>2. ASSUME NEW p \in Ingests, NEW step, pc' = [pc EXCEPT ![p] = step], archived' = archived,
             lock' = lock, step \notin {"unlink", "retry"},
             Inside(p) <=> step \in {"load", "files", "commit", "release"}
      PROVE  Locked'
  <2>1. \A q \in Ingests : (Inside(q)' <=> Inside(q)) /\ pc'[q] \notin {"unlink", "retry"}
    BY <1>0, <1>2 DEF Locked, Inside, Shape
  <2> QED BY <1>0, <1>2, <2>1 DEF Locked
<1>3. ASSUME NEW p \in Ingests, TryLock(p) PROVE Locked'
  <2>1. CASE lock = "none"
    <3>1. lock' = "fresh" /\ pc' = [pc EXCEPT ![p] = "load"] /\ archived' = archived
      BY <1>3, <2>1 DEF TryLock, Goto
    <3>2. \A q \in Ingests : ~Inside(q)
      BY <1>0, <2>1 DEF Locked
    <3>3. \A q \in Ingests : (Inside(q)' <=> q = p) /\ pc'[q] \notin {"unlink", "retry"}
      BY <1>0, <3>1, <3>2 DEF Locked, Inside, Shape
    <3> QED BY <1>0, <3>1, <3>3 DEF Locked
  <2>2. CASE lock = "fresh"
    <3>1. pc' = [pc EXCEPT ![p] = "idle"] /\ lock' = lock /\ archived' = archived /\ ~Inside(p)
      BY <1>3, <2>2 DEF TryLock, Leave, Goto, Inside
    <3> QED BY <1>2, <3>1
  <2> QED BY <1>0, <2>1, <2>2 DEF Shape, Locked
<1>4. ASSUME NEW p \in Ingests, Release(p) PROVE Locked'
  <2>1. lock' = "none" /\ pc' = [pc EXCEPT ![p] = "idle"] /\ archived' = archived /\ Inside(p)
    BY <1>4 DEF Release, Goto, Inside
  <2>2. \A q \in Ingests : ~Inside(q)' /\ pc'[q] \notin {"unlink", "retry"}
    BY <1>0, <2>1 DEF Locked, Inside, Shape
  <2> QED BY <1>0, <2>1, <2>2 DEF Locked
<1>5. ASSUME NEW p \in Ingests, Start(p) PROVE Locked'
  <2>1. pc' = [pc EXCEPT ![p] = "lock"] /\ lock' = lock /\ archived' = archived /\ ~Inside(p)
    BY <1>5 DEF Start, Goto, Inside
  <2> QED BY <1>2, <2>1
<1>6. ASSUME NEW p \in Ingests, Load(p) \/ Prune(p) \/ Commit(p) PROVE Locked'
  <2>1. PICK step \in {"files", "commit", "release"} : pc' = [pc EXCEPT ![p] = step]
    BY <1>6 DEF Load, Prune, Commit, Goto
  <2>2. lock' = lock /\ archived' = archived /\ Inside(p)
    BY <1>6 DEF Load, Prune, Commit, Inside
  <2> QED BY <1>2, <2>1, <2>2
<1>7. CASE GrowsStale
  BY <1>0, <1>7 DEF GrowsStale, Abandoned, Locked
<1>8. ASSUME NEW p \in Ingests, IngestFails(p) \/ Kill(p) PROVE Locked'
  BY <1>0, <1>8 DEF IngestFails, Kill
<1>9. ASSUME NEW s \in Sessions, HostArchives(s) \/ HostRestores(s) PROVE Locked'
  BY <1>0, <1>9 DEF HostArchives, HostRestores, Locked
<1>10. ASSUME NEW p \in Ingests, Unlink(p) \/ Retry(p) PROVE Locked'
  BY <1>0, <1>10 DEF Unlink, Retry, Locked
<1>11. ASSUME NEW p \in Ingests, IngestFile(p) PROVE Locked'
  BY <1>1, <1>11 DEF IngestFile
<1>12. ASSUME NEW s \in Sessions, HostWrites(s) PROVE Locked'
  BY <1>1, <1>12 DEF HostWrites, local
<1>13. ASSUME NEW on \in BOOLEAN, ToggleReads(on) PROVE Locked'
  BY <1>1, <1>13 DEF ToggleReads, local
<1>14. CASE ToggleWrites
  BY <1>1, <1>14 DEF ToggleWrites, local
<1>15. CASE UNCHANGED vars
  BY <1>1, <1>15 DEF vars, local
<1> QED BY <1>3, <1>4, <1>5, <1>6, <1>7, <1>8, <1>9, <1>10, <1>11, <1>12, <1>13, <1>14, <1>15
        DEF Next, Step

-----------------------------------------------------------------------------
(* The logs and the checkpoint that goes with them.                        *)

\* A checkpoint that knows all that is in the logs, and of each log its last
\* line, unless the log was truncated.
Knows(m) ==
  /\ \A t \in DOMAIN lines : copies[t] > 0 => t <= m.at[lines[t]] /\ t <= m.last[lines[t]]
  /\ \A s \in Sessions : LogOf(s) # {} => m.cut[s] \/ m.last[s] \in LogOf(s)

KnowsThen(m) ==
  /\ \A t \in DOMAIN lines' : copies'[t] > 0 => t <= m.at[lines'[t]] /\ t <= m.last[lines'[t]]
  /\ \A s \in Sessions : LogOf(s)' # {} => m.cut[s] \/ m.last[s] \in LogOf(s)'

\* The ingest at work has it in memory; otherwise it is on the disk.
AtWork(p) == pc[p] \in {"files", "commit"}
RecordedAtMostOnce == \A t \in Times : copies[t] <= 1 /\ (t > Len(lines) => copies[t] = 0)

Orderly ==
  /\ RecordedAtMostOnce
  /\ \A p \in Ingests : AtWork(p) => Knows(mem[p])
  /\ (\A p \in Ingests : ~AtWork(p)) => Knows(disk)

OrderInv == setbacks > 0 \/ rolled \/ Orderly

LEMMA LogsOf ==
  ASSUME Shape
  PROVE  \A s \in Sessions : LogOf(s) = {t \in DOMAIN lines : lines[t] = s /\ copies[t] > 0}
BY DEF LogOf, LinesOf

LEMMA KnowsStays ==
  ASSUME Shape, [Next]_vars, RecordedAtMostOnce, copies' = copies
  PROVE  /\ RecordedAtMostOnce'
         /\ \A m \in Checkpoints : Knows(m) => KnowsThen(m)
<1>1. \A t \in DOMAIN lines' : copies[t] > 0 => t \in DOMAIN lines
  <2>1. ASSUME NEW t \in DOMAIN lines', copies[t] > 0 PROVE t \in DOMAIN lines
    <3>1. t \in Times
      <4>1. Len(lines') <= MaxLines
        BY ShapeStep DEF Shape
      <4>2. Len(lines') \in Nat /\ t \in 1..Len(lines')
        BY <2>1, LinesGrow
      <4> QED BY <4>1, <4>2, LedgerAssumption DEF Times
    <3> QED BY <2>1, <3>1, LinesGrow DEF RecordedAtMostOnce
  <2> QED BY <2>1
<1>2. \A s \in Sessions : LogOf(s)' = LogOf(s)
  BY <1>1, LinesGrow DEF LogOf, LinesOf
<1>3. RecordedAtMostOnce'
  BY LinesGrow, LedgerAssumption DEF RecordedAtMostOnce, Times
<1> QED BY <1>1, <1>2, <1>3, LinesGrow DEF Knows, KnowsThen

\* Lines after the offset were not in the log; now the last of them is.
LEMMA ObserveKnows ==
  ASSUME Shape, [Next]_vars, RecordedAtMostOnce, NEW p \in Ingests, Knows(mem[p]),
         NEW s, NEW took, Takes(p, s, took)
  PROVE  RecordedAtMostOnce' /\ KnowsThen(mem'[p])
<1> DEFINE m == mem[p]
           new == Observe(m, s, took)
<1>1. s \in Sessions /\ m \in Checkpoints /\ m.at[s] \in 0..MaxLines /\ mem'[p] = new /\ lines' = lines
  BY DEF Takes, Shape, Checkpoints
<1>2. CASE copies' = copies /\ took = {}
  BY <1>1, <1>2, KnowsStays DEF Observe
<1>3. CASE took = {} /\ copies' # copies
  <2>1. copies' = [t \in Times |-> IF t \in took THEN copies[t] + 1 ELSE copies[t]]
    BY <1>3 DEF Takes
  <2> QED BY <1>3, <2>1 DEF Shape
<1>4. CASE took # {}
  <2>1. /\ took \subseteq LinesOf(s) /\ Max(took) \in took /\ \A t \in took : t <= Max(took)
        /\ \A t \in took : t > m.at[s]
    BY <1>1, <1>4, TookLemma DEF Takes
  <2>2. \A t \in DOMAIN lines : t \in Times /\ t \in Nat /\ lines[t] \in Sessions /\ copies[t] \in Nat
    BY Numbering DEF Shape
  <2>3. took \subseteq DOMAIN lines /\ (\A t \in took : lines[t] = s) /\ Max(took) \in Nat
    BY <2>1, <2>2 DEF LinesOf
  <2>4. /\ \A r \in Sessions : new.at[r] = IF r = s THEN Max(took) ELSE m.at[r]
        /\ \A r \in Sessions : new.last[r] = IF r = s THEN Max(took) ELSE m.last[r]
        /\ \A r \in Sessions : m.cut[r] => new.cut[r]
        /\ IsFull(s) => new.cut[s]
    <3> HIDE DEF IsFull
    <3> QED BY <1>1, <1>4 DEF Observe, Checkpoints
  <2>5. \A r \in Sessions : m.at[r] \in Nat /\ m.last[r] \in Nat
    BY <1>1, LedgerAssumption DEF Checkpoints
  <2>6. \A t \in Times : copies'[t] = IF ~IsFull(s) /\ t \in took THEN copies[t] + 1 ELSE copies[t]
    <3> HIDE DEF IsFull
    <3> QED BY DEF Takes, Shape
  <2>7. \A t \in took : copies[t] = 0
    BY <1>1, <2>1, <2>2, <2>3, <2>5 DEF Knows
  <2> HIDE DEF new, m, IsFull
  <2>8. RecordedAtMostOnce'
    BY <1>1, <2>2, <2>3, <2>6, <2>7, Numbering DEF RecordedAtMostOnce
  <2>9. ASSUME NEW t \in DOMAIN lines, copies'[t] > 0
        PROVE  t <= new.at[lines[t]] /\ t <= new.last[lines[t]]
    <3>1. CASE t \in took
      BY <1>1, <2>1, <2>3, <2>4, <3>1
    <3>2. CASE t \notin took
      <4>1. t <= m.at[lines[t]] /\ t <= m.last[lines[t]]
        BY <2>2, <2>6, <2>9, <3>2 DEF Knows, m
      <4> QED BY <1>1, <2>1, <2>2, <2>3, <2>4, <2>5, <4>1
    <3> QED BY <3>1, <3>2
  <2>10. ASSUME NEW r \in Sessions, LogOf(r)' # {}
         PROVE  new.cut[r] \/ new.last[r] \in LogOf(r)'
    <3>1. \A q \in Sessions : LogOf(q)' = {t \in DOMAIN lines : lines[t] = q /\ copies'[t] > 0}
      BY <1>1 DEF LogOf, LinesOf
    <3>2. CASE r = s
      <4>1. CASE IsFull(s)
        BY <2>4, <3>2, <4>1
      <4>2. CASE ~IsFull(s)
        BY <1>1, <2>1, <2>2, <2>3, <2>4, <2>6, <2>7, <3>1, <3>2, <4>2
      <4> QED BY <4>1, <4>2
    <3>3. CASE r # s
      <4>1. LogOf(r)' = LogOf(r)
        BY <2>2, <2>3, <2>6, <3>1, <3>3, LogsOf
      <4> QED BY <2>4, <2>10, <3>3, <4>1 DEF Knows, m
    <3> QED BY <3>2, <3>3
  <2> QED BY <1>1, <2>8, <2>9, <2>10 DEF KnowsThen
<1> QED BY <1>2, <1>3, <1>4

LEMMA RemovedLogs ==
  ASSUME Shape, NEW p \in Ingests, NEW gone, Removes(p, gone)
  PROVE  \A s \in Sessions : LogOf(s)' = IF s \in gone THEN {} ELSE LogOf(s)
<1> SUFFICES ASSUME NEW s \in Sessions PROVE LogOf(s)' = IF s \in gone THEN {} ELSE LogOf(s)
  OBVIOUS
<1>1. LogOf(s)' = {t \in DOMAIN lines : lines[t] = s /\ copies'[t] > 0}
  BY DEF Removes, LogOf, LinesOf
<1>2. \A t \in DOMAIN lines : copies'[t] = IF lines[t] \in gone THEN 0 ELSE copies[t]
  BY Numbering DEF Removes
<1>3. CASE s \in gone
  BY <1>1, <1>2, <1>3
<1>4. CASE s \notin gone
  BY <1>1, <1>2, <1>4, LogsOf
<1> QED BY <1>3, <1>4

LEMMA PruneKnows ==
  ASSUME Shape, [Next]_vars, RecordedAtMostOnce, NEW p \in Ingests, Knows(mem[p]),
         NEW gone, Removes(p, gone)
  PROVE  RecordedAtMostOnce' /\ KnowsThen(mem'[p])
<1> DEFINE m == mem[p]
<1>1. lines' = lines /\ m \in Checkpoints
  BY DEF Removes, Shape
<1>2. \A t \in DOMAIN lines : t \in Times /\ lines[t] \in Sessions
  BY Numbering
<1>3. \A t \in Times : copies'[t] = IF t \in DOMAIN lines /\ lines[t] \in gone THEN 0 ELSE copies[t]
  BY DEF Removes
<1>4. /\ mem'[p].at = m.at
      /\ \A s \in Sessions \ gone : mem'[p].last[s] = m.last[s] /\ mem'[p].cut[s] = m.cut[s]
  BY <1>1 DEF Removes, Shape, Checkpoints
<1>5. RecordedAtMostOnce'
  BY <1>1, <1>3 DEF RecordedAtMostOnce
<1>6. \A s \in Sessions : LogOf(s)' = IF s \in gone THEN {} ELSE LogOf(s)
  BY RemovedLogs
<1> QED BY <1>1, <1>2, <1>3, <1>4, <1>5, <1>6 DEF Knows, KnowsThen

LEMMA OrderStep == Shape /\ LockInv /\ OrderInv /\ [Next]_vars => OrderInv'
<1> SUFFICES ASSUME Shape, LockInv, OrderInv, [Next]_vars, ~(setbacks' > 0), ~rolled'
             PROVE  Orderly'
  BY DEF OrderInv
<1>0. Locked /\ Orderly /\ setbacks' = setbacks
  <2>1. ~rolled
    BY DEF Next, Step, vars, history, HostWrites, HostArchives, HostRestores, ToggleReads, ToggleWrites,
           Start, TryLock, Unlink, Retry, Load, IngestFile, Prune, Commit, Release, IngestFails, Kill,
           GrowsStale
  <2> QED BY <2>1, SetbacksStay DEF LockInv, OrderInv
<1>1. \A p, q \in Ingests : AtWork(p) /\ Inside(q) => p = q
  BY <1>0 DEF Locked, Inside, AtWork
<1>2. ASSUME copies' = copies, disk'.at = disk.at, disk'.last = disk.last, disk'.cut = disk.cut,
             \A p \in Ingests : AtWork(p)' <=> AtWork(p),
             \A p \in Ingests : AtWork(p) => mem'[p] = mem[p]
      PROVE  Orderly'
  <2>1. RecordedAtMostOnce' /\ \A m \in Checkpoints : Knows(m) => KnowsThen(m)
    BY <1>0, <1>2, KnowsStays DEF Orderly
  <2>2. \A p \in Ingests : AtWork(p)' => KnowsThen(mem'[p])
    BY <1>0, <1>2, <2>1 DEF Orderly, Shape
  <2>3. (\A p \in Ingests : ~AtWork(p)') => KnowsThen(disk')
    <3>1. (\A p \in Ingests : ~AtWork(p)') => KnowsThen(disk)
      BY <1>0, <1>2, <2>1 DEF Orderly, Shape
    <3> QED BY <1>2, <3>1 DEF KnowsThen
  <2> QED BY <2>1, <2>2, <2>3 DEF Orderly, Knows, KnowsThen
<1>3. ASSUME NEW p \in Ingests, Load(p) PROVE Orderly'
  <2>1. Inside(p) /\ ~AtWork(p) /\ \A q \in Ingests : ~AtWork(q)
    BY <1>1, <1>3 DEF Load, Inside, AtWork
  <2>2. \A q \in Ingests : AtWork(q)' <=> q = p
    BY <1>3, <2>1 DEF Load, Goto, AtWork, Shape
  <2>3. copies' = copies /\ lines' = lines
    BY <1>3 DEF Load
  <2>4. RecordedAtMostOnce' /\ KnowsThen(disk)
    BY <1>0, <2>1, <2>3, KnowsStays DEF Orderly, Shape
  <2>5. /\ mem'[p].last = disk.last /\ mem'[p].cut = disk.cut
        /\ \A s \in Sessions : LinesOf(s) # {} => mem'[p].at[s] = disk.at[s]
    <3> DEFINE at == [s \in Sessions |-> IF s \in Present THEN disk.at[s] ELSE 0]
    <3>1. mem'[p] = [disk EXCEPT !.at = at]
      BY <1>3 DEF Load, Shape
    <3>2. mem'[p].at = at /\ mem'[p].cut = disk.cut /\ mem'[p].last = disk.last
      BY <3>1 DEF Shape, Checkpoints
    <3> QED BY <1>0, <3>2 DEF Present, Locked
  <2>6. \A t \in DOMAIN lines : lines[t] \in Sessions /\ LinesOf(lines[t]) # {}
    BY Numbering DEF LinesOf
  <2>7. KnowsThen(mem'[p])
    BY <2>3, <2>4, <2>5, <2>6 DEF KnowsThen
  <2> QED BY <2>2, <2>4, <2>7 DEF Orderly, Knows, KnowsThen
<1>4. ASSUME NEW p \in Ingests, AtWork(p), AtWork(p)', \A q \in Ingests : q # p => pc'[q] = pc[q],
             RecordedAtMostOnce', KnowsThen(mem'[p])
      PROVE  Orderly'
  <2>1. \A q \in Ingests : AtWork(q)' <=> q = p
    BY <1>1, <1>4 DEF AtWork, Inside
  <2> QED BY <1>4, <2>1 DEF Orderly, Knows, KnowsThen
<1>5. ASSUME NEW p \in Ingests, IngestFile(p) PROVE Orderly'
  <2>1. PICK s, took : Takes(p, s, took)
    BY <1>5, IngestTakes
  <2>2. AtWork(p) /\ AtWork(p)' /\ \A q \in Ingests : pc'[q] = pc[q]
    BY <2>1 DEF Takes, AtWork
  <2> QED BY <1>0, <1>4, <2>1, <2>2, ObserveKnows DEF Orderly
<1>6. ASSUME NEW p \in Ingests, Prune(p) PROVE Orderly'
  <2>1. PICK gone : Removes(p, gone)
    BY <1>6, PruneRemoves
  <2>2. AtWork(p) /\ AtWork(p)' /\ \A q \in Ingests : q # p => pc'[q] = pc[q]
    BY <2>1 DEF Removes, Goto, AtWork, Shape
  <2> QED BY <1>0, <1>4, <2>1, <2>2, PruneKnows DEF Orderly
<1>7. ASSUME NEW p \in Ingests, Commit(p) PROVE Orderly'
  <2>1. AtWork(p) /\ copies' = copies
    BY <1>7 DEF Commit, AtWork
  <2>2. \A q \in Ingests : ~AtWork(q)'
    BY <1>1, <1>7, <2>1 DEF Commit, Goto, AtWork, Inside, Shape
  <2>3. RecordedAtMostOnce' /\ KnowsThen(mem[p])
    BY <1>0, <2>1, KnowsStays DEF Orderly, Shape
  <2>4. disk'.at = mem[p].at /\ disk'.last = mem[p].last /\ disk'.cut = mem[p].cut
    BY <1>7 DEF Commit, Shape, Checkpoints
  <2> QED BY <2>2, <2>3, <2>4 DEF Orderly, Knows, KnowsThen
<1>8. CASE ToggleWrites
  <2>1. disk = toggle.read
    BY <1>8 DEF ToggleWrites
  <2>2. disk'.at = disk.at /\ disk'.last = disk.last /\ disk'.cut = disk.cut
    BY <1>8, <2>1 DEF ToggleWrites, Shape, Checkpoints
  <2> QED BY <1>2, <1>8, <2>2 DEF ToggleWrites, local, AtWork
<1>9. ASSUME NEW p \in Ingests, TryLock(p) \/ Start(p) \/ Release(p) PROVE Orderly'
  <2>1. ~AtWork(p)
    BY <1>9 DEF TryLock, Start, Release, AtWork
  <2>2. PICK step \in {"idle", "load", "lock", "unlink"} : pc' = [pc EXCEPT ![p] = step]
    BY <1>9 DEF TryLock, Start, Release, Leave, Goto
  <2>3. \A q \in Ingests : AtWork(q)' <=> AtWork(q)
    BY <2>1, <2>2 DEF AtWork, Shape
  <2>4. \A q \in Ingests : q # p => mem'[q] = mem[q]
    BY <1>9 DEF TryLock, Start, Release, Leave, Forget, Shape
  <2>5. disk' = disk /\ copies' = copies
    BY <1>9 DEF TryLock, Start, Release
  <2> QED BY <1>2, <2>1, <2>3, <2>4, <2>5
<1>10. ASSUME NEW p \in Ingests, Unlink(p) \/ Retry(p) \/ IngestFails(p) \/ Kill(p) PROVE Orderly'
  BY <1>0, <1>10 DEF Unlink, Retry, IngestFails, Kill, Locked, Shape
<1>11. ASSUME NEW s \in Sessions, HostWrites(s) \/ HostArchives(s) \/ HostRestores(s) PROVE Orderly'
  BY <1>2, <1>11 DEF HostWrites, HostArchives, HostRestores, local, AtWork
<1>12. ASSUME NEW on \in BOOLEAN, ToggleReads(on) PROVE Orderly'
  BY <1>2, <1>12 DEF ToggleReads, local, AtWork
<1>13. CASE GrowsStale
  BY <1>2, <1>13 DEF GrowsStale, local, AtWork
<1>14. CASE UNCHANGED vars
  BY <1>2, <1>14 DEF vars, local, AtWork
<1> QED BY <1>3, <1>5, <1>6, <1>7, <1>8, <1>9, <1>10, <1>11, <1>12, <1>13, <1>14 DEF Next, Step

LEMMA OrderInit == Init => LockInv /\ OrderInv
<1> SUFFICES ASSUME Init PROVE Locked /\ Orderly
  BY DEF LockInv, OrderInv
<1>1. Locked
  BY DEF Init, Locked, Inside
<1>2. RecordedAtMostOnce
  BY DEF Init, RecordedAtMostOnce
<1>3. Knows(disk)
  BY ShapeInit, Numbering DEF Init, Knows, LogOf, LinesOf, Times
<1> QED BY <1>1, <1>2, <1>3 DEF Init, Orderly, AtWork

(* Each line of a rollout that counts as read is in its log, and as long   *)
(* as nothing was cut short it is there once, whatever triggers overlap    *)
(* (_ingest_locked, _acquire_lock, _read_new_complete_lines).              *)
THEOREM LinesAreRecordedOnce == Spec => []EachLineOnce
<1> DEFINE Inv == Shape /\ SoundInv /\ LockInv /\ OrderInv
<1>1. Init => Inv
  BY ShapeInit, SoundInit, OrderInit
<1>2. Inv /\ [Next]_vars => Inv'
  BY ShapeStep, SoundStep, LockStep, OrderStep
<1>3. Inv => EachLineOnce
  <2> SUFFICES ASSUME Inv PROVE RecordedOnce /\ NothingSkipped
    BY DEF EachLineOnce
  <2>1. RecordedOnce
    BY Numbering DEF RecordedOnce, OrderInv, Orderly, RecordedAtMostOnce
  <2>2. NothingSkipped
    BY DEF NothingSkipped, SoundInv, Sound
  <2> QED BY <2>1, <2>2
<1> HIDE DEF Inv
<1> QED BY <1>1, <1>2, <1>3, PTL DEF Spec

(* Retention removes the log of no session that was active after one whose *)
(* log it keeps, however late the older one was read (_retention_key).     *)
THEOREM OldestIsEvicted == Spec => EvictsTheOldest
<1> DEFINE Inv == Shape /\ LockInv /\ OrderInv
           Oldest == \A g, k \in Sessions :
             setbacks = 0 /\ ~rolled /\ LogOf(g) # {} /\ LogOf(g)' = {} /\ LogOf(k)' # {} =>
               \/ Max(LogOf(g)) < Max(LogOf(k))
               \/ \E p \in Ingests : mem[p].cut[k]
<1>1. Init => Inv
  BY ShapeInit, OrderInit
<1>2. Inv /\ [Next]_vars => Inv'
  BY ShapeStep, LockStep, OrderStep
<1>3. Inv /\ [Next]_vars => [Oldest]_vars
  <2> SUFFICES ASSUME Inv, [Next]_vars, NEW g \in Sessions, NEW k \in Sessions, setbacks = 0, ~rolled,
                      LogOf(g) # {}, LogOf(g)' = {}, LogOf(k)' # {}, \A p \in Ingests : ~mem[p].cut[k]
               PROVE  Max(LogOf(g)) < Max(LogOf(k))
    BY DEF Oldest
  <2>1. Orderly
    BY DEF OrderInv, LockInv
  <2>2. PICK t \in DOMAIN lines : lines[t] = g /\ copies[t] > 0
    BY LogsOf
  <2>3. t \in DOMAIN lines' /\ lines'[t] = g /\ ~(copies'[t] > 0)
    BY <2>2, LinesGrow DEF LogOf, LinesOf
  <2>4. PICK p \in Ingests : \E gone : Removes(p, gone)
    <3>1. ASSUME NEW p \in Ingests, NEW s, NEW took, Takes(p, s, took) PROVE copies'[t] > 0
      <4>1. t \in Times /\ copies[t] \in Nat
        BY <2>2, Numbering DEF Shape
      <4> HIDE DEF IsFull
      <4> QED BY <2>2, <3>1, <4>1 DEF Takes
    <3> QED BY <2>2, <2>3, <3>1, CopiesChange
  <2>0. PICK gone : Removes(p, gone)
    BY <2>4
  <2> DEFINE m == mem[p]
  <2>5. m \in Checkpoints /\ Knows(m)
    BY <2>1, <2>0 DEF Removes, Orderly, AtWork, Shape
  <2>6. \A s \in Sessions : LogOf(s)' = IF s \in gone THEN {} ELSE LogOf(s)
    BY <2>0, RemovedLogs
  <2>7. g \in gone /\ k \notin gone /\ LogOf(k) # {}
    BY <2>6
  <2>8. m.last[g] <= m.last[k]
    BY <2>0, <2>7 DEF Removes, Surplus
  <2>9. m.last[k] \in LogOf(k)
    BY <2>5, <2>7 DEF Knows
  <2>10. \A s \in Sessions : LogOf(s) \subseteq 1..Len(lines)
    BY LogsOf, Numbering
  <2>11. /\ Max(LogOf(g)) \in LogOf(g)
         /\ Max(LogOf(k)) \in LogOf(k) /\ m.last[k] <= Max(LogOf(k))
    BY <2>7, <2>9, <2>10, MaxLemma, Numbering
  <2>12. Max(LogOf(g)) <= m.last[g]
    BY <2>5, <2>11, LogsOf DEF Knows
  <2>13. Max(LogOf(g)) # Max(LogOf(k))
    BY <2>7, <2>11, LogsOf
  <2>14. m.last[g] \in Nat /\ m.last[k] \in Nat /\ Max(LogOf(g)) \in Nat /\ Max(LogOf(k)) \in Nat
    <3>1. m.last[g] \in Nat /\ m.last[k] \in Nat
      BY <2>5, LedgerAssumption DEF Checkpoints
    <3>2. Max(LogOf(g)) \in 1..Len(lines) /\ Max(LogOf(k)) \in 1..Len(lines)
      BY <2>10, <2>11
    <3> QED BY <3>1, <3>2
  <2> HIDE DEF m
  <2> QED BY <2>8, <2>11, <2>12, <2>13, <2>14
<1> HIDE DEF Inv
<1> QED BY <1>1, <1>2, <1>3, PTL DEF Spec, EvictsTheOldest, Oldest

-----------------------------------------------------------------------------
(* The closeout.                                                           *)

\* The session is in its stop hook.
Stopping(s) ==
  hookAt[s] \in {"approvals", "plans", "memory", "bump", "count", "answer", "escalate"}

\* How often the session was told this reason, as far as the last blocks go.
Told(s, reason) == IF told[s].reason = reason THEN told[s].count ELSE 0

(* Reading one ledger after the other is enough: as long as nothing        *)
(* excuses the session, something is open that was open when its hook      *)
(* began, and it is in none of the ledgers already read and found empty.   *)
ReadsMeanIt ==
  \A s \in HostSessions :
    /\ Reading(s) /\ ~excused[s] => open # {}
    /\ hookAt[s] = "plans" => seen[s] \subseteq Approvals
    /\ hookAt[s] = "plans" /\ ~excused[s] /\ seen[s] = {} => open \cap Approvals = {}
    /\ hookAt[s] = "memory" /\ ~excused[s] => open \cap (Approvals \cup Plans) = {}

(* A verdict is about the last closeout: there is none while a hook runs.  *)
NoVerdictYet == \A s \in HostSessions : Stopping(s) => verdict[s] = "none"

(* Who goes on after a block was told of one.                              *)
ResumedAfterBlock ==
  \A s \in HostSessions : resumed[s] \/ verdict[s] = "RESUMED" => told[s].count > 0

(* The counter of a directory that one session has to itself runs ahead of *)
(* what it was told by the block about to be answered, and by the hooks    *)
(* killed.                                                                 *)
Backed(s) ==
  LET was == counter[DirOf[s]] IN
  /\ hookAt[s] = "count" => counted[s] = was
  /\ hookAt[s] \in {"answer", "escalate"} => was.reason = seen[s]
  /\ hookAt[s] = "answer" =>
       was.count < Threshold /\ was.count <= Told(s, seen[s]) + kills + 1
  /\ hookAt[s] = "escalate" => Told(s, seen[s]) + kills >= Threshold - 1
  /\ hookAt[s] \notin {"answer", "escalate"} =>
       \/ was.count <= Told(s, was.reason) + kills
       \/ Threshold - 1 <= Told(s, was.reason) + kills

CounterIsBacked == \A s \in HostSessions : OwnDirectory(s) => Backed(s)

(* What sessions of a directory were told, are about to be told or missed  *)
(* by a kill backs its counter, every copy of it a hook holds, and every   *)
(* escalation.                                                             *)
Evidence(d, reason) == toldIn[d][reason] + Cardinality(AboutToTell(d, reason)) + kills
Supports(d, was) ==
  was.count <= Evidence(d, was.reason) \/ Threshold - 1 <= Evidence(d, was.reason)
CountersSupported ==
  /\ \A d \in Dirs, was \in Counts : counter[d] = was => Supports(d, was)
  /\ \A s \in HostSessions, was \in Counts :
       hookAt[s] = "count" /\ counted[s] = was => Supports(DirOf[s], was)
  /\ \A s \in HostSessions, reason \in Reasons :
       (hookAt[s] = "escalate" \/ verdict[s] = "ESCALATED") /\ seen[s] = reason =>
         Threshold - 1 <= Evidence(DirOf[s], reason)

CleanInv == CloseoutTypeOK /\ ReadsMeanIt /\ NoVerdictYet /\ PassedWhenClean
CountInv == CounterIsBacked /\ ToldTwiceBeforeEscalation /\ ResumedAfterBlock

-----------------------------------------------------------------------------
USE DEF Reading, Claiming, Stopping, Counts

LEMMA CloseoutInitInv == CloseoutInit => CleanInv /\ CountInv
  <1> SUFFICES ASSUME CloseoutInit PROVE CleanInv /\ CountInv
    OBVIOUS
  <1>1. CloseoutTypeOK
    <2>1. {} \in Reasons /\ 0 \in 0..Threshold
      BY DEF Reasons, Threshold
    <2>2. 0 \in 0..MaxEvents /\ 0 \in 0..MaxKills
      BY CloseoutAssumption
    <2> QED
      BY <2>1, <2>2 DEF CloseoutInit, CloseoutTypeOK, Uncounted
  <1>2. /\ ReadsMeanIt /\ NoVerdictYet /\ PassedWhenClean /\ ToldTwiceBeforeEscalation
        /\ ResumedAfterBlock
    BY DEF CloseoutInit, ReadsMeanIt, NoVerdictYet, PassedWhenClean, ToldTwiceBeforeEscalation,
       ResumedAfterBlock
  <1>3. CounterIsBacked
    BY CloseoutAssumption DEF CloseoutInit, CounterIsBacked, Backed, Told, Threshold, Uncounted
  <1> QED
    BY <1>1, <1>2, <1>3 DEF CleanInv, CountInv

(* The block counted next, and that it is a reason with a count.           *)
LEMMA BumpCounts ==
  ASSUME NEW was, was.reason \in Reasons, was.count \in 0..Threshold, NEW reason \in Reasons
  PROVE  /\ Bump(was, reason) \in Counts
         /\ Bump(was, reason).reason = reason /\ Bump(was, reason).count > 0
         /\ was.reason # reason => Bump(was, reason).count = 1
         /\ was.reason = reason /\ was.count = Threshold => Bump(was, reason).count = Threshold
         /\ was.reason = reason /\ was.count # Threshold => Bump(was, reason).count = was.count + 1
  BY DEF Bump, Threshold

\* What a session was told, has read and counted.
LEMMA SessionTypes ==
  ASSUME CloseoutTypeOK, NEW s \in HostSessions
  PROVE  /\ told[s] \in Counts /\ told[s].count \in 0..3 /\ told[s].count \in Nat
         /\ counted[s] \in Counts /\ seen[s] \in Reasons
         /\ DirOf[s] \in Dirs /\ counter[DirOf[s]] \in Counts /\ kills \in Nat
  <1>1. told[s] \in Counts /\ counted[s] \in Counts /\ seen[s] \in Reasons
    BY DEF CloseoutTypeOK
  <1>2. told[s].count \in 0..3
    BY <1>1 DEF Threshold
  <1>3. DirOf[s] \in Dirs /\ counter[DirOf[s]] \in Counts /\ kills \in Nat
    BY CloseoutAssumption DEF CloseoutTypeOK
  <1> QED
    BY <1>1, <1>2, <1>3

(* Every step keeps the types.                                             *)
LEMMA CloseoutTypeStep == CloseoutTypeOK /\ ReadsMeanIt /\ [CloseoutNext]_closeoutVars => CloseoutTypeOK'
  <1> SUFFICES ASSUME CloseoutTypeOK, ReadsMeanIt, [CloseoutNext]_closeoutVars PROVE CloseoutTypeOK'
    OBVIOUS
  <1> USE DEF CloseoutTypeOK, hooks, host, answers, HookGoesTo
  <1>0. Uncounted \in Counts /\ {} \in Reasons
    BY DEF Uncounted, Reasons, Threshold
  <1>1. ASSUME NEW s \in HostSessions, NEW b \in Blockers, Open(s, b) PROVE CloseoutTypeOK'
    BY <1>1, CloseoutAssumption DEF Open
  <1>2. ASSUME NEW s \in HostSessions, Stop(s) PROVE CloseoutTypeOK'
    BY <1>0, <1>2 DEF Stop
  <1>3. ASSUME NEW s \in HostSessions, ReadApprovals(s) PROVE CloseoutTypeOK'
    BY <1>3 DEF ReadApprovals, Reasons
  <1>4. ASSUME NEW s \in HostSessions, ReadPlans(s) PROVE CloseoutTypeOK'
    <2>1. seen[s] \cup (open \cap Plans) \in Reasons
      BY <1>4 DEF ReadPlans, ReadsMeanIt, Reasons
    <2> QED
      BY <1>4, <2>1 DEF ReadPlans
  <1>5. ASSUME NEW s \in HostSessions, ReadMemory(s) PROVE CloseoutTypeOK'
    <2>1. open \cap Memories \in Reasons
      BY DEF Reasons
    <2> QED
      BY <1>5, <2>1 DEF ReadMemory, Pass
  <1>6. ASSUME NEW s \in HostSessions, ReadCounter(s) PROVE CloseoutTypeOK'
    BY <1>6, CloseoutAssumption DEF ReadCounter
  <1>7. ASSUME NEW s \in HostSessions, BumpCounter(s) PROVE CloseoutTypeOK'
    <2>1. Bump(counted[s], seen[s]) \in Counts
      BY BumpCounts
    <2> QED
      BY <1>0, <1>7, <2>1 DEF BumpCounter
  <1>8. ASSUME NEW s \in HostSessions, Answer(s) PROVE CloseoutTypeOK'
    <2>1. Bump(told[s], seen[s]) \in Counts
      BY BumpCounts
    <2>2. told' = [told EXCEPT ![s] = Bump(told[s], seen[s])]
      BY <1>8 DEF Answer
    <2>4. told' \in [HostSessions -> Counts]
      BY <2>1, <2>2
    <2>5. toldIn' \in [Dirs -> [Reasons -> 0..Threshold]]
      <3>1. DirOf[s] \in Dirs /\ toldIn[DirOf[s]][seen[s]] \in 0..Threshold
        BY CloseoutAssumption
      <3>2. toldIn' = [toldIn EXCEPT ![DirOf[s]][seen[s]] = IF @ = Threshold THEN Threshold ELSE @ + 1]
        BY <1>8 DEF Answer
      <3> QED
        BY <3>1, <3>2 DEF Threshold
    <2> QED
      BY <1>0, <1>8, <2>4, <2>5 DEF Answer
  <1>9. ASSUME NEW s \in HostSessions, Escalate(s) \/ StopResumed(s) PROVE CloseoutTypeOK'
    BY <1>9 DEF Escalate, StopResumed
  <1>10. ASSUME NEW s \in HostSessions, Compact(s) PROVE CloseoutTypeOK'
    BY <1>10, CloseoutAssumption DEF Compact
  <1>11. ASSUME NEW s \in HostSessions,
                (\E fromCompact \in BOOLEAN : ReadMarker(s, fromCompact)) \/ Claim(s) \/ Inject(s)
         PROVE  CloseoutTypeOK'
    BY <1>11 DEF ReadMarker, Claim, Inject
  <1>12. ASSUME NEW s \in HostSessions, KillHook(s) PROVE CloseoutTypeOK'
    <2>1. /\ seen' \in [HostSessions -> Reasons] /\ excused' \in [HostSessions -> BOOLEAN]
          /\ counted' \in [HostSessions -> Counts]
      BY <1>0, <1>12 DEF KillHook
    <2> QED
      BY <1>12, <2>1, CloseoutAssumption DEF KillHook
  <1>13. ASSUME NEW b \in Blockers, Resolve(b) PROVE CloseoutTypeOK'
    BY <1>13 DEF Resolve
  <1>14. CASE UNCHANGED closeoutVars
    BY <1>14 DEF closeoutVars
  <1> QED
    BY <1>1, <1>2, <1>3, <1>4, <1>5, <1>6, <1>7, <1>8, <1>9, <1>10, <1>11, <1>12, <1>13, <1>14
       DEF CloseoutNext, StopHook

(* Every step keeps what the reads say, and the verdict given on it.       *)
LEMMA CleanStep == CleanInv /\ [CloseoutNext]_closeoutVars => CleanInv'
  <1> SUFFICES ASSUME CleanInv, [CloseoutNext]_closeoutVars PROVE (ReadsMeanIt /\ NoVerdictYet /\ PassedWhenClean)'
    BY CloseoutTypeStep DEF CleanInv
  <1> DEFINE Clean == ReadsMeanIt /\ NoVerdictYet /\ PassedWhenClean
  <1> USE DEF CleanInv, CloseoutTypeOK, ReadsMeanIt, NoVerdictYet, PassedWhenClean, hooks, host,
              answers, HookGoesTo
  <1>1. ASSUME NEW s \in HostSessions, NEW b \in Blockers, Open(s, b) PROVE Clean'
    BY <1>1 DEF Open
  <1>2. ASSUME NEW s \in HostSessions, Stop(s) PROVE Clean'
    BY <1>2 DEF Stop
  <1>3. ASSUME NEW s \in HostSessions, ReadApprovals(s) PROVE Clean'
    BY <1>3 DEF ReadApprovals
  <1>4. ASSUME NEW s \in HostSessions, ReadPlans(s) PROVE Clean'
    BY <1>4 DEF ReadPlans
  <1>5. ASSUME NEW s \in HostSessions, ReadMemory(s) PROVE Clean'
    <2>1. /\ hookAt[s] = "memory" /\ UNCHANGED open
          /\ excused' = [excused EXCEPT ![s] = @ /\ open \cap Memories = {}]
          /\ \E step \in {"working", "bump"} : hookAt' = [hookAt EXCEPT ![s] = step]
          /\ seen' = [seen EXCEPT ![s] = open \cap Memories]
      BY <1>5 DEF ReadMemory, Pass
    <2>2. \/ hookAt'[s] = "bump" /\ verdict' = verdict
          \/ /\ hookAt'[s] = "working" /\ open \cap Memories = {}
             /\ verdict' = [verdict EXCEPT ![s] = "PASS"]
      BY <1>5 DEF ReadMemory, Pass
    <2>3. open \cap Memories = {} => excused'[s]
      <3>1. ~excused[s] => open # {} /\ open \cap (Approvals \cup Plans) = {}
        BY <2>1
      <3>2. open \subseteq Approvals \cup Plans \cup Memories
        BY DEF Blockers
      <3> QED
        BY <2>1, <3>1, <3>2
    <2>4. \A t \in HostSessions :
            /\ t # s => UNCHANGED <<hookAt[t], seen[t], excused[t], verdict[t]>>
            /\ t = s => hookAt'[t] \in {"working", "bump"}
      BY <2>1, <2>2
    <2>5. ReadsMeanIt'
      <3> SUFFICES ASSUME NEW t \in HostSessions
                   PROVE  /\ Reading(t)' /\ ~excused'[t] => open' # {}
                          /\ hookAt'[t] = "plans" => seen'[t] \subseteq Approvals
                          /\ hookAt'[t] = "plans" /\ ~excused'[t] /\ seen'[t] = {} =>
                               open' \cap Approvals = {}
                          /\ hookAt'[t] = "memory" /\ ~excused'[t] =>
                               open' \cap (Approvals \cup Plans) = {}
        BY DEF ReadsMeanIt
      <3>1. CASE t = s
        BY <2>4, <3>1
      <3>2. CASE t # s
        BY <2>1, <2>4, <3>2
      <3> QED
        BY <3>1, <3>2
    <2>6. NoVerdictYet'
      BY <2>1, <2>2, <2>4 DEF CleanInv
    <2>7. PassedWhenClean'
      <3> SUFFICES ASSUME NEW t \in HostSessions, verdict'[t] = "PASS" PROVE excused'[t]
        OBVIOUS
      <3>1. CASE t = s
        <4>1. verdict[s] = "none"
          BY <2>1
        <4> QED
          BY <2>2, <2>3, <3>1, <4>1
      <3>2. CASE t # s
        <4>1. verdict[t] = "PASS" /\ excused'[t] = excused[t]
          BY <2>4, <3>2
        <4> QED
          BY <4>1
      <3> QED
        BY <3>1, <3>2
    <2> QED
      BY <2>5, <2>6, <2>7
  <1>6. ASSUME NEW s \in HostSessions,
               ReadCounter(s) \/ BumpCounter(s) \/ Answer(s) \/ Escalate(s) \/ StopResumed(s)
        PROVE  Clean'
    <2>1. /\ UNCHANGED <<open, excused>>
          /\ \A t \in HostSessions :
               /\ t # s => UNCHANGED <<hookAt[t], seen[t], verdict[t]>>
               /\ t = s => /\ hookAt'[t] \in {"working", "count", "answer", "escalate"}
                           /\ verdict'[t] = verdict[t] \/ verdict'[t] \in {"RESUMED", "ESCALATED"}
                           /\ hookAt'[t] # "working" => Stopping(t) /\ verdict'[t] = verdict[t]
      BY <1>6 DEF ReadCounter, BumpCounter, Answer, Escalate, StopResumed
    <2> QED
      BY <2>1
  <1>7. ASSUME NEW s \in HostSessions,
               \/ Compact(s) \/ Claim(s) \/ Inject(s)
               \/ \E fromCompact \in BOOLEAN : ReadMarker(s, fromCompact)
        PROVE  Clean'
    <2>1. /\ UNCHANGED <<open, excused, seen, verdict>>
          /\ \A t \in HostSessions :
               hookAt'[t] = hookAt[t] \/ hookAt'[t] \in {"working", "claim", "inject"}
      BY <1>7 DEF Compact, Claim, Inject, ReadMarker
    <2> QED
      BY <2>1
  <1>8. ASSUME NEW s \in HostSessions, KillHook(s) PROVE Clean'
    BY <1>8 DEF KillHook
  <1>9. ASSUME NEW b \in Blockers, Resolve(b) PROVE Clean'
    BY <1>9 DEF Resolve
  <1>10. CASE UNCHANGED closeoutVars
    BY <1>10 DEF closeoutVars
  <1> QED
    BY <1>1, <1>2, <1>3, <1>4, <1>5, <1>6, <1>7, <1>8, <1>9, <1>10 DEF CloseoutNext, StopHook

\* Steps that neither count nor tell, and change no reason a count is about.
LEMMA CountKept ==
  ASSUME CleanInv, CountInv, counter' = counter, kills' = kills,
         \A t \in HostSessions :
           /\ told'[t].reason = told[t].reason /\ told'[t].count = told[t].count
           /\ hookAt'[t] \in {"count", "answer", "escalate"} =>
                hookAt'[t] = hookAt[t] /\ counted'[t] = counted[t] /\ seen'[t] = seen[t]
           /\ hookAt[t] \in {"answer", "escalate"} => hookAt'[t] = hookAt[t]
           /\ verdict'[t] = "ESCALATED" => verdict[t] = "ESCALATED" /\ seen'[t] = seen[t]
           /\ resumed'[t] \/ verdict'[t] = "RESUMED" => resumed[t] \/ verdict[t] = "RESUMED"
  PROVE  CountInv'
  <1>1. \A t \in HostSessions, r \in Reasons : Told(t, r)' = Told(t, r)
    BY DEF Told
  <1>2. \A t \in HostSessions : seen[t] \in Reasons /\ counter[DirOf[t]].reason \in Reasons
    BY CloseoutAssumption DEF CleanInv, CloseoutTypeOK
  <1>3. CounterIsBacked'
    <2> SUFFICES ASSUME NEW t \in HostSessions, OwnDirectory(t) PROVE Backed(t)'
      BY DEF CounterIsBacked, OwnDirectory
    <2>1. Backed(t)
      BY DEF CountInv, CounterIsBacked
    <2>2. PICK r \in Reasons, q \in Reasons : r = counter[DirOf[t]].reason /\ q = seen[t]
      BY <1>2
    <2>3. Told(t, r)' = Told(t, r) /\ Told(t, q)' = Told(t, q)
      BY <1>1
    <2>4. counter'[DirOf[t]].reason = r
      BY <2>2
    <2>5. CASE hookAt'[t] \in {"answer", "escalate"}
      <3>1. hookAt'[t] = hookAt[t] /\ seen'[t] = q
        BY <2>2, <2>5
      <3> QED
        BY <2>1, <2>2, <2>3, <2>5, <3>1 DEF Backed, Told
    <2>6. CASE hookAt'[t] \notin {"answer", "escalate"}
      <3>1. hookAt[t] \notin {"answer", "escalate"}
        BY <2>6
      <3> QED
        BY <2>1, <2>2, <2>3, <2>4, <2>6, <3>1 DEF Backed, Told
    <2> QED
      BY <2>5, <2>6
  <1>4. ToldTwiceBeforeEscalation'
    BY DEF CountInv, ToldTwiceBeforeEscalation, OwnDirectory
  <1>5. ResumedAfterBlock'
    BY DEF CountInv, ResumedAfterBlock
  <1> QED
    BY <1>3, <1>4, <1>5 DEF CountInv

(* Every step keeps backed what one session alone counts.                  *)
LEMMA CountStep == CleanInv /\ CountInv /\ [CloseoutNext]_closeoutVars => CountInv'
  <1> SUFFICES ASSUME CleanInv, CountInv, [CloseoutNext]_closeoutVars PROVE CountInv'
    OBVIOUS
  <1> USE DEF CleanInv, CloseoutTypeOK, NoVerdictYet, CountInv, CounterIsBacked, Backed, Told,
              ToldTwiceBeforeEscalation, ResumedAfterBlock, hooks, host, answers, HookGoesTo,
              Threshold, OwnDirectory
  <1>1. ASSUME NEW b \in Blockers, Resolve(b) \/ \E s \in HostSessions : Open(s, b)
        PROVE  CountInv'
    BY <1>1, CountKept DEF Resolve, Open
  <1>2. ASSUME NEW s \in HostSessions,
               Stop(s) \/ ReadApprovals(s) \/ ReadPlans(s) \/ StopResumed(s)
        PROVE  CountInv'
    BY <1>2, CountKept DEF Stop, ReadApprovals, ReadPlans, StopResumed
  <1>3. ASSUME NEW s \in HostSessions, ReadMemory(s) PROVE CountInv'
    BY <1>3, CountKept DEF ReadMemory, Pass
  <1>4. ASSUME NEW s \in HostSessions, ReadCounter(s) PROVE CountInv'
    BY <1>4 DEF ReadCounter
  <1>5. ASSUME NEW s \in HostSessions, BumpCounter(s) PROVE CountInv'
    <2> DEFINE was == counted[s]
               next == Bump(was, seen[s])
    <2>1. was \in Counts /\ seen[s] \in Reasons /\ kills \in Nat /\ Told(s, seen[s]) \in Nat
      <3>1. was \in Counts /\ seen[s] \in Reasons /\ told[s].count \in Nat /\ kills \in Nat
        BY SessionTypes
      <3> QED
        BY <3>1
    <2>2. /\ next.reason = seen[s] /\ next.count \in 0..Threshold
          /\ \/ next.count <= 1
             \/ was.reason = seen[s] /\ (next.count = was.count + 1 \/ was.count = 3)
      BY <2>1, BumpCounts
    <2>3. /\ UNCHANGED <<told, kills, seen, verdict, resumed>>
          /\ hookAt[s] = "count" /\ DirOf[s] \in Dirs
          /\ counter' = [counter EXCEPT ![DirOf[s]] = next]
          /\ hookAt'[s] = IF next.count >= Threshold THEN "escalate" ELSE "answer"
          /\ \A t \in HostSessions : t # s => UNCHANGED <<hookAt[t], counted[t]>>
      BY <1>5, CloseoutAssumption DEF BumpCounter
    <2>4. counter'[DirOf[s]] = next /\ \A d \in Dirs : d # DirOf[s] => counter'[d] = counter[d]
      BY <2>3
    <2>5. ASSUME NEW t \in HostSessions, OwnDirectory(t), t # s PROVE Backed(t)'
      <3>1. DirOf[t] # DirOf[s] /\ DirOf[t] \in Dirs
        BY <2>5, CloseoutAssumption DEF OwnDirectory
      <3>2. UNCHANGED <<counter[DirOf[t]], hookAt[t], counted[t], seen[t], told, kills>> /\ Backed(t)
        BY <2>3, <2>4, <2>5, <3>1
      <3> QED
        BY <3>2
    <2>6. ASSUME OwnDirectory(s) PROVE Backed(s)'
      <3>1. was.reason = seen[s] =>
              was.count <= Told(s, seen[s]) + kills \/ 2 <= Told(s, seen[s]) + kills
        <4>1. Backed(s)
          BY <2>6
        <4>2. counted[s] = counter[DirOf[s]]
          BY <2>3, <4>1
        <4> QED
          BY <2>3, <4>1, <4>2
      <3>2. was.count \in 0..3
        BY <2>1
      <3>3. Told(s, seen[s])' = Told(s, seen[s]) /\ seen'[s] = seen[s] /\ kills' = kills
        BY <2>3
      <3> HIDE DEF next, was, Told
      <3>4. /\ hookAt'[s] = "answer" =>
                 next.count < 3 /\ next.count <= Told(s, seen[s]) + kills + 1
            /\ hookAt'[s] = "escalate" => Told(s, seen[s]) + kills >= 2
        BY <2>1, <2>2, <2>3, <3>1, <3>2
      <3> QED
        BY <2>2, <2>3, <2>4, <3>3, <3>4
    <2>7. CounterIsBacked'
      BY <2>5, <2>6 DEF OwnDirectory
    <2> QED
      BY <2>3, <2>7
  <1>6. ASSUME NEW s \in HostSessions, Answer(s) PROVE CountInv'
    <2> DEFINE again == Bump(told[s], seen[s])
    <2>1. /\ hookAt[s] = "answer" /\ UNCHANGED <<counter, verdict, counted, kills>>
          /\ told'[s].reason = seen[s] /\ told'[s].count = again.count
          /\ hookAt'[s] = "working"
          /\ \A t \in HostSessions : t # s => UNCHANGED <<told[t], resumed[t], seen[t], hookAt[t]>>
      <3>1. again.reason = seen[s]
        BY BumpCounts, SessionTypes
      <3>2. told' = [told EXCEPT ![s] = again]
        BY <1>6 DEF Answer
      <3>3. /\ hookAt[s] = "answer" /\ UNCHANGED <<counter, verdict, counted, kills>>
            /\ hookAt' = [hookAt EXCEPT ![s] = "working"]
            /\ seen' = [seen EXCEPT ![s] = {}] /\ resumed' = [resumed EXCEPT ![s] = TRUE]
        BY <1>6 DEF Answer
      <3>4. told \in [HostSessions -> Counts]
        BY DEF Counts
      <3> HIDE DEF again
      <3>5. told'[s] = again /\ \A t \in HostSessions : t # s => told'[t] = told[t]
        BY <3>2, <3>4
      <3> QED
        BY <3>1, <3>3, <3>5
    <2>2. /\ again.count > 0
          /\ told[s].reason # seen[s] => again.count = 1
          /\ told[s].reason = seen[s] =>
               again.count = told[s].count + 1 \/ (told[s].count = 3 /\ again.count = 3)
      BY BumpCounts
    <2>3. verdict[s] = "none"
      BY <2>1
    <2>4. counter[DirOf[s]] \in Counts /\ kills \in Nat /\ told[s].count \in 0..3
      BY CloseoutAssumption
    <2> HIDE DEF again
    <2>5. ASSUME OwnDirectory(s) PROVE Backed(s)'
      <3>1. Backed(s)
        BY <2>5
      <3> QED
        BY <2>1, <2>2, <2>4, <3>1
    <2>6. ASSUME NEW t \in HostSessions, OwnDirectory(t), t # s PROVE Backed(t)'
      <3>1. Backed(t)
        BY <2>6
      <3> QED
        BY <2>1, <2>6, <3>1
    <2>7. CounterIsBacked'
      BY <2>5, <2>6 DEF OwnDirectory
    <2>8. ToldTwiceBeforeEscalation'
      <3> SUFFICES ASSUME NEW t \in HostSessions, OwnDirectory(t), verdict'[t] = "ESCALATED"
                   PROVE  (IF told'[t].reason = seen'[t] THEN told'[t].count ELSE 0) + kills' >= 2
        BY DEF OwnDirectory
      <3>1. t # s /\ verdict[t] = "ESCALATED"
        BY <2>1, <2>3
      <3>2. (IF told[t].reason = seen[t] THEN told[t].count ELSE 0) + kills >= 2
        BY <3>1
      <3>3. told'[t] = told[t] /\ seen'[t] = seen[t] /\ kills' = kills
        BY <2>1, <3>1
      <3> QED
        BY <3>2, <3>3
    <2>9. ResumedAfterBlock'
      BY <2>1, <2>2, <2>3
    <2> QED
      BY <2>7, <2>8, <2>9
  <1>7. ASSUME NEW s \in HostSessions, Escalate(s) PROVE CountInv'
    BY <1>7 DEF Escalate
  <1>8. ASSUME NEW s \in HostSessions,
               \/ Compact(s) \/ Claim(s) \/ Inject(s)
               \/ \E fromCompact \in BOOLEAN : ReadMarker(s, fromCompact)
        PROVE  CountInv'
    BY <1>8, CountKept DEF Compact, Claim, Inject, ReadMarker
  <1>9. ASSUME NEW s \in HostSessions, KillHook(s) PROVE CountInv'
    <2>1. kills \in Nat /\ kills' = kills + 1 /\ UNCHANGED <<counter, told, verdict, resumed>>
      BY <1>9, CloseoutAssumption DEF KillHook
    <2>2. \A t \in HostSessions :
            /\ t # s => UNCHANGED <<hookAt[t], seen[t], counted[t]>>
            /\ t = s => hookAt'[t] = "working" /\ (verdict[t] # "none" => seen'[t] = seen[t])
      BY <1>9 DEF KillHook
    <2>3. ASSUME NEW t \in HostSessions, OwnDirectory(t) PROVE Backed(t)'
      <3>1. Backed(t)
        BY <2>3
      <3>2. PICK r \in Reasons, q \in Reasons : r = counter[DirOf[t]].reason /\ q = seen[t]
        BY CloseoutAssumption
      <3>3. /\ Told(t, r) \in Nat /\ Told(t, r)' = Told(t, r)
            /\ Told(t, q) \in Nat /\ Told(t, q)' = Told(t, q)
        <4>1. told[t].count \in Nat
          <5>1. told \in [HostSessions -> [reason : Reasons, count : 0..3]]
            OBVIOUS
          <5> HIDE DEF Backed, CleanInv, CountInv, CloseoutTypeOK
          <5> QED
            BY <5>1
        <4>2. told' = told
          BY <2>1
        <4> HIDE DEF CleanInv, CountInv, CloseoutTypeOK
        <4> QED
          BY <4>1, <4>2
      <3>4. counter[DirOf[t]].count \in 0..3 /\ counter' = counter
        BY <2>1, CloseoutAssumption
      <3>5. CASE t # s
        <4>1. hookAt'[t] = hookAt[t] /\ seen'[t] = q /\ counted'[t] = counted[t]
          BY <2>2, <3>2, <3>5
        <4> HIDE DEF Told, CleanInv, CountInv, CloseoutTypeOK
        <4> QED
          BY <2>1, <3>1, <3>2, <3>3, <3>4, <4>1 DEF Backed
      <3>6. CASE t = s
        <4>1. hookAt'[t] = "working"
          BY <2>2, <3>6
        <4>2. hookAt[t] \in {"answer", "escalate"} => r = q
          BY <3>1, <3>2
        <4> HIDE DEF Told, CleanInv, CountInv, CloseoutTypeOK
        <4> QED
          BY <2>1, <3>1, <3>2, <3>3, <3>4, <4>1, <4>2 DEF Backed
      <3> QED
        BY <3>5, <3>6
    <2>4. CounterIsBacked'
      BY <2>3 DEF CounterIsBacked, OwnDirectory
    <2>5. ToldTwiceBeforeEscalation'
      <3> SUFFICES ASSUME NEW t \in HostSessions, OwnDirectory(t), verdict'[t] = "ESCALATED"
                   PROVE  (IF told[t].reason = seen'[t] THEN told[t].count ELSE 0) + kills' >= 2
        BY <2>1 DEF ToldTwiceBeforeEscalation, OwnDirectory
      <3>1. verdict[t] = "ESCALATED" /\ seen'[t] = seen[t]
        BY <2>1, <2>2
      <3> DEFINE n == IF told[t].reason = seen[t] THEN told[t].count ELSE 0
      <3>2. n + kills >= Threshold - 1
        BY <3>1 DEF CountInv, ToldTwiceBeforeEscalation
      <3>3. told[t].count \in Nat
        BY SessionTypes
      <3>4. n \in Nat
        BY <3>3
      <3> HIDE DEF n, CleanInv, CountInv, CloseoutTypeOK
      <3>5. n + kills' >= 2
        BY <2>1, <3>2, <3>4
      <3> QED
        BY <3>1, <3>5 DEF n
    <2>6. ResumedAfterBlock'
      BY <2>1
    <2> QED
      BY <2>4, <2>5, <2>6
  <1>10. CASE UNCHANGED closeoutVars
    BY <1>10, CountKept DEF closeoutVars
  <1> QED
    BY <1>1, <1>2, <1>3, <1>4, <1>5, <1>6, <1>7, <1>8, <1>9, <1>10 DEF CloseoutNext, StopHook

-----------------------------------------------------------------------------
(* Directories that sessions share.  What was told, is about to be or was  *)
(* missed is a number.                                                     *)
LEMMA EvidenceCounts ==
  ASSUME CloseoutTypeOK, NEW d \in Dirs, NEW reason \in Reasons
  PROVE  /\ IsFiniteSet(AboutToTell(d, reason)) /\ Cardinality(AboutToTell(d, reason)) \in Nat
         /\ toldIn[d][reason] \in 0..3 /\ kills \in Nat /\ Evidence(d, reason) \in Nat
  <1>1. IsFiniteSet(AboutToTell(d, reason)) /\ Cardinality(AboutToTell(d, reason)) \in Nat
    BY CloseoutAssumption, FS_Subset, FS_CardinalityType DEF AboutToTell
  <1>2. toldIn[d][reason] \in 0..3 /\ kills \in Nat
    BY CloseoutAssumption DEF CloseoutTypeOK, Threshold
  <1> QED
    BY <1>1, <1>2 DEF Evidence

LEMMA EvidenceCountsNext ==
  ASSUME CloseoutTypeOK', NEW d \in Dirs, NEW reason \in Reasons
  PROVE  /\ IsFiniteSet(AboutToTell(d, reason)') /\ Cardinality(AboutToTell(d, reason)') \in Nat
         /\ toldIn'[d][reason] \in 0..3 /\ kills' \in Nat /\ Evidence(d, reason)' \in Nat
  <1>1. IsFiniteSet(AboutToTell(d, reason)') /\ Cardinality(AboutToTell(d, reason)') \in Nat
    BY CloseoutAssumption, FS_Subset, FS_CardinalityType DEF AboutToTell
  <1>2. toldIn'[d][reason] \in 0..3 /\ kills' \in Nat
    BY CloseoutAssumption DEF CloseoutTypeOK, Threshold
  <1> QED
    BY <1>1, <1>2 DEF Evidence

\* It does not decrease when sessions are about to tell that were not, ...
LEMMA EvidenceGrows ==
  ASSUME CloseoutTypeOK, CloseoutTypeOK', NEW d \in Dirs, NEW reason \in Reasons,
         AboutToTell(d, reason) \subseteq AboutToTell(d, reason)',
         toldIn'[d][reason] = toldIn[d][reason], kills' >= kills
  PROVE  Evidence(d, reason)' >= Evidence(d, reason)
  <1> DEFINE before == Cardinality(AboutToTell(d, reason))
             after == Cardinality(AboutToTell(d, reason)')
  <1>1. before \in Nat /\ toldIn[d][reason] \in 0..3 /\ kills \in Nat
    BY EvidenceCounts
  <1>2. IsFiniteSet(AboutToTell(d, reason)') /\ after \in Nat
    BY EvidenceCountsNext
  <1>3. before <= after
    BY <1>2, FS_Subset
  <1>4. kills' \in Nat
    BY CloseoutAssumption DEF CloseoutTypeOK
  <1>5. /\ Evidence(d, reason) = toldIn[d][reason] + before + kills
        /\ Evidence(d, reason)' = toldIn'[d][reason] + after + kills'
    BY DEF Evidence
  <1> HIDE DEF before, after
  <1> QED
    BY <1>1, <1>2, <1>3, <1>4, <1>5

\* ... nor when one no longer is, but told or was killed instead.
LEMMA EvidenceMoves ==
  ASSUME CloseoutTypeOK, CloseoutTypeOK', NEW d \in Dirs, NEW reason \in Reasons,
         NEW s \in HostSessions,
         AboutToTell(d, reason) \ {s} \subseteq AboutToTell(d, reason)',
         \/ kills' = kills + 1 /\ toldIn'[d][reason] = toldIn[d][reason]
         \/ kills' = kills /\ toldIn'[d][reason] = toldIn[d][reason] + 1
         \/ kills' = kills /\ toldIn'[d][reason] = 3
  PROVE  Evidence(d, reason)' >= Evidence(d, reason) \/ Evidence(d, reason)' >= 2
  <1> DEFINE before == Cardinality(AboutToTell(d, reason))
             without == Cardinality(AboutToTell(d, reason) \ {s})
             after == Cardinality(AboutToTell(d, reason)')
  <1>1. /\ IsFiniteSet(AboutToTell(d, reason)) /\ before \in Nat
        /\ toldIn[d][reason] \in 0..3 /\ kills \in Nat
    BY EvidenceCounts
  <1>2. IsFiniteSet(AboutToTell(d, reason)') /\ after \in Nat
    BY EvidenceCountsNext
  <1>3. without \in Nat /\ before <= without + 1
    <2>1. /\ IsFiniteSet(AboutToTell(d, reason) \ {s})
          /\ without = IF s \in AboutToTell(d, reason) THEN before - 1 ELSE before
      BY <1>1, FS_RemoveElement
    <2>2. without \in Nat
      BY <2>1, FS_CardinalityType
    <2> HIDE DEF before, without
    <2> QED
      BY <1>1, <2>1, <2>2
  <1>4. without <= after
    BY <1>2, FS_Subset
  <1>5. /\ Evidence(d, reason) = toldIn[d][reason] + before + kills
        /\ Evidence(d, reason)' = toldIn'[d][reason] + after + kills'
    BY DEF Evidence
  <1> HIDE DEF before, without, after
  <1> QED
    BY <1>1, <1>2, <1>3, <1>4, <1>5

(* No step takes evidence away.                                            *)
LEMMA EvidenceStep ==
  ASSUME CleanInv, CleanInv', [CloseoutNext]_closeoutVars, NEW d \in Dirs, NEW reason \in Reasons
  PROVE  Evidence(d, reason)' >= Evidence(d, reason) \/ Evidence(d, reason)' >= 2
  <1> DEFINE Kept == Evidence(d, reason)' >= Evidence(d, reason) \/ Evidence(d, reason)' >= 2
  <1>0. CloseoutTypeOK /\ CloseoutTypeOK'
    BY DEF CleanInv
  <1>1. ASSUME NEW s \in HostSessions, Answer(s) PROVE Kept
    <2>1. /\ toldIn' = [toldIn EXCEPT ![DirOf[s]][seen[s]] =
                          IF @ = Threshold THEN Threshold ELSE @ + 1]
          /\ hookAt[s] = "answer" /\ kills' = kills
          /\ \A t \in HostSessions : t # s => hookAt'[t] = hookAt[t] /\ seen'[t] = seen[t]
      BY <1>0, <1>1 DEF Answer, HookGoesTo, host, CloseoutTypeOK
    <2>2. AboutToTell(d, reason) \ {s} \subseteq AboutToTell(d, reason)'
      BY <2>1 DEF AboutToTell
    <2>3. CASE DirOf[s] = d /\ seen[s] = reason
      <3>1. toldIn'[d][reason] = toldIn[d][reason] + 1 \/ toldIn'[d][reason] = 3
        BY <1>0, <2>1, <2>3 DEF CloseoutTypeOK, Threshold
      <3> QED
        BY <1>0, <2>1, <2>2, <3>1, EvidenceMoves
    <2>4. CASE ~(DirOf[s] = d /\ seen[s] = reason)
      <3>1. AboutToTell(d, reason) \subseteq AboutToTell(d, reason)'
        BY <2>2, <2>4 DEF AboutToTell
      <3>2. toldIn'[d][reason] = toldIn[d][reason]
        BY <1>0, <2>1, <2>4 DEF CloseoutTypeOK
      <3>3. kills' >= kills
        BY <1>0, <2>1, CloseoutAssumption DEF CloseoutTypeOK
      <3> QED
        BY <1>0, <3>1, <3>2, <3>3, EvidenceGrows
    <2> QED
      BY <2>3, <2>4
  <1>2. ASSUME NEW s \in HostSessions, KillHook(s) PROVE Kept
    <2>1. /\ toldIn' = toldIn /\ kills' = kills + 1
          /\ \A t \in HostSessions : t # s => hookAt'[t] = hookAt[t] /\ seen'[t] = seen[t]
      BY <1>0, <1>2 DEF KillHook, HookGoesTo, CloseoutTypeOK
    <2>2. AboutToTell(d, reason) \ {s} \subseteq AboutToTell(d, reason)'
      BY <2>1 DEF AboutToTell
    <2> QED
      BY <1>0, <2>1, <2>2, EvidenceMoves
  <1>3. ASSUME toldIn' = toldIn, kills' = kills,
               \A t \in HostSessions :
                 hookAt[t] = "answer" => hookAt'[t] = "answer" /\ seen'[t] = seen[t]
        PROVE  Kept
    <2>1. AboutToTell(d, reason) \subseteq AboutToTell(d, reason)'
      BY <1>3 DEF AboutToTell
    <2>2. kills' >= kills
      BY <1>0, <1>3, CloseoutAssumption DEF CloseoutTypeOK
    <2> QED
      BY <1>0, <1>3, <2>1, <2>2, EvidenceGrows
  <1> HIDE DEF Kept
  <1> USE DEF CloseoutTypeOK, HookGoesTo, hooks, host, answers
  <1>4. ASSUME NEW s \in HostSessions,
               Stop(s) \/ StopResumed(s) \/ ReadApprovals(s) \/ ReadPlans(s) \/ ReadMemory(s)
        PROVE  Kept
    BY <1>0, <1>3, <1>4 DEF Stop, StopResumed, ReadApprovals, ReadPlans, ReadMemory, Pass
  <1>5. ASSUME NEW s \in HostSessions, ReadCounter(s) \/ BumpCounter(s) \/ Escalate(s)
        PROVE  Kept
    BY <1>0, <1>3, <1>5 DEF ReadCounter, BumpCounter, Escalate
  <1>6. ASSUME NEW s \in HostSessions,
               \/ Compact(s) \/ Claim(s) \/ Inject(s)
               \/ \E fromCompact \in BOOLEAN : ReadMarker(s, fromCompact)
        PROVE  Kept
    BY <1>0, <1>3, <1>6 DEF Compact, Claim, Inject, ReadMarker
  <1>7. ASSUME NEW b \in Blockers, Resolve(b) \/ \E s \in HostSessions : Open(s, b) PROVE Kept
    BY <1>3, <1>7 DEF Resolve, Open
  <1>8. ASSUME UNCHANGED closeoutVars PROVE Kept
    BY <1>3, <1>8 DEF closeoutVars
  <1>9. Kept
    BY <1>1, <1>2, <1>4, <1>5, <1>6, <1>7, <1>8 DEF CloseoutNext, StopHook
  <1> QED
    BY <1>9 DEF Kept

\* What supported a count goes on supporting it.
LEMMA SupportStays ==
  ASSUME CleanInv, CleanInv', [CloseoutNext]_closeoutVars, NEW d \in Dirs, NEW was \in Counts,
         Supports(d, was)
  PROVE  Supports(d, was)'
  <1>1. was.reason \in Reasons /\ was.count \in 0..3
    BY DEF Threshold
  <1>2. Evidence(d, was.reason) \in Nat /\ Evidence(d, was.reason)' \in Nat
    BY <1>1, EvidenceCounts, EvidenceCountsNext DEF CleanInv
  <1>3. \/ Evidence(d, was.reason)' >= Evidence(d, was.reason)
        \/ Evidence(d, was.reason)' >= 2
    BY <1>1, EvidenceStep
  <1> HIDE DEF Evidence
  <1> QED
    BY <1>1, <1>2, <1>3 DEF Supports, Threshold

\* What a hook writes is supported, too: below the threshold it is about to
\* tell, and it reaches the threshold from two.
LEMMA BumpSupported ==
  ASSUME CleanInv, CleanInv', NEW s \in HostSessions, BumpCounter(s),
         NEW was \in Counts, was = counted[s], Supports(DirOf[s], was),
         NEW r \in Reasons, r = seen[s],
         NEW next, next = Bump(was, r)
  PROVE  /\ Supports(DirOf[s], next)'
         /\ next.count >= Threshold => 2 <= Evidence(DirOf[s], r)'
  <1> DEFINE d == DirOf[s]
             before == Cardinality(AboutToTell(d, r))
             after == Cardinality(AboutToTell(d, r)')
  <1>0. CloseoutTypeOK /\ CloseoutTypeOK'
    BY DEF CleanInv
  <1>1. d \in Dirs
    BY CloseoutAssumption
  <1>2. was.reason \in Reasons /\ was.count \in 0..Threshold
    BY <1>1
  <1>3. /\ next \in Counts /\ next.reason = r /\ next.count > 0
        /\ was.reason # r => next.count = 1
        /\ was.reason = r /\ was.count = Threshold => next.count = Threshold
        /\ was.reason = r /\ was.count # Threshold => next.count = was.count + 1
    BY <1>1, <1>2, BumpCounts
  <1>4. /\ hookAt[s] = "count" /\ toldIn' = toldIn /\ kills' = kills /\ seen' = seen
        /\ hookAt'[s] = IF next.count >= Threshold THEN "escalate" ELSE "answer"
        /\ \A t \in HostSessions : t # s => hookAt'[t] = hookAt[t]
    BY <1>0 DEF BumpCounter, HookGoesTo, host, answers, CloseoutTypeOK
  <1>5. /\ s \notin AboutToTell(d, r)
        /\ AboutToTell(d, r)' = IF next.count >= Threshold THEN AboutToTell(d, r)
                                ELSE AboutToTell(d, r) \cup {s}
    BY <1>3, <1>4 DEF AboutToTell
  <1>6. /\ IsFiniteSet(AboutToTell(d, r)) /\ before \in Nat /\ toldIn[d][r] \in 0..3 /\ kills \in Nat
    BY <1>0, <1>1, <1>3, EvidenceCounts
  <1>7. after = IF next.count >= Threshold THEN before ELSE before + 1
    BY <1>5, <1>6, FS_AddElement
  <1>8. Evidence(d, r) = toldIn[d][r] + before + kills
    BY DEF Evidence
  <1>9. Evidence(d, r)' = toldIn[d][r] + after + kills
    BY <1>3, <1>4 DEF Evidence
  <1>10. was.reason = r => was.count <= Evidence(d, r) \/ 2 <= Evidence(d, r)
    BY DEF Supports, Threshold
  <1>11. next.count \in 0..3 /\ was.count \in 0..3
    BY <1>2, <1>3 DEF Threshold
  <1> DEFINE low == Evidence(d, r)
             high == Evidence(d, r)'
             told_ == toldIn[d][r]
  <1> HIDE DEF before, after, low, high, told_
  <1>12. /\ next.count <= high \/ 2 <= high
         /\ next.count >= 3 => high >= 2
    <2>1. /\ told_ \in 0..3 /\ before \in Nat /\ kills \in Nat
          /\ low = told_ + before + kills /\ high = told_ + after + kills
          /\ was.reason = r => was.count <= low \/ 2 <= low
      BY <1>6, <1>8, <1>9, <1>10 DEF low, high, told_
    <2>2. after = IF next.count >= 3 THEN before ELSE before + 1
      BY <1>7 DEF Threshold
    <2>3. /\ was.reason # r => next.count = 1
          /\ was.reason = r /\ was.count = 3 => next.count = 3
          /\ was.reason = r /\ was.count # 3 => next.count = was.count + 1
      BY <1>3 DEF Threshold
    <2>4. CASE was.reason # r
      BY <1>11, <2>1, <2>2, <2>3, <2>4
    <2>5. CASE was.reason = r
      BY <1>11, <2>1, <2>2, <2>3, <2>5
    <2> QED
      BY <2>4, <2>5
  <1> QED
    BY <1>3, <1>12 DEF Supports, Threshold, high

(* Every step keeps every count supported.                                 *)
LEMMA SupportStep ==
  CleanInv /\ CountersSupported /\ [CloseoutNext]_closeoutVars => CountersSupported'
  <1> SUFFICES ASSUME CleanInv, CountersSupported, [CloseoutNext]_closeoutVars
               PROVE  CountersSupported'
    OBVIOUS
  <1>0. CleanInv' /\ CloseoutTypeOK /\ CloseoutTypeOK'
    BY CleanStep DEF CleanInv
  <1>1. \A d \in Dirs, was \in Counts : Supports(d, was) => Supports(d, was)'
    BY <1>0, SupportStays
  <1>2. ASSUME NEW d \in Dirs, NEW reason \in Reasons, 2 <= Evidence(d, reason)
        PROVE  2 <= Evidence(d, reason)'
    <2>1. Evidence(d, reason) \in Nat /\ Evidence(d, reason)' \in Nat
      BY <1>0, EvidenceCounts, EvidenceCountsNext
    <2>2. Evidence(d, reason)' >= Evidence(d, reason) \/ Evidence(d, reason)' >= 2
      BY <1>0, EvidenceStep
    <2> HIDE DEF Evidence
    <2> QED
      BY <1>2, <2>1, <2>2
  <1>3. /\ \A d \in Dirs : counter[d] \in Counts
        /\ \A s \in HostSessions : counted[s] \in Counts /\ DirOf[s] \in Dirs /\ seen[s] \in Reasons
    BY <1>0, CloseoutAssumption DEF CloseoutTypeOK
  <1> DEFINE LetGo(t) == hookAt[t] = "escalate" \/ verdict[t] = "ESCALATED"
  \* Steps that count nothing.
  <1>4. ASSUME counter' = counter,
               \A t \in HostSessions :
                 /\ hookAt'[t] = "count" => \/ hookAt[t] = "count" /\ counted'[t] = counted[t]
                                            \/ counted'[t] = counter[DirOf[t]]
                 /\ LetGo(t)' => LetGo(t) /\ seen'[t] = seen[t]
        PROVE  CountersSupported'
    <2> HIDE DEF LetGo
    <2>1. \A d \in Dirs, was \in Counts : counter'[d] = was => Supports(d, was)'
      BY <1>1, <1>4 DEF CountersSupported
    <2>2. \A s \in HostSessions, was \in Counts :
            hookAt'[s] = "count" /\ counted'[s] = was => Supports(DirOf[s], was)'
      BY <1>1, <1>3, <1>4 DEF CountersSupported
    <2>3. \A s \in HostSessions, r \in Reasons :
            LetGo(s)' /\ seen'[s] = r => 2 <= Evidence(DirOf[s], r)'
      BY <1>2, <1>3, <1>4 DEF CountersSupported, LetGo, Threshold
    <2> QED
      BY <2>1, <2>2, <2>3 DEF CountersSupported, LetGo, Threshold
  <1>5. ASSUME NEW s \in HostSessions, BumpCounter(s) PROVE CountersSupported'
    <2>1. PICK was \in Counts, r \in Reasons : was = counted[s] /\ r = seen[s]
      BY <1>3
    <2>2. PICK next : next = Bump(was, r)
      OBVIOUS
    <2>3. Supports(DirOf[s], was)
      BY <1>3, <1>5, <2>1 DEF CountersSupported, BumpCounter
    <2>4. Supports(DirOf[s], next)' /\ (next.count >= Threshold => 2 <= Evidence(DirOf[s], r)')
      BY <1>0, <1>5, <2>1, <2>2, <2>3, BumpSupported
    <2>5. next \in Counts
      BY <2>2, BumpCounts DEF Counts
    <2>6. /\ hookAt'[s] = IF next.count >= Threshold THEN "escalate" ELSE "answer"
          /\ counter' = [counter EXCEPT ![DirOf[s]] = next]
          /\ seen' = seen /\ verdict' = verdict /\ hookAt[s] = "count"
          /\ \A t \in HostSessions : t # s => hookAt'[t] = hookAt[t] /\ counted'[t] = counted[t]
      BY <1>0, <1>5, <2>1, <2>2 DEF BumpCounter, HookGoesTo, CloseoutTypeOK
    <2>7. verdict[s] = "none"
      BY <2>6 DEF CleanInv, NoVerdictYet
    <2>8. \A d \in Dirs : counter'[d] = IF d = DirOf[s] THEN next ELSE counter[d]
      BY <1>0, <2>6 DEF CloseoutTypeOK
    <2>9. \A d \in Dirs, w \in Counts : counter'[d] = w => Supports(d, w)'
      BY <1>1, <2>4, <2>8 DEF CountersSupported
    <2>10. \A t \in HostSessions, w \in Counts :
             hookAt'[t] = "count" /\ counted'[t] = w => Supports(DirOf[t], w)'
      BY <1>1, <1>3, <2>6 DEF CountersSupported
    <2>11. \A t \in HostSessions, q \in Reasons :
             LetGo(t)' /\ seen'[t] = q => 2 <= Evidence(DirOf[t], q)'
      <3> SUFFICES ASSUME NEW t \in HostSessions, NEW q \in Reasons, LetGo(t)', seen'[t] = q
                   PROVE  2 <= Evidence(DirOf[t], q)'
        OBVIOUS
      <3>1. CASE t = s
        BY <2>1, <2>4, <2>6, <2>7, <3>1
      <3>2. CASE t # s
        BY <1>2, <1>3, <2>6, <3>2 DEF CountersSupported, Threshold
      <3> QED
        BY <3>1, <3>2
    <2> QED
      BY <2>9, <2>10, <2>11 DEF CountersSupported, Threshold
  <1> USE DEF HookGoesTo, hooks, host, answers
  <1>6. ASSUME NEW s \in HostSessions,
               \/ Stop(s) \/ StopResumed(s) \/ ReadApprovals(s) \/ ReadPlans(s) \/ ReadMemory(s)
               \/ ReadCounter(s) \/ Answer(s) \/ Escalate(s)
        PROVE  CountersSupported'
    <2>1. \A t \in HostSessions : Stopping(t) => verdict[t] = "none"
      BY DEF CleanInv, NoVerdictYet
    <2> QED
      BY <1>0, <1>4, <1>6, <2>1
         DEF CloseoutTypeOK, Stop, StopResumed, ReadApprovals, ReadPlans, ReadMemory, Pass,
             ReadCounter, Answer, Escalate
  <1>7. ASSUME NEW s \in HostSessions,
               \/ Compact(s) \/ Claim(s) \/ Inject(s) \/ KillHook(s)
               \/ \E fromCompact \in BOOLEAN : ReadMarker(s, fromCompact)
        PROVE  CountersSupported'
    <2>1. \A t \in HostSessions : Stopping(t) => verdict[t] = "none"
      BY DEF CleanInv, NoVerdictYet
    <2>2. CASE KillHook(s)
      <3>1. /\ UNCHANGED <<counter, verdict>> /\ hookAt'[s] = "working"
            /\ verdict[s] # "none" => seen'[s] = seen[s]
            /\ \A t \in HostSessions : t # s => UNCHANGED <<hookAt[t], seen[t], counted[t]>>
        BY <1>0, <2>1, <2>2 DEF CloseoutTypeOK, KillHook
      <3> QED
        BY <1>4, <3>1
    <2>3. CASE ~KillHook(s)
      <3>1. /\ UNCHANGED <<counter, counted, seen, verdict>>
            /\ \A t \in HostSessions :
                 hookAt'[t] = hookAt[t] \/ hookAt'[t] \in {"working", "claim", "inject"}
        BY <1>0, <1>7, <2>3 DEF CloseoutTypeOK, Compact, Claim, Inject, ReadMarker
      <3> QED
        BY <1>4, <3>1
    <2> QED
      BY <2>2, <2>3
  <1>8. ASSUME NEW b \in Blockers, Resolve(b) \/ \E s \in HostSessions : Open(s, b)
        PROVE  CountersSupported'
    BY <1>4, <1>8 DEF Resolve, Open
  <1>9. CASE UNCHANGED closeoutVars
    BY <1>4, <1>9 DEF closeoutVars
  <1> QED
    BY <1>5, <1>6, <1>7, <1>8, <1>9 DEF CloseoutNext, StopHook

-----------------------------------------------------------------------------
(* The ledgers, the hooks and what they answered are always well-formed.   *)
THEOREM CloseoutTypeCorrect == CloseoutSpec => []CloseoutTypeOK
  <1>1. CleanInv => CloseoutTypeOK
    BY DEF CleanInv
  <1> QED
    BY CloseoutInitInv, CleanStep, <1>1, PTL DEF CloseoutSpec

(* A session that is let go stopped at a time when nothing was open, or    *)
(* was told twice what is, if it has a directory to itself, or goes on     *)
(* after a block; however the reads of its hook interleave with what       *)
(* others do, and whichever of them share a directory.                     *)
THEOREM LetGoForCause == CloseoutSpec => []LetGoOnlyWithCause
  <1>1. CloseoutInit => CleanInv /\ CountInv
    BY CloseoutInitInv
  <1>2. CleanInv /\ CountInv /\ [CloseoutNext]_closeoutVars => (CleanInv /\ CountInv)'
    BY CleanStep, CountStep
  <1>3. CleanInv /\ CountInv => LetGoOnlyWithCause
    BY DEF CleanInv, CountInv, LetGoOnlyWithCause, ResumedAfterBlock
  <1> QED
    BY <1>1, <1>2, <1>3, PTL DEF CloseoutSpec

(* A session that shares its directory with others is let go only where    *)
(* two blocks for its reason were told, are about to be, or were cut short *)
(* by a kill, though the hooks may overwrite each other's count.           *)
THEOREM EscalatedAfterTelling == CloseoutSpec => []DirectoryToldTwice
  <1>1. CloseoutInit => CountersSupported
    <2> SUFFICES ASSUME CloseoutInit PROVE CountersSupported
      OBVIOUS
    <2>1. /\ \A d \in Dirs : counter[d] = Uncounted
          /\ \A s \in HostSessions : hookAt[s] = "working" /\ verdict[s] = "none"
      BY CloseoutAssumption DEF CloseoutInit
    <2>2. \A d \in Dirs : Supports(d, Uncounted)
      <3>1. {} \in Reasons /\ CloseoutTypeOK
        BY CloseoutInitInv DEF CleanInv, Reasons
      <3>2. \A d \in Dirs : Evidence(d, {}) \in Nat
        BY <3>1, EvidenceCounts
      <3> QED
        BY <3>2 DEF Supports, Uncounted
    <2> QED
      BY <2>1, <2>2 DEF CountersSupported
  <1>2. CloseoutInit => CleanInv
    BY CloseoutInitInv
  <1>3. CleanInv /\ CountersSupported => DirectoryToldTwice
    BY DEF CleanInv, CloseoutTypeOK, CountersSupported, Evidence, DirectoryToldTwice
  <1> QED
    BY <1>1, <1>2, <1>3, CleanStep, SupportStep, PTL DEF CloseoutSpec

(* A compaction is owed its recovery until a hook has the marker in hand,  *)
(* whoever else claims, as long as no hook is killed.                      *)
THEOREM RecoveryHolds == CloseoutSpec => []RecoveryNotLost
  <1> DEFINE Safe == CleanInv /\ RecoveryNotLost
  <1>1. CloseoutInit => Safe
    BY CloseoutInitInv DEF CloseoutInit, RecoveryNotLost
  <1>2. Safe /\ [CloseoutNext]_closeoutVars => Safe'
    <2> SUFFICES ASSUME Safe, [CloseoutNext]_closeoutVars PROVE RecoveryNotLost'
      BY CleanStep
    <2> USE DEF RecoveryNotLost, CleanInv, CloseoutTypeOK, hooks, host, answers, HookGoesTo
    <2>1. ASSUME NEW s \in HostSessions, NEW b \in Blockers, Open(s, b) PROVE RecoveryNotLost'
      BY <2>1 DEF Open
    <2>2. ASSUME NEW s \in HostSessions, Stop(s) \/ StopResumed(s) PROVE RecoveryNotLost'
      BY <2>2 DEF Stop, StopResumed
    <2>3. ASSUME NEW s \in HostSessions, StopHook(s) PROVE RecoveryNotLost'
      <3>1. \A t \in HostSessions : Claiming(t) => Claiming(t)'
        BY <2>3 DEF StopHook, ReadApprovals, ReadPlans, ReadMemory, Pass, ReadCounter, BumpCounter,
           Answer, Escalate
      <3>2. UNCHANGED <<owed, kills, marker>>
        BY <2>3 DEF StopHook, ReadApprovals, ReadPlans, ReadMemory, Pass, ReadCounter, BumpCounter,
           Answer, Escalate
      <3> QED
        BY <3>1, <3>2
    <2>4. ASSUME NEW s \in HostSessions, Compact(s) \/ Inject(s) PROVE RecoveryNotLost'
      BY <2>4 DEF Compact, Inject
    <2>5. ASSUME NEW s \in HostSessions,
                 Claim(s) \/ \E fromCompact \in BOOLEAN : ReadMarker(s, fromCompact)
          PROVE  RecoveryNotLost'
      BY <2>5 DEF Claim, ReadMarker
    <2>6. ASSUME NEW s \in HostSessions, KillHook(s) PROVE RecoveryNotLost'
      BY <2>6 DEF KillHook
    <2>7. ASSUME NEW b \in Blockers, Resolve(b) PROVE RecoveryNotLost'
      BY <2>7 DEF Resolve
    <2>8. CASE UNCHANGED closeoutVars
      BY <2>8 DEF closeoutVars
    <2> QED
      BY <2>1, <2>2, <2>3, <2>4, <2>5, <2>6, <2>7, <2>8 DEF CloseoutNext
  <1>3. Safe => RecoveryNotLost
    OBVIOUS
  <1> QED
    BY <1>1, <1>2, <1>3, PTL DEF CloseoutSpec
=============================================================================
