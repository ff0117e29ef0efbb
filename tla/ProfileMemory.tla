---------------------------- MODULE ProfileMemory ----------------------------
(***************************************************************************)
(* The durable memory of a profile: memory.json, which every session is    *)
(* given, and memory-archive.json, which none is (memory_handlers.py).     *)
(* `memory upsert` and `memory apply-draft` replace the entries of a key,  *)
(* `memory archive` moves one entry from the first file to the second,     *)
(* `memory draft` writes the entries a change obliges the agent to record, *)
(* `memory verify` tells which of those are missing, and `memory compact`  *)
(* notes the keys held.                                                    *)
(*                                                                         *)
(* Commands take turns here (ApprovalStore has two at once on one file),   *)
(* so a command that renames one file is one step.  An archive renames two *)
(* and may be killed in between.  Redaction, scopes and the 2000 character *)
(* cap are left out: a text is one that passed.                            *)
(***************************************************************************)
EXTENDS Naturals

CONSTANTS
  MemoryKeys,
  Texts,          \* texts a teacher or an agent records
  Changes,        \* what may have changed: a registry file, a schema file...
  ObligationsOf,  \* the entries each change calls for, by change
  NoEntry,
  MaxKills        \* bound on kills

Entries == [key : MemoryKeys, text : Texts]

VARIABLES
  memory,   \* memory.json: an entry listed twice counts once
  archive,  \* memory-archive.json
  compact,  \* memory-compact.json: the keys it lists
  draft,    \* the draft file, the empty set when there is none
  moving,   \* the entry an archive has taken out of the memory
  owed,     \* history: entries recorded, and neither replaced nor given up since
  kills

vars == <<memory, archive, compact, draft, moving, owed, kills>>

KeysOf(entries) == {e.key : e \in entries}
Without(entries, keys) == {e \in entries : e.key \notin keys}
Put(entries, new) == Without(entries, KeysOf(new)) \cup new

\* obligations_from_inputs: the union of what each change calls for.
Obligations(changed) == UNION {ObligationsOf[c] : c \in changed}

\* `memory verify`: blocked, with drafts, unless every key called for is held.
MissingMemory(changed) == {o \in Obligations(changed) : o.key \notin KeysOf(memory)}

Init ==
  /\ memory = {} /\ archive = {} /\ compact = {} /\ draft = {} /\ moving = NoEntry
  /\ owed = {} /\ kills = 0

Record(entries) ==
  /\ moving = NoEntry
  /\ memory' = Put(memory, entries)
  /\ owed' = {e \in owed : e \in archive \/ e.key \notin KeysOf(entries)} \cup entries
  /\ UNCHANGED <<archive, compact, draft, moving, kills>>

Upsert(entry) == Record({entry})

\* A bug to be caught: the draft becomes the memory.
ApplyDraftOnly ==
  /\ moving = NoEntry /\ draft # {}
  /\ memory' = draft
  /\ owed' = {e \in owed : e \in archive \/ e.key \notin KeysOf(draft)} \cup draft
  /\ UNCHANGED <<archive, compact, draft, moving, kills>>

ApplyDraft == draft # {} /\ Record(draft)

\* _archive: the memory is saved without the key, however many entries a
\* draft gave it; the first of them goes on to the archive.
TakeOut(entry) ==
  LET doubled == {e \in memory : e.key = entry.key /\ e # entry} IN
  /\ moving = NoEntry /\ entry \in memory
  /\ memory' = Without(memory, {entry.key})
  /\ owed' = owed \ (doubled \ archive)
  /\ moving' = entry
  /\ UNCHANGED <<archive, compact, draft, kills>>

PutAway ==
  /\ moving # NoEntry
  /\ archive' = archive \cup {moving}
  /\ moving' = NoEntry
  /\ UNCHANGED <<memory, compact, draft, owed, kills>>

\* The archive is killed between its two files.
Kill ==
  /\ moving # NoEntry /\ kills < MaxKills
  /\ kills' = kills + 1
  /\ owed' = owed \ ({moving} \ archive)
  /\ moving' = NoEntry
  /\ UNCHANGED <<memory, archive, compact, draft>>

Compact ==
  /\ moving = NoEntry
  /\ compact' = KeysOf(memory)
  /\ UNCHANGED <<memory, archive, draft, moving, owed, kills>>

\* `memory draft --out`; the file may be edited before it is applied.
WriteDraft(changed) ==
  /\ moving = NoEntry
  /\ draft' = Obligations(changed)
  /\ UNCHANGED <<memory, archive, compact, moving, owed, kills>>

EditDraft(entry) ==
  /\ moving = NoEntry /\ draft # {}
  /\ draft' = draft \cup {entry}
  /\ UNCHANGED <<memory, archive, compact, moving, owed, kills>>

Next ==
  \/ \E entry \in Entries : Upsert(entry) \/ TakeOut(entry) \/ EditDraft(entry)
  \/ ApplyDraft \/ PutAway \/ Kill \/ Compact
  \/ \E changed \in SUBSET Changes : WriteDraft(changed)

Spec == Init /\ [][Next]_vars

-----------------------------------------------------------------------------
(* Whatever was recorded and not replaced is in the memory, in the archive *)
(* or on its way there, in any sequence of upserts, drafts and archives,   *)
(* but for the entry a kill caught between the two files of an archive and *)
(* the other entries of a key a draft listed twice (_archive, _apply_draft,*)
(* _upsert).                                                               *)
NothingLostQuietly == owed \subseteq memory \cup archive \cup {moving}
=============================================================================
