------------------------------ MODULE Privacy -------------------------------
(***************************************************************************)
(* Texts that are kept or given to the model: session records              *)
(* (session_ledger.py), trace and audit records (journal.py), the context  *)
(* (context.py) and offloads (context_v4.py).  Each is scrubbed of secrets *)
(* and paths, and then of the names the teacher registered in privacy.json *)
(* (privacy.py): a reversible entry leaves a placeholder, which the owner  *)
(* may have restored from the map in privacy-reverse.json, a one-way entry *)
(* leaves a label.  The map is read, changed and written by every command  *)
(* that scrubs a text, without a lock; commands overlap and are killed.    *)
(*                                                                         *)
(* A text is a sequence of tokens.  A name is two of them, and so is a     *)
(* placeholder, so that a text can be cut in the midst of either and       *)
(* positions stay what they were.  The entry of a plain name matches it    *)
(* alone, the entry of a pattern a set of names, none if it does not       *)
(* compile; what either restores to is the text of the entry.              *)
(***************************************************************************)
EXTENDS Collections

CONSTANTS
  Procs,
  Vocabulary, Secrets,  \* tokens, and those that are secrets or paths
  Texts,           \* what may be said, or offloaded
  EntryLists,      \* contents of privacy.json
  MaxChars         \* the length a session record's field, and what an
                   \* offload's summary is made of, is cut to

VARIABLES
  entries,  \* privacy.json
  reverse,  \* privacy-reverse.json: the text of an entry by its placeholder
  content,  \* the offloads' files, which hold a text as it is: "none", "torn",
            \* "cut" (torn for good) or "whole"
  meta,     \* texts with an offload record
  overlap,  \* history: a command worked on the map while another did
  proc      \* the commands; one that is done holds the text it left, with
            \* what was said, as long as anyone looks

vars == <<entries, reverse, content, meta, overlap, proc>>
offloads == <<content, meta>>

Hidden == <<"hidden">>
Idle == [step |-> "none"]
GoTo(p, state) == proc' = [proc EXCEPT ![p] = state]

Init ==
  /\ entries = <<>> /\ reverse = <<>>
  /\ content = [t \in Texts |-> "none"] /\ meta = {}
  /\ overlap = FALSE
  /\ proc = [p \in Procs |-> Idle]

-----------------------------------------------------------------------------
(* Scrubbing and restoring.                                                *)

\* redact_text and the roots of redact_runtime_text.
RedactText(text) ==
  [i \in DOMAIN text |-> IF text[i] \in Secrets THEN Hidden ELSE text[i]]

\* A bug to be caught: placeholders are numbered by the entry's place.
PlaceholderByPlace(list, n) == n

\* The placeholder is a digest of what the entry matches.
Placeholder(list, n) == list[n].match

\* Left to right, without overlap.
Apply(list, n, text) ==
  LET Mark(half) ==
        IF list[n].mode = "oneway" THEN Hidden ELSE <<Placeholder(list, n), half>>
      At(t, i) == IF <<t[i], t[i + 1]>> \in list[n].names
                  THEN SubSeq(t, 1, i - 1) \o <<Mark(1), Mark(2)>> \o SubSeq(t, i + 2, Len(t))
                  ELSE t
  IN FoldLeft(At, text, [i \in 1..(Len(text) - 1) |-> i])

\* A map with other values for some keys.
Updated(map, updates) ==
  [m \in DOMAIN updates \cup DOMAIN map |->
     IF m \in DOMAIN updates THEN updates[m] ELSE map[m]]

\* pseudonymize_text: the text, and the placeholders that were put in.
Pseudonymize(list, text) ==
  LET Step(acc, n) ==
        LET applied == Apply(list, n, acc.text) IN
        [text |-> applied,
         updates |-> IF applied # acc.text /\ list[n].mode = "reversible"
                     THEN Updated(acc.updates, [m \in {Placeholder(list, n)} |-> list[n].shown])
                     ELSE acc.updates]
  IN FoldLeft(Step, [text |-> text, updates |-> <<>>], [n \in DOMAIN list |-> n])

\* restore_text: whole placeholders that the map knows.
RestoreText(text) ==
  LET Whole(i) == \E m \in DOMAIN reverse : text[i] = <<m, 1>> /\ text[i + 1] = <<m, 2>>
  IN [i \in DOMAIN text |->
        IF i < Len(text) /\ Whole(i) THEN reverse[text[i][1]][1]
        ELSE IF i > 1 /\ Whole(i - 1) THEN reverse[text[i - 1][1]][2]
        ELSE text[i]]

-----------------------------------------------------------------------------
(* The session records.                                                    *)

\* The fields that the fillers of each kind of line take from what was said or
\* done.  Blank lines, other types, hidden reasoning and counts leave no text;
\* an event nobody knows is kept whole.
MetaFields == [session_meta |-> {"text", "cwd"}, turn_context |-> {"cwd"}]
EventFields ==
  [user_message |-> {"text"}, agent_message |-> {"text"}, agent_reasoning |-> {"text"},
   exec_command_end |-> {"tool_output"}, patch_apply_end |-> {"tool_output"},
   mcp_tool_call_end |-> {"tool_args", "tool_output"}, unknown |-> {"text"}]
ResponseFields ==
  [message |-> {"text"}, reasoning |-> {"text"}, function_call |-> {"tool_args"},
   search_call |-> {"tool_args"}, tool_output |-> {"tool_output"}]
Filled == Updated(Updated(ResponseFields, EventFields), MetaFields)

FreeTextFields == {"text", "tool_args", "tool_output", "cwd"}

\* What is cut before it is scrubbed.
Capped(surface, text) ==
  IF surface \in {"session", "offload"} THEN SubSeq(text, 1, Min({MaxChars, Len(text)}))
  ELSE text

-----------------------------------------------------------------------------
(* A text is scrubbed, the map brought up to date, and the text kept or    *)
(* given out; what is written after the map was is read by nobody before.  *)

items == {proc[p].item : p \in {q \in Procs : proc[q].step = "done"}}

Working == {p \in Procs : proc[p].step = "save"}

Scrubbed(surface, text) == Pseudonymize(entries, RedactText(Capped(surface, text)))

\* No registered name is left in full, and no secret.
NothingRegisteredIsLeft(text) ==
  /\ \A i \in DOMAIN text : text[i] \notin Secrets
  /\ \A n \in DOMAIN entries, i \in 1..(Len(text) - 1) :
       <<text[i], text[i + 1]>> \notin entries[n].names

\* What follows once the map has been saved: an offload is yet to be written.
Then(surface) == IF surface = "offload" THEN "open" ELSE "done"

\* texts are what is kept of the result once the map has been saved.
Scrub(p, surface, said, result, texts) ==
  LET stale == \E m \in DOMAIN result.updates :
                 m \notin DOMAIN reverse \/ reverse[m] # result.updates[m] IN
  /\ proc[p] = Idle
  /\ overlap' = (overlap \/ (stale /\ Working # {}))
  /\ GoTo(p, [step |-> IF stale THEN "save" ELSE Then(surface),
              map |-> IF stale THEN Updated(reverse, result.updates) ELSE <<>>,
              item |-> [surface |-> surface, texts |-> texts, said |-> said,
                       hidden |-> \A text \in texts : NothingRegisteredIsLeft(text)]])
  /\ UNCHANGED <<entries, reverse, offloads>>

\* _normalize_line and _redact_record.  A placeholder is longer than most
\* names, so a field that was full may be cut again.
IngestLine(p, text) ==
  \E result \in {Scrubbed("session", text)},
     cut \in IF Len(text) >= MaxChars THEN {0, 1} ELSE {0} :
    LET Kept(field) ==
          IF field \in FreeTextFields THEN SubSeq(result.text, 1, Len(result.text) - cut)
          ELSE text IN
    \E texts \in {{Kept(f) : f \in Filled[line]} : line \in DOMAIN Filled} :
      Scrub(p, "session", text, result, texts)

\* write_trace and write_audit
WriteTrace(p, text) ==
  \E result \in {Scrubbed("trace", text)} : Scrub(p, "trace", text, result, {result.text})

\* The texts of memory entries and tools in the context; a memory draft; an
\* offload without --reveal.
GiveOut(p, text) ==
  \E result \in {Scrubbed("given", text)} : Scrub(p, "given", text, result, {result.text})

\* trace list, show, export and inspect, audit list: scrubbed once more, by
\* the entries there are now.
ListTraces(p, item) ==
  /\ item.surface = "trace"
  /\ \E text \in item.texts :
       \E result \in {Scrubbed("given", text)} : Scrub(p, "given", item.said, result, {result.text})

\* write_state_mapping with the map as it was read.
SaveReverse(p) ==
  /\ proc[p].step = "save"
  /\ reverse' = proc[p].map
  /\ overlap' = (overlap \/ Working # {p})
  /\ GoTo(p, [proc[p] EXCEPT !.step = Then(proc[p].item.surface), !.map = <<>>])
  /\ UNCHANGED <<entries, offloads>>

\* put_offload: first the summary, of the beginning of the text.
PutOffload(p, text) ==
  \E result \in {Scrubbed("offload", text)} : Scrub(p, "offload", text, result, {result.text})

\* Then the text itself, in place, under a name that says its content.
OpenOffload(p) ==
  /\ proc[p].step = "open"
  /\ content' = [content EXCEPT ![proc[p].item.said] = "torn"]
  /\ GoTo(p, [proc[p] EXCEPT !.step = "fill"])
  /\ UNCHANGED <<entries, reverse, meta, overlap>>

FillOffload(p) ==
  /\ proc[p].step = "fill"
  /\ content' = [content EXCEPT ![proc[p].item.said] = "whole"]
  /\ GoTo(p, [proc[p] EXCEPT !.step = "record"])
  /\ UNCHANGED <<entries, reverse, meta, overlap>>

\* At last the record with the summary, which is told.
RecordOffload(p) ==
  /\ proc[p].step = "record"
  /\ meta' = meta \cup {proc[p].item.said}
  /\ GoTo(p, [proc[p] EXCEPT !.step = "done"])
  /\ UNCHANGED <<entries, reverse, content, overlap>>

\* The teacher edits privacy.json.
Register(list) ==
  /\ entries' = list
  /\ UNCHANGED <<reverse, offloads, overlap, proc>>

\* A command is killed, or what it left is looked at no more.
Leave(p) ==
  /\ proc[p] # Idle
  /\ content' = IF proc[p].step = "fill" THEN [content EXCEPT ![proc[p].item.said] = "cut"]
                ELSE content
  /\ overlap' = (overlap /\ \E q \in Procs \ {p} : proc[q] # Idle)
  /\ GoTo(p, Idle)
  /\ UNCHANGED <<entries, reverse, meta>>

Next ==
  \/ \E list \in EntryLists : Register(list)
  \/ \E p \in Procs :
       \/ \E text \in Texts :
            \/ IngestLine(p, text) \/ WriteTrace(p, text) \/ GiveOut(p, text)
            \/ PutOffload(p, text)
       \/ \E item \in items : ListTraces(p, item)
       \/ SaveReverse(p) \/ OpenOffload(p) \/ FillOffload(p) \/ RecordOffload(p)
       \/ Leave(p)

Spec == Init /\ [][Next]_vars

-----------------------------------------------------------------------------
\* Restored, it shows what was said, or nothing, but nobody else's name.
NobodyIsMisnamed(item) ==
  \A text \in item.texts : \A i \in DOMAIN text :
    RestoreText(text)[i] \in Vocabulary => RestoreText(text)[i] = item.said[i]

\* A placeholder that is whole can be restored.
EveryoneIsRestored(item) ==
  \A text \in item.texts, list \in EntryLists : \A n \in DOMAIN list :
    LET m == Placeholder(list, n) IN
    (\E i \in 1..(Len(text) - 1) : text[i] = <<m, 1>> /\ text[i + 1] = <<m, 2>>) =>
      m \in DOMAIN reverse

\* get_offload: the digest of the file is that of the record.
Intact(text) == content[text] = "whole"

(* What is kept of a session, traced, told of an offload or given to the   *)
(* model names nobody who was registered, however the commands and the     *)
(* teacher's edits interleave; to the owner it shows what was said, also   *)
(* after the names changed places in privacy.json or left it, and unless   *)
(* commands overlapped it shows it all; and the text of an offload, which  *)
(* is kept as it is, is intact unless a command was killed or is writing   *)
(* it (pseudonymize_text, restore_text, _redact_record, put_offload).      *)
RevealedIsWhatWasSaid ==
  /\ \A item \in items :
       /\ item.hidden /\ NobodyIsMisnamed(item)
       /\ overlap \/ EveryoneIsRestored(item)
  /\ \A text \in meta :
       \/ Intact(text) \/ content[text] = "cut"
       \/ \E p \in Procs : proc[p].step = "fill" /\ proc[p].item.said = text
=============================================================================
