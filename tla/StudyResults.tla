---------------------------- MODULE StudyResults ----------------------------
(***************************************************************************)
(* Results of ClassCard study (classcard_study.py): `classcard study       *)
(* import` reads a file of results, adds a quiz session and its items to   *)
(* the teacher's database and adds the right and wrong answers of every    *)
(* word to the student's state; `study summary` and `study due` tell from  *)
(* the totals which words are mastered and which are due.                  *)
(*                                                                         *)
(* Imports are processes of their own; words are looked up before the      *)
(* database is locked by the first write, an import may be killed at any   *)
(* point, and a file may be imported twice.  A record is told by what      *)
(* _item_from_mapping looks at; a field is the empty set when absent.      *)
(***************************************************************************)
EXTENDS Collections

CONSTANTS
  Procs,
  Students,
  Files,       \* result files
  RecordsOf,   \* the records of each file
  FirstEntries,\* words the database knows at first
  MaxSessions, \* bound on imports
  Nobody       \* the database is not locked

VARIABLES
  entries,   \* tutoring_word_entries, by headword
  sessions,  \* tutoring_quiz_sessions, with the items their payload keeps
  quizItems, \* tutoring_quiz_items: the answer kept for a session and a word
  state,     \* tutoring_student_word_state, what is not zero
  lock,      \* the import that has begun to write
  proc

vars == <<entries, sessions, quizItems, state, lock, proc>>

\* _counts_from_status
CountsFromStatus(status) ==
  CASE status = "memorized" -> [correct |-> 1, wrong |-> 0]
    [] status = "wrong"     -> [correct |-> 0, wrong |-> 1]
    [] OTHER                -> [correct |-> 0, wrong |-> 0]

\* _item_from_mapping: a missing count is taken from the flag, which then
\* replaces both counts, or else from the status.
ItemOf(r) ==
  LET byFlag == (r.correct = {} \/ r.wrong = {}) /\ r.known # {}
      Count(given, ofFlag, ofStatus) ==
        IF byFlag THEN IF r.known = {ofFlag} THEN 1 ELSE 0
        ELSE IF given = {} THEN ofStatus ELSE CHOOSE n \in given : TRUE
      default == CountsFromStatus(r.status) IN
  [word |-> r.word,
   correct |-> Count(r.correct, TRUE, default.correct),
   wrong |-> Count(r.wrong, FALSE, default.wrong)]

Items(file) == [i \in DOMAIN RecordsOf[file] |-> ItemOf(RecordsOf[file][i])]
WordsOf(items) == {items[i].word : i \in DOMAIN items}

\* The answers for a word in the items of a file, which may name it twice.
Answers(items, word) ==
  LET of == {i \in DOMAIN items : items[i].word = word} IN
  [correct |-> MapThenSumSet(LAMBDA i : items[i].correct, of),
   wrong   |-> MapThenSumSet(LAMBDA i : items[i].wrong, of)]

NoAnswers == [correct |-> 0, wrong |-> 0]
Words == FirstEntries \cup UNION {WordsOf(Items(f)) : f \in Files}

Idle == [step |-> "none"]

Init ==
  /\ entries = FirstEntries /\ sessions = {} /\ quizItems = {}
  /\ state = [s \in Students |-> [w \in Words |-> NoAnswers]]
  /\ lock = Nobody /\ proc = [p \in Procs |-> Idle]

End(p) ==
  /\ proc' = [proc EXCEPT ![p] = Idle]
  /\ lock' = IF lock = p THEN Nobody ELSE lock

\* The words are looked up; those that are not known are skipped or created.
MatchItems(p, student, file, dryRun, createMissing) ==
  LET missing == WordsOf(Items(file)) \ entries
      known == {i \in DOMAIN Items(file) : createMissing \/ Items(file)[i].word \in entries} IN
  /\ proc[p] = Idle
  /\ proc' = [proc EXCEPT ![p] =
       [step |-> IF createMissing /\ missing # {} THEN "create" ELSE IF dryRun THEN "end" ELSE "save",
        student |-> student, dryRun |-> dryRun, new |-> IF createMissing THEN missing ELSE {},
        items |-> [i \in known |-> Items(file)[i]]]]
  /\ UNCHANGED <<entries, sessions, quizItems, state, lock>>

\* The missing word that is looked up first, before the database is locked.
FirstMissing(c) == c.items[Min({i \in DOMAIN c.items : c.items[i].word \in c.new})].word

\* _create_word_entry, the first write: it waits for the lock, and fails when
\* another import has created the word meanwhile.  The words after it are
\* looked up under the lock, and created or found.
CreateMissing(p) ==
  /\ proc[p].step = "create" /\ lock = Nobody
  /\ IF FirstMissing(proc[p]) \notin entries
     THEN /\ lock' = p
          /\ proc' = [proc EXCEPT ![p].step = IF proc[p].dryRun THEN "end" ELSE "save"]
     ELSE End(p)
  /\ UNCHANGED <<entries, sessions, quizItems, state>>

Plus(a, b) == [correct |-> a.correct + b.correct, wrong |-> a.wrong + b.wrong]

\* A bug to be caught: the answers of a word named twice are the last ones.
UpsertLastAnswers(states, student, items) ==
  [states EXCEPT ![student] = [w \in Words |->
     LET of == {i \in DOMAIN items : items[i].word = w} IN
     IF of = {} THEN @[w]
     ELSE Plus(@[w], [correct |-> items[Max(of)].correct, wrong |-> items[Max(of)].wrong])]]

\* _upsert_word_state, for every item.
UpsertWordState(states, student, items) ==
  [states EXCEPT ![student] = [w \in Words |-> Plus(@[w], Answers(items, w))]]

\* The session, its items and the word states, in one transaction.
SaveResult(p) ==
  LET c == proc[p]
      nr == Cardinality(sessions) IN
  /\ c.step = "save" /\ lock \in {Nobody, p} /\ nr < MaxSessions
  /\ entries' = entries \cup c.new
  /\ sessions' = sessions \cup {[nr |-> nr, student |-> c.student, items |-> c.items]}
  /\ quizItems' = quizItems \cup {<<nr, w>> : w \in
       {v \in WordsOf(c.items) : Answers(c.items, v) # NoAnswers}}
  /\ state' = UpsertWordState(state, c.student, c.items)
  /\ End(p)

\* A dry run closes the connection without a commit.
EndDryRun(p) ==
  /\ proc[p].step = "end"
  /\ End(p)
  /\ UNCHANGED <<entries, sessions, quizItems, state>>

\* Killed, or given up because the database stayed locked.
Kill(p) ==
  /\ proc[p] # Idle
  /\ End(p)
  /\ UNCHANGED <<entries, sessions, quizItems, state>>

Next ==
  \E p \in Procs :
    \/ \E student \in Students, file \in Files, dryRun, createMissing \in BOOLEAN :
         MatchItems(p, student, file, dryRun, createMissing)
    \/ CreateMissing(p) \/ SaveResult(p) \/ EndDryRun(p) \/ Kill(p)

Spec == Init /\ [][Next]_vars

-----------------------------------------------------------------------------
(* What `study summary` and `study due` say of a word.                     *)

MasteryStatus(answers, threshold) ==
  LET attempts == answers.correct + answers.wrong IN
  CASE attempts = 0 -> "new"
    [] answers.correct >= threshold /\ 5 * answers.correct >= 4 * attempts -> "mastered"
    [] attempts > 0 /\ answers.wrong >= answers.correct -> "weak"
    [] OTHER -> IF answers.wrong > 0 THEN "review" ELSE "learning"

\* The words a student has a state for: every item that is saved leaves one,
\* also an item without answers.
WordsSeen(student) == UNION {WordsOf(q.items) : q \in {r \in sessions : r.student = student}}

IsDue(answers, threshold) == MasteryStatus(answers, threshold) \in {"new", "weak", "review"}

\* assigned are the words of the student's lessons.
DueWords(student, threshold, assigned) ==
  {w \in assigned \cup WordsSeen(student) : IsDue(state[student][w], threshold)}

(* The totals of a word are exactly what the quiz sessions of the student  *)
(* list for it, over files that name a word twice, overlapping and killed  *)
(* imports and dry runs; each word of them is in the word list; and one    *)
(* more right answer never makes a word due that was not                   *)
(* (import_study_result, _upsert_word_state, _mastery_status).             *)
TotalsExplained ==
  \A s \in Students, w \in Words, assigned \in SUBSET Words :
    LET of == {q \in sessions : q.student = s}
        better == Plus(state[s][w], [correct |-> 1, wrong |-> 0]) IN
    /\ state[s][w] =
         [correct |-> MapThenSumSet(LAMBDA q : Answers(q.items, w).correct, of),
          wrong   |-> MapThenSumSet(LAMBDA q : Answers(q.items, w).wrong, of)]
    /\ state[s][w] # NoAnswers => w \in entries
    /\ w \notin DueWords(s, 2, assigned) => ~IsDue(better, 2)
=============================================================================
