---------------------------- MODULE LessonJournal ----------------------------
(***************************************************************************)
(* The homework of a class in the parents' journal and in the homework     *)
(* sheet (daily_management_outbound.py, daily_lesson_homework_db.py): the  *)
(* cell of a lesson names the homework that was due that day and announces *)
(* the day the new one is due.  What was due is looked up among the        *)
(* lessons given, by the name of the subject; the announced day is looked  *)
(* up in the timetable, by the label of the subject.  SheetSync models how *)
(* a cell gets into the sheet; this module, what two cells of one class    *)
(* tell the same parents.                                                  *)
(*                                                                         *)
(* Days are numbered; a lesson is one row of kind main, which record-class *)
(* keeps unique for a day.  Vocabulary, listening, textbook and progress   *)
(* are left out, except that a lesson without progress has no cell.        *)
(***************************************************************************)
EXTENDS Collections

CONSTANTS
  NoSubject,            \* no subject recorded, or no lesson that weekday
  LabelOf,              \* SUBJECT_LABELS: what the journal calls them
  Lessons,              \* [subject, homework, progress], homework "given",
                        \* "missing" or "blank" (left blank on purpose)
  Timetables,           \* functions from the weekdays to a subject or none
  Weekdays,             \* number of days in a week
  LastDay,              \* bound: days a lesson is given on
  Horizon,              \* days looked ahead
  MaxLessons, MaxCancelled  \* bounds

VARIABLES
  timetable,  \* class_schedule_entries: the first active entry of a weekday
  cancelled,  \* class_schedule_exceptions
  lessons     \* sessions, by day

vars == <<timetable, cancelled, lessons>>

Init ==
  /\ timetable = [w \in 1..Weekdays |-> NoSubject]
  /\ cancelled = {}
  /\ lessons = <<>>

-----------------------------------------------------------------------------
(* The office keeps the timetable; lessons are recorded by record-class.   *)

SetTimetable(t) ==
  /\ timetable' = t
  /\ UNCHANGED <<cancelled, lessons>>

Cancel(day) ==
  /\ Cardinality(cancelled) < MaxCancelled
  /\ cancelled' = cancelled \cup {day}
  /\ UNCHANGED <<timetable, lessons>>

Give(day, lesson) ==
  /\ day \notin DOMAIN lessons /\ Cardinality(DOMAIN lessons) < MaxLessons
  /\ lessons' = [d \in DOMAIN lessons \cup {day} |-> IF d = day THEN lesson ELSE lessons[d]]
  /\ UNCHANGED <<timetable, cancelled>>

Next ==
  \/ \E t \in Timetables : SetTimetable(t)
  \/ \E day \in 1..LastDay : Cancel(day)
  \/ \E day \in 1..LastDay, lesson \in Lessons : Give(day, lesson)

Spec == Init /\ [][Next]_vars

-----------------------------------------------------------------------------
(* The cell of a lesson.                                                   *)

NoDay == 0

Label(subject) == IF subject = NoSubject THEN NoSubject ELSE LabelOf[subject]

\* _scheduled_subject
Scheduled(day) == timetable[((day - 1) % Weekdays) + 1]

\* session_subject: the subject recorded, or the one of the timetable.
SubjectOf(day) ==
  IF lessons[day].subject # NoSubject THEN lessons[day].subject ELSE Scheduled(day)

ActiveOn(day) == Scheduled(day) # NoSubject /\ day \notin cancelled

FirstOf(days) == IF days = {} THEN NoDay ELSE Min(days)
Ahead(day) == (day + 1)..(day + Horizon)

NextActiveDay(day) == FirstOf({d \in Ahead(day) : ActiveOn(d)})

\* _next_same_subject_day: cancelled days count.
NextSameSubjectDay(day, subject) ==
  FirstOf({d \in Ahead(day) : Scheduled(d) # NoSubject /\ Label(Scheduled(d)) = Label(subject)})

\* A bug to be caught: the homework given on the day itself counts as due.
PreviousOrSame(day, subject) ==
  LET before == {d \in DOMAIN lessons :
                   d <= day /\ lessons[d].homework = "given" /\ SubjectOf(d) = subject}
  IN  IF before = {} THEN NoDay ELSE Max(before)

\* previous_homework: the day it was given.
PreviousHomework(day, subject) ==
  LET before == {d \in DOMAIN lessons :
                   d < day /\ lessons[d].homework = "given" /\ SubjectOf(d) = subject}
  IN  IF before = {} THEN NoDay ELSE Max(before)

\* _required_session_field: one lesson like this stops the whole range.
Refused(day) ==
  \/ ~lessons[day].progress
  \/ NextActiveDay(day) # NoDay /\ lessons[day].homework = "missing"

DueOn(day) == PreviousHomework(day, SubjectOf(day))

\* The day the homework of a lesson is announced for.
AnnouncedFor(day) ==
  LET next == NextActiveDay(day) same == NextSameSubjectDay(day, SubjectOf(day)) IN
  IF next = NoDay THEN NoDay ELSE IF same # NoDay THEN same ELSE next

\* The cells of the lessons of some days, or none at all.
JournalItems(days) ==
  LET rows == days \cap DOMAIN lessons IN
  IF \E day \in rows : Refused(day) THEN <<>>
  ELSE [day \in rows |-> [due |-> DueOn(day), announced |-> AnnouncedFor(day)]]

-----------------------------------------------------------------------------
OnTimetable(day) ==
  Scheduled(day) # NoSubject /\ Label(SubjectOf(day)) = Label(Scheduled(day))

(* Two cells of one class agree about a homework.  On the day it was       *)
(* announced for it is the one that is due, if the lesson goes by the same *)
(* name of the subject and the lessons in between were those of the        *)
(* timetable.  A lesson of the timetable never collects a homework before  *)
(* the day it was announced for; it does so on that very day if every      *)
(* lesson of the subject in between was held and gave a homework           *)
(* (_render_journal_cell, _next_same_subject_day, previous_homework).      *)
HomeworkComesDue ==
  LET cells == JournalItems(1..LastDay)
      between(s, d) == {t \in (s + 1)..(d - 1) : Label(Scheduled(t)) = Label(SubjectOf(s))}
      held(t, s) == t \in DOMAIN lessons /\ lessons[t].homework = "given" /\ SubjectOf(t) = SubjectOf(s)
  IN
  \A s, d \in DOMAIN cells :
    s < d /\ lessons[s].homework = "given" =>
      /\ /\ cells[s].announced = d /\ SubjectOf(s) = SubjectOf(d)
         /\ \A t \in DOMAIN lessons : s < t /\ t < d => OnTimetable(t)
         => cells[d].due = s
      /\ cells[d].due = s /\ OnTimetable(d) =>
           /\ cells[s].announced <= d
           /\ (\A t \in between(s, d) : held(t, s)) => cells[s].announced \in {d, NoDay}
=============================================================================
