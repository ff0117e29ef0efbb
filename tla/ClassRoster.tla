----------------------------- MODULE ClassRoster -----------------------------
(***************************************************************************)
(* The roster of a class day and its gaps: the roster, session-gaps and    *)
(* index commands of write_action_handlers.py around the record-class      *)
(* template.  The agent takes the students of the payload from the roster, *)
(* applies it, asks for gaps and applies the missing students again.       *)
(* Enrollments, students and sessions are edited by other programs all the *)
(* while, and every SELECT of a report sees the database of its own time.  *)
(*                                                                         *)
(* One class.  Dates are numbers; 0 is an empty date, and a date SQLite    *)
(* cannot read is as one that never begins or has ended always.            *)
(***************************************************************************)
EXTENDS Naturals, Sequences, FiniteSets

CONSTANTS
  RosterStudents, Dates,
  Kinds,     \* kinds of sessions
  Stubbed,   \* those the database's trigger adds records for
  Periods,   \* <<started_on, ended_on>>
  Declared,  \* tables the templates declare unique indexes for; one is "sessions"
  MaxRows, MaxEdits  \* bounds: sessions; edits

VARIABLES
  enrollments,  \* rows [student, status, period]; a doubled one counts once
  inactive,     \* students whose account is closed
  sessions,     \* rows [date, kind] by their id
  records,      \* attendance by <<session, student>>: "null" or "set"
  doubled,      \* the other declared tables with rows that agree in a key
  indexes,
  gaps,         \* a report of session-gaps in the making
  disturbed,    \* history: the database was written since it was begun
  late,         \* history: <<session, student>> enrolled after the session was
                \* there
  edits

students == <<enrollments, inactive, late>>
report == <<gaps, disturbed>>
vars == <<students, sessions, records, doubled, indexes, report, edits>>

NoReport == [step |-> "none", date |-> 0, session |-> 0, total |-> 0, recorded |-> 0,
             missing |-> {}]

Init ==
  /\ enrollments = {} /\ inactive = {} /\ late = {}
  /\ sessions = <<>> /\ records = <<>>
  /\ doubled = {} /\ indexes = {}
  /\ gaps = NoReport /\ disturbed = FALSE /\ edits = 0

-----------------------------------------------------------------------------
(* The roster.                                                             *)

\* The date filter; without a date, an enrollment with any end is over.
InForce(period, date) ==
  IF date = 0 THEN period[2] = 0
  ELSE period[1] <= date /\ (period[2] = 0 \/ period[2] >= date)

\* _active_enrollees_sql with its parameters.
ActiveEnrollees(date) ==
  {e.student : e \in {x \in enrollments :
     x.status = "active" /\ x.student \notin inactive /\ InForce(x.period, date)}}

\* The parts of session-gaps: the first session of the date, of whatever kind;
\* the students with attendance; those with none, or without a record.
SessionOf(date) == CHOOSE i \in DOMAIN sessions :
  sessions[i].date = date /\ \A j \in 1..(i - 1) : sessions[j].date # date
Attended(session) ==
  {s \in RosterStudents : <<session, s>> \in DOMAIN records /\ records[<<session, s>>] = "set"}
\* A bug to be caught: whoever has attendance counts, enrolled or not.
RecordedOfAnyone(session, date) == Attended(session)

RecordedAttendance(session, date) == Attended(session) \cap ActiveEnrollees(date)
Missing(session, date) == ActiveEnrollees(date) \ Attended(session)

-----------------------------------------------------------------------------
(* What writes.                                                            *)

Written == disturbed' = (disturbed \/ gaps.step \notin {"none", "done"})
Edit == edits < MaxEdits /\ edits' = edits + 1

Enrol(s, period) ==
  /\ Edit /\ Written
  /\ enrollments' = enrollments \cup {[student |-> s, status |-> "active", period |-> period]}
  /\ late' = late \cup ((DOMAIN sessions) \X {s})
  /\ UNCHANGED <<inactive, sessions, records, doubled, indexes, gaps>>

EndEnrollment(e) ==
  /\ Edit /\ Written
  /\ enrollments' = (enrollments \ {e}) \cup {[e EXCEPT !.status = "ended"]}
  /\ UNCHANGED <<inactive, late, sessions, records, doubled, indexes, gaps>>

SetActive(s) ==
  /\ Edit /\ Written
  /\ inactive' = IF s \in inactive THEN inactive \ {s} ELSE inactive \cup {s}
  /\ UNCHANGED <<enrollments, late, sessions, records, doubled, indexes, gaps>>

\* The database adds a record per student whose enrollment has the status
\* "active", whenever it begins or ends.
WithStubs(date, kind) ==
  LET id == Len(sessions) + 1
      stubs == IF kind \in Stubbed
               THEN {<<id, e.student>> : e \in {x \in enrollments : x.status = "active"}}
               ELSE {}
  IN [r \in DOMAIN records \cup stubs |-> IF r \in stubs THEN "null" ELSE records[r]]

Exists(date, kind) == \E i \in DOMAIN sessions : sessions[i] = [date |-> date, kind |-> kind]

\* Another program adds a session, twice if no index forbids it.
AddSession(date, kind) ==
  /\ Edit /\ Written /\ Len(sessions) < MaxRows
  /\ "sessions" \in indexes => ~Exists(date, kind)
  /\ sessions' = Append(sessions, [date |-> date, kind |-> kind])
  /\ records' = WithStubs(date, kind)
  /\ UNCHANGED <<students, doubled, indexes, gaps>>

Double(table) ==
  /\ Edit /\ Written
  /\ table \notin indexes /\ doubled' = doubled \cup {table}
  /\ UNCHANGED <<students, sessions, records, indexes, gaps>>

Heal(table) ==
  /\ Edit /\ Written
  /\ doubled' = doubled \ {table}
  /\ UNCHANGED <<students, sessions, records, indexes, gaps>>

\* apply of record-class: the session is ensured, and the records of the
\* students listed that are there are filled.
RecordClass(date, kind, listed) ==
  /\ "sessions" \in indexes
  /\ Exists(date, kind) \/ Len(sessions) < MaxRows
  /\ Written
  /\ sessions' = IF Exists(date, kind) THEN sessions
                 ELSE Append(sessions, [date |-> date, kind |-> kind])
  /\ LET stubbed == IF Exists(date, kind) THEN records ELSE WithStubs(date, kind)
         id == CHOOSE i \in DOMAIN sessions' : sessions'[i] = [date |-> date, kind |-> kind]
     IN records' = [r \in DOMAIN stubbed |->
                      IF r[1] = id /\ r[2] \in listed THEN "set" ELSE stubbed[r]]
  /\ UNCHANGED <<students, doubled, indexes, gaps, edits>>

-----------------------------------------------------------------------------
(* The index command.                                                      *)

\* _index_conflict_item: rows that agree in the columns of an index.
Conflict(table) ==
  IF table = "sessions"
  THEN \E i, j \in DOMAIN sessions : i # j /\ sessions[i] = sessions[j]
  ELSE table \in doubled

\* index --apply: all of them in a transaction, or none.  An index that is
\* there is left alone.
IndexApply ==
  /\ Written
  /\ indexes' = IF \E table \in Declared \ indexes : Conflict(table) THEN indexes ELSE Declared
  /\ UNCHANGED <<students, sessions, records, doubled, gaps, edits>>

-----------------------------------------------------------------------------
(* session-gaps, a SELECT at a time.                                       *)

Proceed(state) ==
  /\ gaps' = state
  /\ UNCHANGED <<students, sessions, records, doubled, indexes, edits>>

FindSession(date) ==
  /\ gaps = NoReport
  /\ disturbed' = FALSE
  /\ Proceed(IF \E i \in DOMAIN sessions : sessions[i].date = date
             THEN [gaps EXCEPT !.step = "total", !.date = date, !.session = SessionOf(date)]
             ELSE gaps)

CountEnrolled ==
  /\ gaps.step = "total" /\ UNCHANGED disturbed
  /\ Proceed([gaps EXCEPT !.step = "recorded",
                            !.total = Cardinality(ActiveEnrollees(gaps.date))])

CountRecorded ==
  /\ gaps.step = "recorded" /\ UNCHANGED disturbed
  /\ Proceed([gaps EXCEPT !.step = "missing",
                            !.recorded = Cardinality(RecordedAttendance(gaps.session, gaps.date))])

ListMissing ==
  /\ gaps.step = "missing" /\ UNCHANGED disturbed
  /\ Proceed([gaps EXCEPT !.step = "done", !.missing = Missing(gaps.session, gaps.date)])

Dismiss ==
  /\ gaps # NoReport /\ disturbed' = FALSE
  /\ Proceed(NoReport)

\* The students of a payload: the roster of the day or of now, or the missing.
Payloads(date) ==
  {ActiveEnrollees(date), ActiveEnrollees(0)} \cup
  (IF gaps.step = "done" THEN {gaps.missing} ELSE {})

Next ==
  \/ \E s \in RosterStudents, period \in Periods : Enrol(s, period)
  \/ \E e \in {x \in enrollments : x.status = "active"} : EndEnrollment(e)
  \/ \E s \in RosterStudents : SetActive(s)
  \/ \E date \in Dates, kind \in Kinds :
       \/ AddSession(date, kind)
       \/ \E listed \in Payloads(date) : RecordClass(date, kind, listed)
  \/ \E table \in Declared \ {"sessions"} : Double(table) \/ Heal(table)
  \/ IndexApply
  \/ \E date \in Dates : FindSession(date)
  \/ CountEnrolled \/ CountRecorded \/ ListMissing \/ Dismiss

Spec == Init /\ [][Next]_vars

-----------------------------------------------------------------------------
(* A report adds up, unless the database was written between its SELECTs;  *)
(* and applying record-class to the students it misses leaves none of them *)
(* out: they have the record it fills, unless they were enrolled after the *)
(* session was there or it is of a kind without records (_session_gaps,    *)
(* _recorded_attendance_count, _active_enrollees_sql).                     *)
GapsCanBeFilled ==
  gaps.step = "done" =>
    /\ disturbed \/ gaps.recorded + Cardinality(gaps.missing) = gaps.total
    /\ \A s \in gaps.missing :
         \/ <<gaps.session, s>> \in DOMAIN records \cup late
         \/ sessions[gaps.session].kind \notin Stubbed
=============================================================================
