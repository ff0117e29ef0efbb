----------------------------- MODULE WriteAction -----------------------------
(***************************************************************************)
(* Write actions on the academy's SQLite database (write_engine.py,        *)
(* write_actions.py and the register, apply and index commands).  A run    *)
(* compiles a registered template and its payload into statements, copies  *)
(* the database to a backup named after the second it started in, executes *)
(* the statements in one transaction, and writes an audit record.  Several *)
(* runs go on at once, are killed, fail, and are repeated.                 *)
(*                                                                         *)
(* A database maps every row that may exist to "none", to "null" for a row *)
(* without values, or to the run whose values it holds.                    *)
(***************************************************************************)
EXTENDS Naturals, Sequences, FiniteSets

CONSTANTS
  Runs,      \* apply commands, each with its template and payload
  Template,  \* "record-class" or "record-test-scores"
  ClassOf,   \* the class a run's payload names
  Payload,   \* the students a run's payload lists, in order
  Classes, KnownClasses, Students,
  Enrolled,  \* the students the trigger makes stubs for, per class
  MaxSeconds, MaxTrouble  \* bounds: time; kills and failing statements

ASSUME WriteAssumption ==
  /\ KnownClasses \subseteq Classes /\ ClassOf \in [Runs -> Classes]
  /\ Template \in [Runs -> {"record-class", "record-test-scores"}]
  /\ Payload \in [Runs -> Seq(Students)]
  /\ Enrolled \in [Classes -> SUBSET Students]
  /\ MaxSeconds \in Nat \ {0} /\ MaxTrouble \in Nat
  /\ Runs \cap {"none", "null"} = {}

VARIABLES
  db,        \* the database as other connections see it
  writer,    \* the run whose transaction holds the write lock
  work,      \* the database within that transaction
  backups,   \* per second, the whole copy named after it: none or one; a
             \* torn copy counts as none
  clock,
  registered,  \* per template: its approval, which nothing consumes
  at, stamp, captures, next,  \* per run: its step, backup, captured ids and
                              \* the statement it is at
  indexer,   \* the index command: idle, or done with its copy
  crossed,   \* history, per run: since its copy began another one committed,
             \* or wrote the same backup
  trouble

run == <<at, stamp, captures, next, crossed>>
writeVars == <<db, writer, work, backups, clock, registered, run, indexer, trouble>>

Class(c) == <<"class", c>>
Session(c) == <<"session", c>>
Stub(c, s) == <<"stub", c, s>>
Result(c, s) == <<"result", c, s>>
Test == <<"test">>
Index == <<"index">>  \* the unique indexes the templates declare
Rows == {Class(c) : c \in Classes} \cup {Session(c) : c \in Classes} \cup {Test, Index}
        \cup {Stub(c, s) : c \in Classes, s \in Students}
        \cup {Result(c, s) : c \in Classes, s \in Students}
Databases == [Rows -> {"none", "null"} \cup Runs]
Empty == [row \in Rows |-> IF row \in {Class(c) : c \in KnownClasses} THEN "null" ELSE "none"]
Unset == [class |-> "none", session |-> "none"]

-----------------------------------------------------------------------------
\* compile_plan: the statements of a run, in order; ensure makes two.
Statement(op, table) == [op |-> op, table |-> table, student |-> "none"]
ForStudent(op, table, s) == [op |-> op, table |-> table, student |-> s]
EnsureRow(table) == <<Statement("ignore", table), Statement("select", table)>>

Updates(r, table) == [i \in DOMAIN Payload[r] |-> ForStudent("update", table, Payload[r][i])]
EnsureResults(r) ==
  [i \in 1..(2 * Len(Payload[r])) |->
     ForStudent(IF i % 2 = 1 THEN "ignore" ELSE "select", "result", Payload[r][(i + 1) \div 2])]
Plan(r) ==
  IF Template[r] = "record-class"
  THEN <<Statement("select", "class")>> \o EnsureRow("session") \o Updates(r, "stub")
  ELSE <<Statement("select", "class"), Statement("select", "session")>> \o EnsureRow("test")
       \o EnsureResults(r) \o Updates(r, "result")

\* The row a statement is about, its captured ids put in.
Target(r, st, caps) ==
  CASE st.table = "class" -> Class(ClassOf[r])
    [] st.table = "session" -> Session(caps.class)
    [] st.table = "test" -> Test
    [] st.table = "stub" -> Stub(caps.session, st.student)
    [] st.table = "result" -> Result(caps.session, st.student)

\* A bug to be caught: INSERT OR REPLACE.
InsertOrReplace(d, row, r) ==
  [x \in Rows |-> IF x = row THEN r
                  ELSE IF \E c \in Classes : row = Session(c) /\ x \in {Stub(c, s) : s \in Enrolled[c]}
                  THEN "null" ELSE d[x]]

\* INSERT OR IGNORE; the database's trigger adds a stub per enrolled student.
InsertOrIgnore(d, row, r) ==
  IF d[row] # "none" THEN d
  ELSE [x \in Rows |-> IF x = row THEN r
                       ELSE IF /\ \E c \in Classes : row = Session(c) /\ x \in {Stub(c, s) : s \in Enrolled[c]}
                               /\ d[x] = "none"
                       THEN "null" ELSE d[x]]

\* What a whole run does to a database.
Intended(r, d) ==
  LET c == ClassOf[r]
      listed == {Payload[r][i] : i \in DOMAIN Payload[r]}
      fresh == d[Session(c)] = "none"
      HasStub(s) == d[Stub(c, s)] # "none" \/ (fresh /\ s \in Enrolled[c])
  IN
  IF Template[r] = "record-class"
  THEN [row \in Rows |->
          IF row = Session(c) /\ fresh THEN r
          ELSE IF \E s \in listed : row = Stub(c, s) /\ HasStub(s) THEN r
          ELSE IF \E s \in Students : row = Stub(c, s) /\ HasStub(s) /\ d[row] = "none" THEN "null"
          ELSE d[row]]
  ELSE [row \in Rows |->
          IF row \in {Result(c, s) : s \in listed} \/ (row = Test /\ d[Test] = "none") THEN r
          ELSE d[row]]

-----------------------------------------------------------------------------
WriteInit ==
  /\ db = Empty /\ writer = "none" /\ work = Empty
  /\ backups = [t \in 1..MaxSeconds |-> {}] /\ clock = 1
  /\ registered = [t \in {Template[r] : r \in Runs} |-> "none"]
  /\ at = [r \in Runs |-> "idle"] /\ stamp = [r \in Runs |-> 0]
  /\ captures = [r \in Runs |-> Unset] /\ next = [r \in Runs |-> 1]
  /\ crossed = [r \in Runs |-> FALSE]
  /\ indexer = 0 /\ trouble = 0

Tick ==
  /\ clock < MaxSeconds /\ clock' = clock + 1
  /\ UNCHANGED <<db, writer, work, backups, registered, run, indexer, trouble>>

\* register asks for the template's approval; the teacher answers.
Register(t) ==
  /\ registered[t] = "none"
  /\ registered' = [registered EXCEPT ![t] = "pending"]
  /\ UNCHANGED <<db, writer, work, backups, clock, run, indexer, trouble>>
Answer(t, answer) ==
  /\ registered[t] = "pending"
  /\ registered' = [registered EXCEPT ![t] = answer]
  /\ UNCHANGED <<db, writer, work, backups, clock, run, indexer, trouble>>

GotoStep(r, step) == at' = [at EXCEPT ![r] = step]
Reset(r) ==
  /\ stamp' = [stamp EXCEPT ![r] = 0] /\ captures' = [captures EXCEPT ![r] = Unset]
  /\ next' = [next EXCEPT ![r] = 1] /\ crossed' = [crossed EXCEPT ![r] = FALSE]
End(r) == GotoStep(r, "idle") /\ Reset(r)

\* apply: the registration is checked, the plan compiled, the backup named and
\* begun.
Apply(r) ==
  /\ at[r] = "idle" /\ registered[Template[r]] = "approved"
  /\ GotoStep(r, "copy")
  /\ stamp' = [stamp EXCEPT ![r] = clock]
  /\ UNCHANGED <<db, writer, work, backups, clock, registered, captures, next, crossed,
                 indexer, trouble>>

SameName(r, t) == crossed' = [q \in Runs |-> crossed[q] \/ (q # r /\ stamp[q] = t)]

\* A bug to be caught: an existing backup is kept.
CopyOnce(r) ==
  /\ at[r] = "copy"
  /\ backups' = [backups EXCEPT ![stamp[r]] = IF @ = {} THEN {db} ELSE @]
  /\ SameName(r, stamp[r])
  /\ GotoStep(r, "begin")
  /\ UNCHANGED <<db, writer, work, clock, registered, stamp, captures, next, indexer,
                 trouble>>

\* The file is copied; a commit in the middle of it may leave a torn copy.
Copy(r) ==
  /\ at[r] = "copy"
  /\ \E file \in {{db}} \cup (IF crossed[r] THEN {{}} ELSE {}) :
       backups' = [backups EXCEPT ![stamp[r]] = file]
  /\ SameName(r, stamp[r])
  /\ GotoStep(r, "begin")
  /\ UNCHANGED <<db, writer, work, clock, registered, stamp, captures, next, indexer,
                 trouble>>

\* BEGIN IMMEDIATE; without the declared indexes the run ends here.
Begin(r) ==
  /\ at[r] = "begin" /\ writer = "none"
  /\ IF db[Index] = "none"
     THEN End(r) /\ UNCHANGED <<writer, work>>
     ELSE /\ writer' = r /\ work' = db
          /\ GotoStep(r, "execute") /\ UNCHANGED <<stamp, captures, next, crossed>>
  /\ UNCHANGED <<db, backups, clock, registered, indexer, trouble>>

\* The lock is not had in time; the error is not caught.
BeginTimesOut(r) ==
  /\ at[r] = "begin" /\ writer # "none"
  /\ End(r)
  /\ UNCHANGED <<db, writer, work, backups, clock, registered, indexer, trouble>>

Abort(r) ==
  /\ writer' = "none" /\ work' = Empty
  /\ End(r)
  /\ UNCHANGED <<db, backups, clock, registered, indexer>>

\* _execute_step; a select without a row is a lookup miss and rolls back.
Execute(r) ==
  LET st == Plan(r)[next[r]]
      row == Target(r, st, captures[r])
  IN
  /\ at[r] = "execute" /\ next[r] <= Len(Plan(r))
  /\ IF st.op = "select" /\ work[row] = "none"
     THEN Abort(r) /\ UNCHANGED trouble
     ELSE /\ work' = CASE st.op = "select" -> work
                       [] st.op = "ignore" -> InsertOrIgnore(work, row, r)
                       [] st.op = "update" -> IF work[row] = "none" THEN work
                                              ELSE [work EXCEPT ![row] = r]
          /\ captures' = [captures EXCEPT ![r] =
               CASE st.op = "select" /\ st.table = "class" -> [@ EXCEPT !.class = row[2]]
                 [] st.op = "select" /\ st.table = "session" -> [@ EXCEPT !.session = row[2]]
                 [] OTHER -> @]
          /\ next' = [next EXCEPT ![r] = @ + 1]
          /\ UNCHANGED <<db, writer, backups, clock, registered, at, stamp, crossed,
                         indexer, trouble>>

\* SQLite refuses a statement.
StatementFails(r) ==
  /\ at[r] = "execute" /\ trouble < MaxTrouble
  /\ Abort(r) /\ trouble' = trouble + 1

\* The run is over but for its audit record.
Commit(r) ==
  /\ at[r] = "execute" /\ next[r] > Len(Plan(r))
  /\ db' = work /\ writer' = "none" /\ work' = Empty
  /\ crossed' = [q \in Runs |-> q # r /\ (crossed[q] \/ at[q] \in {"copy", "begin"})]
  /\ stamp' = [stamp EXCEPT ![r] = 0] /\ captures' = [captures EXCEPT ![r] = Unset]
  /\ next' = [next EXCEPT ![r] = 1]
  /\ GotoStep(r, "audit")
  /\ UNCHANGED <<backups, clock, registered, indexer, trouble>>

Audit(r) ==
  /\ at[r] = "audit"
  /\ GotoStep(r, "idle")
  /\ UNCHANGED <<db, writer, work, backups, clock, registered, stamp, captures, next, crossed,
                 indexer, trouble>>

\* The process dies; SQLite rolls its transaction back, a copy stays torn.
KillRun(r) ==
  /\ at[r] # "idle" /\ trouble < MaxTrouble
  /\ trouble' = trouble + 1
  /\ IF writer = r THEN writer' = "none" /\ work' = Empty ELSE UNCHANGED <<writer, work>>
  /\ GotoStep(r, "idle")
  /\ stamp' = [stamp EXCEPT ![r] = 0] /\ captures' = [captures EXCEPT ![r] = Unset]
  /\ next' = [next EXCEPT ![r] = 1]
  /\ IF at[r] = "copy"
     THEN /\ backups' = [backups EXCEPT ![stamp[r]] = {}]
          /\ crossed' = [q \in Runs |-> q # r /\ (crossed[q] \/ stamp[q] = stamp[r])]
     ELSE backups' = backups /\ crossed' = [crossed EXCEPT ![r] = FALSE]
  /\ UNCHANGED <<db, clock, registered, indexer>>

\* index --apply copies into the same directory, then builds the indexes.
IndexCopy ==
  /\ indexer = 0 /\ db[Index] = "none"
  /\ backups' = [backups EXCEPT ![clock] = {db}]
  /\ crossed' = [q \in Runs |-> crossed[q] \/ stamp[q] = clock]
  /\ indexer' = clock
  /\ UNCHANGED <<db, writer, work, clock, registered, at, stamp, captures, next,
                 trouble>>
IndexBuild ==
  /\ indexer # 0 /\ writer = "none"
  /\ db' = [db EXCEPT ![Index] = "null"]
  /\ crossed' = [q \in Runs |-> crossed[q] \/ at[q] \in {"copy", "begin"}]
  /\ indexer' = 0
  /\ UNCHANGED <<writer, work, backups, clock, registered, at, stamp, captures, next,
                 trouble>>

WriteNext ==
  \/ Tick \/ IndexCopy \/ IndexBuild
  \/ \E t \in DOMAIN registered :
       Register(t) \/ \E answer \in {"approved", "denied"} : Answer(t, answer)
  \/ \E r \in Runs :
       \/ Apply(r) \/ Copy(r) \/ Begin(r) \/ BeginTimesOut(r) \/ Execute(r) \/ StatementFails(r)
       \/ Commit(r) \/ Audit(r) \/ KillRun(r)

WriteSpec == WriteInit /\ [][WriteNext]_writeVars

-----------------------------------------------------------------------------
(* The database, the backups and the runs; a write lock is held by a run   *)
(* in its transaction.                                                     *)
WriteTypeOK ==
  /\ db \in Databases /\ work \in Databases
  /\ writer \in Runs \cup {"none"}
  /\ writer # "none" => at[writer] = "execute"
  /\ \A t \in 1..MaxSeconds : backups[t] \subseteq Databases
  /\ clock \in 1..MaxSeconds /\ stamp \in [Runs -> 0..MaxSeconds] /\ indexer \in 0..MaxSeconds
  /\ \A t \in DOMAIN registered : registered[t] \in {"none", "pending", "approved", "denied"}
  /\ at \in [Runs -> {"idle", "copy", "begin", "execute", "audit"}]
  /\ captures \in [Runs -> [class : Classes \cup {"none"}, session : Classes \cup {"none"}]]
  /\ \A r \in Runs : next[r] \in 1..(Len(Plan(r)) + 1)
  /\ crossed \in [Runs -> BOOLEAN]
  /\ trouble \in 0..MaxTrouble

(* Whatever runs overlap, fail or die, the database changes by whole runs  *)
(* of registered templates only, each on top of the one before: the        *)
(* statements with their captured ids add up to what the payload says, for *)
(* the students it lists and no others, and a run repeated after a kill    *)
(* finds its rows there already (run_write_action, _apply).                *)
WholeRunsOnly ==
  [][db' # db =>
       \/ db' = [db EXCEPT ![Index] = "null"]
       \/ \E r \in Runs : /\ at[r] = "execute" /\ registered[Template[r]] = "approved"
                          /\ db' = Intended(r, db)]_writeVars

(* When a run commits, its backup holds the database as it was before, so  *)
(* that it can be undone; unless, since the copy began, another run         *)
(* committed or copied in the same second (_backup_path).                  *)
BackupUndoes ==
  [][\A r \in Runs :
       at[r] = "execute" /\ at'[r] = "audit" /\ ~crossed[r] => backups[stamp[r]] = {db}]_writeVars
=============================================================================
