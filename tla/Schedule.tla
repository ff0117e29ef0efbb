------------------------------ MODULE Schedule -------------------------------
(***************************************************************************)
(* Scheduled jobs (schedule.py, schedule_handlers.py): a request names a   *)
(* job by its arguments, a plan is filed under a digest of those and of    *)
(* the command line made of them, and registering needs the approval of    *)
(* that plan.  The runs asked for by hand are logged in runs.jsonl, which  *)
(* every run-now reads, cuts to its last characters and writes in place.   *)
(*                                                                         *)
(* The backend in use is made anew by every command and forgets its jobs   *)
(* (FakeBackend): list, status and remove find nothing, and a job counts   *)
(* as registered when it was handed over.  The profile, its wrapper and    *)
(* the time of a job are the same in all requests.                         *)
(***************************************************************************)
EXTENDS Naturals, Sequences

CONSTANTS
  Procs,
  Requests,  \* [kind, given, classes, file, execute]: what schedule is called
             \* with, its dates among {"date", "from", "to"}
  Relative, Folders,  \* files named relative to the folder of the caller
  LineSize,    \* length of the n-th run's line
  MaxLog,    \* the length the log is cut to
  MaxRuns    \* bound: runs asked for

VARIABLES
  status,    \* approvals by plan; nothing consumes them
  granted,   \* history: the command lines of the plans that were approved
  jobs,      \* history: the command lines that were handed over
  log,       \* runs.jsonl: [run, part], part of the line of a run
  count,     \* runs asked for
  quiet,     \* history: no run-now was killed or overlapped another
  proc

vars == <<status, granted, jobs, log, count, quiet, proc>>

Idle == [step |-> "none"]

Init ==
  /\ status = <<>> /\ granted = {} /\ jobs = {}
  /\ log = <<>> /\ count = 0 /\ quiet = TRUE
  /\ proc = [p \in Procs |-> Idle]

-----------------------------------------------------------------------------
(* Plans.                                                                  *)

Outbound == {"daily-management", "daily-lesson-homework"}

\* The dates a command line takes: a day goes before a range.
DatesOf(request) ==
  CASE request.kind = "write-action" -> {}
    [] "date" \in request.given -> {"date"}
    [] OTHER -> request.given \cap {"from", "to"}

\* _build_plan_from_args and the arguments each kind refuses or misses.
Plannable(request) ==
  /\ request.kind \in Outbound \cup {"write-action"}
  /\ ~request.execute
  /\ request.kind = "daily-management" =>
       /\ DatesOf(request) \in {{"date"}, {"from", "to"}}
       /\ ~request.classes
  /\ request.kind = "daily-lesson-homework" => request.given = {"date"}

Resolved(file, folder) == IF file \in Relative THEN <<folder, file>> ELSE <<file>>

\* _action_for_kind: only `write-action plan` and `outbound ... sync`.
ActionOf(request, folder) ==
  [kind |-> request.kind, dates |-> DatesOf(request), classes |-> request.classes,
   file |-> Resolved(request.file, folder)]

\* A bug to be caught: the digest leaves the command line out.
PlanOfArguments(request, folder) == [args |-> request]

\* build_job_plan
PlanOf(request, folder) == [args |-> request, argv |-> ActionOf(request, folder)]

HasStatus(plan, s) == plan \in DOMAIN status /\ status[plan].is = s

\* register: hands the job over, or files the plan.
Register(request, folder) ==
  LET plan == PlanOf(request, folder) IN
  /\ Plannable(request)
  /\ IF HasStatus(plan, "approved")
     THEN jobs' = jobs \cup {ActionOf(request, folder)} /\ UNCHANGED status
     ELSE /\ status' = IF plan \in DOMAIN status THEN status
                       ELSE [q \in DOMAIN status \cup {plan} |->
                               IF q = plan
                               THEN [is |-> "planned", shown |-> ActionOf(request, folder)]
                               ELSE status[q]]
          /\ UNCHANGED jobs
  /\ UNCHANGED <<granted, log, count, quiet, proc>>

\* approve_request refuses a plan that was denied; deny_request takes any.
Answer(plan, answer) ==
  /\ answer = "approved" => ~HasStatus(plan, "denied")
  /\ status' = [status EXCEPT ![plan].is = answer]
  /\ granted' = IF answer = "approved" THEN granted \cup {status[plan].shown} ELSE granted
  /\ UNCHANGED <<jobs, log, count, quiet, proc>>

-----------------------------------------------------------------------------
(* The log of runs.                                                        *)

Line(n) == [i \in 1..LineSize[n] |-> [run |-> n, part |-> i]]

Cut(text) == IF Len(text) <= MaxLog THEN text
             ELSE SubSeq(text, Len(text) - MaxLog + 1, Len(text))

\* Every line can be parsed: each begins and ends.
Whole(text) ==
  \A i \in DOMAIN text :
    LET t == text[i] IN
    /\ t.part = 1 \/ (i > 1 /\ text[i - 1] = [t EXCEPT !.part = @ - 1])
    /\ t.part = LineSize[t.run] \/ (i < Len(text) /\ text[i + 1] = [t EXCEPT !.part = @ + 1])

\* runs: where the lines begin that it lists, from the first to the last; one
\* line that cannot be parsed hides them all.
Runs(text) == IF Whole(text) THEN {i \in DOMAIN text : text[i].part = 1} ELSE {}

\* run-now, whatever the id: it never runs a job.
LoadRuns(p) ==
  /\ proc[p] = Idle /\ count < MaxRuns
  /\ count' = count + 1
  /\ quiet' = (quiet /\ \A q \in Procs : proc[q] = Idle)
  /\ proc' = [proc EXCEPT ![p] = [step |-> "open", text |-> Cut(log \o Line(count'))]]
  /\ UNCHANGED <<status, granted, jobs, log>>

OpenRuns(p) ==
  /\ proc[p].step = "open"
  /\ log' = <<>>
  /\ proc' = [proc EXCEPT ![p].step = "write"]
  /\ UNCHANGED <<status, granted, jobs, count, quiet>>

WriteRuns(p) ==
  /\ proc[p].step = "write"
  /\ log' = proc[p].text
  /\ proc' = [proc EXCEPT ![p] = Idle]
  /\ UNCHANGED <<status, granted, jobs, count, quiet>>

\* Killed, with some of its text written.
Kill(p) ==
  /\ proc[p] # Idle
  /\ log' \in IF proc[p].step = "write"
              THEN {SubSeq(proc[p].text, 1, n) : n \in 0..(Len(proc[p].text) - 1)} ELSE {log}
  /\ quiet' = FALSE
  /\ proc' = [proc EXCEPT ![p] = Idle]
  /\ UNCHANGED <<status, granted, jobs, count>>

Next ==
  \/ \E request \in Requests, folder \in Folders : Register(request, folder)
  \/ \E plan \in DOMAIN status, answer \in {"approved", "denied"} : Answer(plan, answer)
  \/ \E p \in Procs : LoadRuns(p) \/ OpenRuns(p) \/ WriteRuns(p) \/ Kill(p)

Spec == Init /\ [][Next]_vars

-----------------------------------------------------------------------------
(* A command line is handed to the scheduler only if a teacher approved    *)
(* that command line, wherever it was asked for; and what runs lists was   *)
(* asked for, once and in that order, and unless run-now was killed or     *)
(* overlapped it has no gap and, once it is done, ends with the latest run *)
(* (build_job_plan, _register, _append_run_log, _read_run_log).            *)
ScheduledIsApproved ==
  /\ jobs \subseteq granted
  /\ \A i, j \in Runs(log) :
       /\ log[i].run <= count
       /\ i < j =>
            /\ log[i].run < log[j].run
            /\ quiet => log[j].run = log[i].run + 1 \/ \E k \in Runs(log) : i < k /\ k < j
       /\ quiet /\ (\A p \in Procs : proc[p] = Idle) => \E k \in Runs(log) : log[k].run = count
=============================================================================
