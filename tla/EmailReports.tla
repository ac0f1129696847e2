----------------------------- MODULE EmailReports -----------------------------
(***************************************************************************)
(* The daily e-mail reports: the schedule the dashboard saves, the sync    *)
(* job that re-registers the report windows from it every quarter of an    *)
(* hour, the report jobs the windows fire and their dispatch to the        *)
(* recipients, while the database comes and goes and the worker restarts.  *)
(*                                                                         *)
(* A day is a cycle of slots, every day a report day; a window fires at    *)
(* the start of the slot it is registered for.  A schedule is the slot of  *)
(* each window, whether reports are enabled, and whether CronTrigger       *)
(* accepts its days_of_week, a text the API stores unchecked.              *)
(***************************************************************************)
EXTENDS Naturals, FiniteSets

CONSTANTS
  Windows,     \* number of report windows, in REPORT_WINDOWS' order
  Slots,       \* instants of a day that matter
  Schedules,   \* schedules that may be saved
  Default,     \* DEFAULT_EMAIL_SCHEDULE
  Emails,      \* addresses
  MaxEdits,    \* bound: schedules saved
  MaxOutages,  \* bound: times the database goes away
  MaxRestarts  \* bound: times the worker dies

Window == 1 .. Windows
Slot == 1 .. Slots
ScheduleType == [at : [Window -> Slot], enabled : BOOLEAN, parses : BOOLEAN]
SyncType == [pc : {"idle", "drop", "add"}, window : Window, sched : ScheduleType]
ReportType == [pc : {"idle", "list", "send", "log"}, todo : SUBSET Emails,
               to : SUBSET Emails, status : {"SUCCESS", "FAILED"}]

ASSUME ReportsAssumption ==
  /\ Windows \in Nat \ {0} /\ Slots \in Nat \ {0}
  /\ Schedules \subseteq ScheduleType
  /\ Default \in ScheduleType /\ Default.parses /\ Default.enabled
  /\ MaxEdits \in Nat /\ MaxOutages \in Nat /\ MaxRestarts \in Nat

VARIABLES
  slot,                       \* the time of day
  up,                         \* the database answers
  saved,                      \* email_schedule_configs, or Default while it has no row
  recipients,                 \* addresses with an active row in email_recipients
  worker,                     \* "starting", "running" or "down"
  jobs,                       \* the triggers registered for each window
  due,                        \* report jobs just handed to the pool
  sync,                       \* the run of sync_email_schedule_jobs
  report,                     \* the run of each window's report job
  inbox,                      \* mails of today that were delivered: window, address
  log,                        \* email_send_logs of today: window, address, status
  starts,                     \* reports begun today, up to 2
  quiet,                      \* history: how far the last edit or outage is behind
  edits, outages, restarts

worklog == <<inbox, log, starts>>
counters == <<edits, outages, restarts>>
vars == <<slot, up, saved, recipients, worker, jobs, due, sync, report, worklog, quiet, counters>>

IdleSync == [pc |-> "idle", window |-> 1, sched |-> Default]
IdleReport == [pc |-> "idle", todo |-> {}, to |-> {}, status |-> "SUCCESS"]

Init ==
  /\ slot = 1 /\ up = TRUE /\ saved = Default
  /\ recipients \in SUBSET Emails
  /\ worker = "starting" /\ jobs = [w \in Window |-> {}] /\ due = {}
  /\ sync = IdleSync /\ report = [w \in Window |-> IdleReport]
  /\ inbox = {} /\ log = {} /\ starts = [w \in Window |-> 0]
  /\ quiet = "disturbed"
  /\ edits = 0 /\ outages = 0 /\ restarts = 0

-----------------------------------------------------------------------------
(* The API and the database *)

SaveSchedule ==
  /\ up /\ edits < MaxEdits
  /\ saved' \in Schedules
  /\ edits' = edits + 1 /\ quiet' = "disturbed"
  /\ UNCHANGED <<slot, up, recipients, worker, jobs, due, sync, report, worklog, outages, restarts>>

\* add_recipient inserts or re-activates a row; update_recipient switches it on or
\* off and delete_recipient removes it.
EditRecipient(e) ==
  /\ up
  /\ recipients' \in {recipients \cup {e}, recipients \ {e}}
  /\ UNCHANGED <<slot, up, saved, worker, jobs, due, sync, report, worklog, quiet, counters>>

GoesAway ==
  /\ up /\ outages < MaxOutages
  /\ up' = FALSE /\ outages' = outages + 1 /\ quiet' = "disturbed"
  /\ UNCHANGED <<slot, saved, recipients, worker, jobs, due, sync, report, worklog, edits, restarts>>

ComesBack ==
  /\ ~up /\ up' = TRUE
  /\ UNCHANGED <<slot, saved, recipients, worker, jobs, due, sync, report, worklog, quiet, counters>>

-----------------------------------------------------------------------------
(* sync_email_schedule_jobs *)

\* Mutant: the schedule is read once and kept.
ReadScheduleOnce == IF jobs = [w \in Window |-> {}] /\ up THEN saved ELSE sync.sched

\* read_email_schedule: an unreadable database means the default.
ReadSchedule == IF up THEN saved ELSE Default

\* At startup, and then whenever the interval trigger fires.
SyncStart ==
  /\ sync.pc = "idle" /\ worker \in {"starting", "running"}
  /\ sync' = [pc |-> "drop", window |-> 1, sched |-> ReadSchedule]
  /\ UNCHANGED <<slot, up, saved, recipients, worker, jobs, due, report, worklog, quiet, counters>>

\* Mutant: replace_existing is trusted to replace the trigger.
SyncDropNothing ==
  /\ sync.pc = "drop"
  /\ IF sync.sched.parses
     THEN sync' = [sync EXCEPT !.pc = "add"] /\ worker' = worker
     ELSE sync' = IdleSync /\ worker' = IF worker = "starting" THEN "down" ELSE worker
  /\ UNCHANGED <<slot, up, saved, recipients, jobs, due, report, worklog, quiet, counters>>

\* remove_job, and the construction of the trigger, whose error ends the sync: the
\* scheduler logs it, a worker that is starting dies of it.
SyncDrop ==
  /\ sync.pc = "drop"
  /\ jobs' = [jobs EXCEPT ![sync.window] = {}]
  /\ IF sync.sched.parses
     THEN sync' = [sync EXCEPT !.pc = "add"] /\ worker' = worker
     ELSE sync' = IdleSync /\ worker' = IF worker = "starting" THEN "down" ELSE worker
  /\ UNCHANGED <<slot, up, saved, recipients, due, report, worklog, quiet, counters>>

\* add_job: the trigger next fires after the present instant.
SyncAdd ==
  /\ sync.pc = "add"
  /\ jobs' = [jobs EXCEPT ![sync.window] = @ \cup {sync.sched.at[sync.window]}]
  /\ IF sync.window < Windows
     THEN /\ sync' = [sync EXCEPT !.pc = "drop", !.window = @ + 1]
          /\ worker' = worker
     ELSE sync' = [sync EXCEPT !.pc = "idle"] /\ worker' = "running"
  /\ quiet' = IF /\ quiet = "disturbed" /\ up
                 /\ sync.window = Windows /\ sync.sched = saved
              THEN "synced" ELSE quiet
  /\ UNCHANGED <<slot, up, saved, recipients, due, report, worklog, counters>>

SyncStep == SyncDrop \/ SyncAdd

-----------------------------------------------------------------------------
(* scheduled_email_report and dispatch_report *)

EndReport(w) == report' = [report EXCEPT ![w] = IdleReport]

\* The schedule is read again: disabled, or unreadable, means no report today.
Begin(w) ==
  /\ w \in due
  /\ due' = due \ {w}
  /\ IF up /\ saved.enabled
     THEN /\ report' = [report EXCEPT ![w] = [IdleReport EXCEPT !.pc = "list"]]
          /\ starts' = [starts EXCEPT ![w] = IF @ < 2 THEN @ + 1 ELSE @]
     ELSE UNCHANGED <<report, starts>>
  /\ UNCHANGED <<slot, up, saved, recipients, worker, jobs, sync, inbox, log, quiet, counters>>

\* The mailer, the active recipients and the page.  Nobody to write to, or any of
\* the three missing, ends the report.
List(w) ==
  /\ report[w].pc = "list"
  /\ \/ up /\ recipients # {} /\
        report' = [report EXCEPT ![w] = [@ EXCEPT !.pc = "send", !.todo = recipients]]
     \/ EndReport(w)
  /\ UNCHANGED <<slot, up, saved, recipients, worker, jobs, due, sync, worklog, quiet, counters>>

\* Mutant: the row is written before the server has answered.
SendAssumed(w) ==
  /\ report[w].pc = "send"
  /\ \E e \in report[w].todo, delivered, reported \in BOOLEAN :
       /\ inbox' = IF delivered THEN inbox \cup {<<w, e>>} ELSE inbox
       /\ report' = [report EXCEPT ![w] =
            [@ EXCEPT !.pc = "log", !.to = {e}, !.status = "SUCCESS"]]
  /\ UNCHANGED <<slot, up, saved, recipients, worker, jobs, due, sync, log, starts, quiet, counters>>

\* SmtpMailer.send_email: an error before or after the server took the mail.
Send(w) ==
  /\ report[w].pc = "send"
  /\ \E e \in report[w].todo, delivered, reported \in BOOLEAN :
       /\ reported => delivered
       /\ inbox' = IF delivered THEN inbox \cup {<<w, e>>} ELSE inbox
       /\ report' = [report EXCEPT ![w] =
            [@ EXCEPT !.pc = "log", !.to = {e},
                      !.status = IF reported THEN "SUCCESS" ELSE "FAILED"]]
  /\ UNCHANGED <<slot, up, saved, recipients, worker, jobs, due, sync, log, starts, quiet, counters>>

\* Mutant: an address that failed is tried again until it succeeds.
LogSendRetries(w) ==
  /\ report[w].pc = "log"
  /\ log' = IF up THEN log \cup {<<w, e, report[w].status>> : e \in report[w].to} ELSE log
  /\ LET left == IF report[w].status = "FAILED" THEN report[w].todo
                 ELSE report[w].todo \ report[w].to
     IN IF left = {} THEN EndReport(w)
        ELSE report' = [report EXCEPT ![w] = [IdleReport EXCEPT !.pc = "send", !.todo = left]]
  /\ UNCHANGED <<slot, up, saved, recipients, worker, jobs, due, sync, inbox, starts, quiet, counters>>

\* _log_send, whose failure is swallowed, and on to the next address.
LogSend(w) ==
  /\ report[w].pc = "log"
  /\ log' = IF up THEN log \cup {<<w, e, report[w].status>> : e \in report[w].to} ELSE log
  /\ LET left == report[w].todo \ report[w].to
     IN IF left = {} THEN EndReport(w)
        ELSE report' = [report EXCEPT ![w] = [IdleReport EXCEPT !.pc = "send", !.todo = left]]
  /\ UNCHANGED <<slot, up, saved, recipients, worker, jobs, due, sync, inbox, starts, quiet, counters>>

ReportStep(w) == Begin(w) \/ List(w) \/ Send(w) \/ LogSend(w)

-----------------------------------------------------------------------------
(* The clock and the process *)

\* Jobs are handed to the pool, which has a thread for each, before time passes;
\* one that still runs is not fired again (max_instances = 1).
\* Assumed of the environment: reports end before midnight.
Tick ==
  /\ due = {}
  /\ slot' = IF slot < Slots THEN slot + 1 ELSE 1
  /\ due' = IF worker = "running"
            THEN {w \in Window : slot' \in jobs[w] /\ report[w].pc = "idle"} ELSE {}
  /\ IF slot' = 1
     THEN /\ inbox' = {} /\ log' = {} /\ starts' = [w \in Window |-> 0]
          /\ \A w \in Window : report[w].pc = "idle"
          /\ quiet' = IF quiet = "synced" THEN "calm" ELSE quiet
     ELSE UNCHANGED <<worklog, quiet>>
  /\ UNCHANGED <<up, saved, recipients, worker, jobs, sync, report, counters>>

\* The worker dies and is started again; its job store was in memory.
Restart ==
  /\ restarts < MaxRestarts \/ worker = "down"
  /\ restarts' = IF worker = "down" THEN restarts ELSE restarts + 1
  /\ worker' = "starting" /\ jobs' = [w \in Window |-> {}] /\ due' = {}
  /\ sync' = IdleSync /\ report' = [w \in Window |-> IdleReport]
  /\ UNCHANGED <<slot, up, saved, recipients, worklog, quiet, edits, outages>>

Next ==
  \/ SaveSchedule \/ GoesAway \/ ComesBack \/ Tick \/ Restart
  \/ \E e \in Emails : EditRecipient(e)
  \/ SyncStart \/ SyncStep
  \/ \E w \in Window : ReportStep(w)

-----------------------------------------------------------------------------
(* Properties *)

\* Every variable has its type.
TypeOK ==
  /\ slot \in Slot /\ up \in BOOLEAN /\ saved \in ScheduleType
  /\ recipients \subseteq Emails
  /\ worker \in {"starting", "running", "down"}
  /\ jobs \in [Window -> SUBSET Slot] /\ due \subseteq Window
  /\ sync \in SyncType /\ report \in [Window -> ReportType]
  /\ inbox \subseteq Window \X Emails
  /\ log \subseteq Window \X Emails \X {"SUCCESS", "FAILED"}
  /\ starts \in [Window -> 0 .. 2] /\ quiet \in {"disturbed", "synced", "calm"}
  /\ edits \in 0 .. MaxEdits /\ outages \in 0 .. MaxOutages /\ restarts \in 0 .. MaxRestarts

\* From the first midnight after a sync has applied the saved schedule until the
\* next edit or outage no window reports twice a day, however the periodic
\* re-registration, the running reports and restarts interleave with its firing.
OneReportADay == quiet = "calm" => \A w \in Window : starts[w] <= 1

\* The audit log never claims a mail that was not delivered.
LogIsHonest == \A w \in Window, e \in Emails : <<w, e, "SUCCESS">> \in log => <<w, e>> \in inbox

\* A saved schedule takes effect on the running worker without a restart: once
\* edits and outages are over its windows stay registered for the saved times and
\* no others (sync_email_schedule_jobs, "takes effect on the running worker").
SavedSchedulesTakeEffect ==
  /\ <>[](saved.parses => \A w \in Window : jobs[w] \subseteq {saved.at[w]})
  /\ \A w \in Window : []<>(saved.parses => jobs[w] # {})

\* A report that began reaches its end, so the window can fire again.
ReportsEnd == \A w \in Window : report[w].pc # "idle" ~> report[w].pc = "idle"

\* What FAILED suggests: the mail did not arrive.
FailedIsUnsent == \A w \in Window, e \in Emails : <<w, e, "FAILED">> \in log => <<w, e>> \notin inbox

-----------------------------------------------------------------------------
\* The interval trigger keeps firing, threads run on, the container is restarted
\* and outages end.
Fairness ==
  /\ WF_vars(SyncStart) /\ WF_vars(SyncStep)
  /\ \A w \in Window : WF_vars(ReportStep(w))
  /\ WF_vars(worker = "down" /\ Restart) /\ WF_vars(ComesBack)

Spec == Init /\ [][Next]_vars /\ Fairness

=============================================================================
