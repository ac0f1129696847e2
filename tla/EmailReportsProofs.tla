-------------------------- MODULE EmailReportsProofs --------------------------
(***************************************************************************)
(* What holds of the e-mail reports for any number of windows, slots,      *)
(* schedules and addresses, and any number of edits, outages and restarts. *)
(***************************************************************************)
EXTENDS EmailReports, TLAPS

-----------------------------------------------------------------------------
(* Type correctness *)

LEMMA IdleTypes == IdleSync \in SyncType /\ IdleReport \in ReportType
BY ReportsAssumption DEF IdleSync, IdleReport, Window, SyncType, ReportType

\* The moves of a sync stay within its type.
LEMMA SyncMoves ==
  ASSUME NEW s \in SyncType
  PROVE  /\ [s EXCEPT !.pc = "add"] \in SyncType /\ [s EXCEPT !.pc = "idle"] \in SyncType
         /\ s.pc \in {"idle", "drop", "add"} /\ s.window \in Window /\ s.sched \in ScheduleType
         /\ s.window < Windows => [s EXCEPT !.pc = "drop", !.window = @ + 1] \in SyncType
<1>1. s.window < Windows => s.window + 1 \in Window
  BY ReportsAssumption DEF SyncType, Window
<1>2. s.window + 1 \in Window => [s EXCEPT !.pc = "drop", !.window = @ + 1] \in SyncType
  BY DEF SyncType
<1>3. QED  BY <1>1, <1>2 DEF SyncType

LEMMA TypeCorrectStep == TypeOK /\ [Next]_vars => TypeOK'
<1> SUFFICES ASSUME TypeOK, [Next]_vars PROVE TypeOK'
  OBVIOUS
<1> USE DEF TypeOK
<1>0. /\ Windows \in Nat \ {0} /\ Slots \in Nat \ {0}
      /\ MaxEdits \in Nat /\ MaxOutages \in Nat /\ MaxRestarts \in Nat
      /\ Schedules \subseteq ScheduleType /\ Default \in ScheduleType
  BY ReportsAssumption
<1>1. CASE SaveSchedule
  <2>1. saved' \in ScheduleType /\ edits' \in 0 .. MaxEdits
    BY <1>0, <1>1 DEF SaveSchedule
  <2>2. QED  BY <1>1, <2>1 DEF SaveSchedule, worklog
<1>2. ASSUME NEW e \in Emails, EditRecipient(e) PROVE TypeOK'
  BY <1>2 DEF EditRecipient, worklog, counters
<1>3. CASE GoesAway
  <2>1. outages' \in 0 .. MaxOutages
    BY <1>0, <1>3 DEF GoesAway
  <2>2. QED  BY <1>3, <2>1 DEF GoesAway, worklog
<1>3a. CASE ComesBack
  BY <1>3a DEF ComesBack, worklog, counters
<1>4. CASE SyncStart
  <2>1. ReadSchedule \in ScheduleType /\ 1 \in Window
    BY <1>0 DEF ReadSchedule, Window
  <2>2. sync' \in SyncType
    BY <1>4, <2>1 DEF SyncStart, SyncType
  <2>3. QED  BY <1>4, <2>2 DEF SyncStart, worklog, counters
<1>5. CASE SyncDrop
  <2>1. sync' \in SyncType /\ worker' \in {"starting", "running", "down"}
    BY <1>0, <1>5, IdleTypes, SyncMoves DEF SyncDrop
  <2>2. jobs' \in [Window -> SUBSET Slot]
    BY <1>5 DEF SyncDrop
  <2>3. QED  BY <1>5, <2>1, <2>2 DEF SyncDrop, worklog, counters
<1>6. CASE SyncAdd
  <2>1. sync' \in SyncType /\ worker' \in {"starting", "running", "down"}
    BY <1>0, <1>6, SyncMoves DEF SyncAdd
  <2>2. jobs' \in [Window -> SUBSET Slot]
    <3>1. sync.window \in Window /\ sync.sched.at[sync.window] \in Slot
      BY <1>0, SyncMoves DEF ScheduleType
    <3>2. QED  BY <1>6, <3>1 DEF SyncAdd
  <2>3. quiet' \in {"disturbed", "synced", "calm"}
    BY <1>6 DEF SyncAdd
  <2>4. QED  BY <1>6, <2>1, <2>2, <2>3 DEF SyncAdd, worklog, counters
<1>7. ASSUME NEW w \in Window, Begin(w) PROVE TypeOK'
  <2>0. [IdleReport EXCEPT !.pc = "list"] \in ReportType
    BY IdleTypes DEF ReportType
  <2>1. report' \in [Window -> ReportType]
    BY <1>7, <2>0 DEF Begin
  <2>2. starts' \in [Window -> 0 .. 2]
    BY <1>7 DEF Begin
  <2>3. QED  BY <1>7, <2>1, <2>2 DEF Begin, counters
<1>8. ASSUME NEW w \in Window, List(w) PROVE TypeOK'
  <2>1. recipients \in SUBSET Emails
    OBVIOUS
  <2>2. [report[w] EXCEPT !.pc = "send", !.todo = recipients] \in ReportType
    <3>1. report[w] \in ReportType
      OBVIOUS
    <3>2. QED  BY <2>1, <3>1 DEF ReportType
  <2>3. report' \in [Window -> ReportType]
    BY <1>8, <2>2, IdleTypes DEF List, EndReport
  <2>4. QED  BY <1>8, <2>3 DEF List, worklog, counters
<1>9. ASSUME NEW w \in Window, Send(w) PROVE TypeOK'
  <2>1. PICK e \in report[w].todo, delivered \in BOOLEAN, reported \in BOOLEAN :
          /\ inbox' = IF delivered THEN inbox \cup {<<w, e>>} ELSE inbox
          /\ report' = [report EXCEPT ![w] =
               [@ EXCEPT !.pc = "log", !.to = {e},
                         !.status = IF reported THEN "SUCCESS" ELSE "FAILED"]]
    BY <1>9 DEF Send
  <2>2. e \in Emails
    BY DEF ReportType
  <2>3. [report[w] EXCEPT !.pc = "log", !.to = {e},
                          !.status = IF reported THEN "SUCCESS" ELSE "FAILED"] \in ReportType
    <3>1. report[w] \in ReportType
      OBVIOUS
    <3>2. QED  BY <2>2, <3>1 DEF ReportType
  <2>4. report' \in [Window -> ReportType] /\ inbox' \subseteq Window \X Emails
    BY <2>1, <2>2, <2>3
  <2>5. QED  BY <1>9, <2>4 DEF Send, counters
<1>10. ASSUME NEW w \in Window, LogSend(w) PROVE TypeOK'
  <2>1. /\ report[w].todo \ report[w].to \in SUBSET Emails
        /\ report[w].to \in SUBSET Emails /\ report[w].status \in {"SUCCESS", "FAILED"}
    BY DEF ReportType
  <2>2. log' \subseteq Window \X Emails \X {"SUCCESS", "FAILED"}
    BY <1>10, <2>1 DEF LogSend
  <2>3. [IdleReport EXCEPT !.pc = "send", !.todo = report[w].todo \ report[w].to]
          \in ReportType
    BY <2>1, IdleTypes DEF ReportType
  <2>4. report' \in [Window -> ReportType]
    BY <1>10, <2>3, IdleTypes DEF LogSend, EndReport
  <2>5. QED  BY <1>10, <2>2, <2>4 DEF LogSend, counters
<1>11. CASE Tick
  <2>1. slot' \in Slot /\ due' \subseteq Window
    BY <1>0, <1>11 DEF Tick, Slot
  <2>2. inbox' \subseteq Window \X Emails /\ log' \subseteq Window \X Emails \X {"SUCCESS", "FAILED"}
        /\ starts' \in [Window -> 0 .. 2] /\ quiet' \in {"disturbed", "synced", "calm"}
    BY <1>11 DEF Tick, worklog
  <2>3. QED  BY <1>11, <2>1, <2>2 DEF Tick, counters
<1>12. CASE Restart
  <2>1. restarts' \in 0 .. MaxRestarts
    BY <1>0, <1>12 DEF Restart
  <2>2. sync' \in SyncType /\ report' \in [Window -> ReportType]
    BY <1>12, IdleTypes DEF Restart
  <2>3. QED  BY <1>12, <2>1, <2>2 DEF Restart, worklog
<1>13. CASE UNCHANGED vars
  BY <1>13 DEF vars, worklog, counters
<1>14. QED
  BY <1>1, <1>2, <1>3, <1>3a, <1>4, <1>5, <1>6, <1>7, <1>8, <1>9, <1>10, <1>11, <1>12, <1>13
     DEF Next, SyncStep, ReportStep

LEMMA InitTypes == Init => TypeOK
BY IdleTypes, ReportsAssumption DEF Init, TypeOK, Slot

\* Every variable keeps its type for any number of windows, slots and addresses; in
\* particular the sync never walks past the last window.
THEOREM TypeCorrect == Spec => []TypeOK
BY InitTypes, TypeCorrectStep, PTL DEF Spec

-----------------------------------------------------------------------------
(* The log *)

\* What a report is about to log as a success was delivered.
LogsWhatArrived ==
  \A w \in Window : (report[w].pc = "log" /\ report[w].status = "SUCCESS")
                    => \A e \in report[w].to : <<w, e>> \in inbox

HonestInv == TypeOK /\ LogsWhatArrived /\ LogIsHonest

LEMMA HonestStep == HonestInv /\ [Next]_vars => HonestInv'
<1> SUFFICES ASSUME HonestInv, [Next]_vars PROVE HonestInv'
  OBVIOUS
<1>0. TypeOK /\ TypeOK'
  BY TypeCorrectStep DEF HonestInv
<1>a. report \in [Window -> ReportType]
  BY <1>0 DEF TypeOK
<1> SUFFICES LogsWhatArrived' /\ LogIsHonest'
  BY <1>0 DEF HonestInv
<1> USE DEF HonestInv, LogsWhatArrived, LogIsHonest
<1>b. ASSUME UNCHANGED <<report, inbox, log>> PROVE LogsWhatArrived' /\ LogIsHonest'
  BY <1>b
<1>1. CASE SaveSchedule \/ GoesAway \/ ComesBack \/ SyncStart \/ SyncDrop \/ SyncAdd
  BY <1>1, <1>b DEF SaveSchedule, GoesAway, ComesBack, SyncStart, SyncDrop, SyncAdd, worklog
<1>2. ASSUME NEW e \in Emails, EditRecipient(e) PROVE LogsWhatArrived' /\ LogIsHonest'
  BY <1>2, <1>b DEF EditRecipient, worklog
<1>3. ASSUME NEW w \in Window, Begin(w) PROVE LogsWhatArrived' /\ LogIsHonest'
  BY <1>3, <1>a DEF Begin, IdleReport
<1>4. ASSUME NEW w \in Window, List(w) PROVE LogsWhatArrived' /\ LogIsHonest'
  <2>1. report' = [report EXCEPT ![w].pc = "send", ![w].todo = recipients]
        \/ report' = [report EXCEPT ![w] = IdleReport]
    BY <1>4 DEF List, EndReport
  <2>2. report'[w].pc # "log"
    BY <2>1, <1>a DEF IdleReport, ReportType
  <2>3. \A v \in Window : v # w => report'[v] = report[v]
    BY <2>1, <1>a
  <2>4. QED  BY <1>4, <2>2, <2>3 DEF List, worklog
<1>5. ASSUME NEW w \in Window, Send(w) PROVE LogsWhatArrived' /\ LogIsHonest'
  <2>1. PICK e \in report[w].todo, delivered \in BOOLEAN, reported \in BOOLEAN :
          /\ reported => delivered
          /\ inbox' = IF delivered THEN inbox \cup {<<w, e>>} ELSE inbox
          /\ report' = [report EXCEPT ![w] =
               [@ EXCEPT !.pc = "log", !.to = {e},
                         !.status = IF reported THEN "SUCCESS" ELSE "FAILED"]]
    BY <1>5 DEF Send
  <2>2. report'[w].to = {e} /\ (report'[w].status = "SUCCESS" => delivered)
    BY <2>1, <1>a DEF ReportType
  <2>3. \A v \in Window : v # w => report'[v] = report[v]
    BY <2>1, <1>a
  <2>4. inbox \subseteq inbox' /\ (delivered => <<w, e>> \in inbox')
    BY <2>1
  <2>5. LogsWhatArrived'
    BY <2>2, <2>3, <2>4
  <2>6. LogIsHonest'
    BY <1>5, <2>4 DEF Send
  <2>7. QED  BY <2>5, <2>6
<1>6. ASSUME NEW w \in Window, LogSend(w) PROVE LogsWhatArrived' /\ LogIsHonest'
  <2>1. inbox' = inbox
    BY <1>6 DEF LogSend
  <2>2. report'[w].pc # "log" /\ \A v \in Window : v # w => report'[v] = report[v]
    <3> DEFINE more == [IdleReport EXCEPT !.pc = "send", !.todo = report[w].todo \ report[w].to]
    <3>1. IdleReport.pc # "log" /\ more.pc # "log"
      BY DEF IdleReport
    <3>2. report' = [report EXCEPT ![w] = IdleReport] \/ report' = [report EXCEPT ![w] = more]
      BY <1>6 DEF LogSend, EndReport
    <3> HIDE DEF more
    <3>3. QED  BY <3>1, <3>2, <1>a
  <2>3. LogsWhatArrived'
    BY <2>1, <2>2
  <2>4. log' \subseteq log \cup {<<w, e, report[w].status>> : e \in report[w].to}
    BY <1>6 DEF LogSend
  <2>5. report[w].pc = "log"
    BY <1>6 DEF LogSend
  <2>6. LogIsHonest'
    <3> SUFFICES ASSUME NEW v \in Window, NEW e \in Emails, <<v, e, "SUCCESS">> \in log',
                        <<v, e, "SUCCESS">> \notin log
                 PROVE  <<v, e>> \in inbox
      BY <2>1
    <3>1. v = w /\ e \in report[w].to /\ report[w].status = "SUCCESS"
      BY <2>4
    <3>2. QED  BY <2>5, <3>1
  <2>7. QED  BY <2>3, <2>6
<1>7. CASE Tick
  <2>1. report' = report
    BY <1>7 DEF Tick
  <2>2. CASE slot' = 1
    <3>1. inbox' = {} /\ log' = {} /\ \A w \in Window : report[w].pc = "idle"
      BY <1>7, <2>2 DEF Tick
    <3>2. QED  BY <2>1, <3>1
  <2>3. CASE slot' # 1
    BY <1>7, <2>1, <2>3, <1>b DEF Tick, worklog
  <2>4. QED  BY <2>2, <2>3
<1>8. CASE Restart
  BY <1>8, <1>a DEF Restart, IdleReport, worklog
<1>9. CASE UNCHANGED vars
  BY <1>9, <1>b DEF vars, worklog
<1>10. QED
  BY <1>1, <1>2, <1>3, <1>4, <1>5, <1>6, <1>7, <1>8, <1>9 DEF Next, SyncStep, ReportStep

\* The audit log never claims a mail that was not delivered, whatever outages,
\* restarts and lost answers: the row is written from the server's answer.
THEOREM LogNeverOverstates == Spec => []LogIsHonest
<1>1. Init => HonestInv
  <2> SUFFICES ASSUME Init PROVE HonestInv
    OBVIOUS
  <2>1. TypeOK
    BY InitTypes
  <2>2. LogsWhatArrived /\ LogIsHonest
    BY DEF Init, LogsWhatArrived, LogIsHonest, IdleReport
  <2>3. QED  BY <2>1, <2>2 DEF HonestInv
<1>2. HonestInv => LogIsHonest
  BY DEF HonestInv
<1>3. QED  BY <1>1, <1>2, HonestStep, PTL DEF Spec

-----------------------------------------------------------------------------
(* One report a day *)

\* While a sync walks the windows, those behind its cursor are registered for the
\* times it read and the one it dropped for none.
SyncFollows ==
  /\ sync.pc # "idle" => \A w \in Window :
       w < sync.window => jobs[w] \subseteq {sync.sched.at[w]}
  /\ sync.pc = "add" => jobs[sync.window] = {}

\* Once a sync applied the saved schedule it stays applied, and every later sync
\* reads the same.
Applied == quiet # "disturbed" =>
  /\ up
  /\ \A w \in Window : jobs[w] \subseteq {saved.at[w]}
  /\ sync.pc # "idle" => sync.sched = saved

\* From then on a window fires at its saved time only, and has not yet reported
\* when it does.
CalmDays == quiet = "calm" => \A w \in Window :
  /\ starts[w] <= 1
  /\ w \in due => starts[w] = 0 /\ slot = saved.at[w]
  /\ starts[w] = 1 => slot >= saved.at[w]

DailyInv == TypeOK /\ SyncFollows /\ Applied /\ CalmDays

LEMMA DailyStep == DailyInv /\ [Next]_vars => DailyInv'
<1> SUFFICES ASSUME DailyInv, [Next]_vars PROVE DailyInv'
  OBVIOUS
<1>0. TypeOK /\ TypeOK' /\ SyncFollows /\ Applied /\ CalmDays
  BY TypeCorrectStep DEF DailyInv
<1>t. /\ Windows \in Nat \ {0} /\ sync.window \in 1 .. Windows
      /\ sync.pc \in {"idle", "drop", "add"} /\ jobs \in [Window -> SUBSET Slot]
      /\ slot \in 1 .. Slots /\ Slots \in Nat
      /\ \A w \in Window : saved.at[w] \in Nat /\ starts[w] \in 0 .. 2
  <2>1. /\ Windows \in Nat \ {0} /\ Slots \in Nat
        /\ jobs \in [Window -> SUBSET Slot] /\ starts \in [Window -> 0 .. 2]
        /\ slot \in 1 .. Slots /\ saved \in ScheduleType /\ sync \in SyncType
    BY <1>0, ReportsAssumption DEF TypeOK, Slot
  <2>2. sync.window \in 1 .. Windows /\ sync.pc \in {"idle", "drop", "add"}
    BY <2>1 DEF SyncType, Window
  <2>3. saved.at \in [Window -> Slot] /\ Slot \subseteq Nat
    BY <2>1 DEF ScheduleType, Slot
  <2>4. \A w \in Window : saved.at[w] \in Nat
    BY <2>3
  <2>5. QED  BY <2>1, <2>2, <2>4
<1> DEFINE Goal == SyncFollows' /\ Applied' /\ CalmDays'
<1> SUFFICES Goal
  BY <1>0 DEF DailyInv
<1>a. ASSUME UNCHANGED <<jobs, sync>> PROVE SyncFollows'
  BY <1>0, <1>a DEF SyncFollows
<1>b. ASSUME UNCHANGED <<quiet, up, saved, jobs, sync>> PROVE Applied'
  BY <1>0, <1>b DEF Applied
<1>c. ASSUME UNCHANGED <<quiet, starts, due, slot, saved>> PROVE CalmDays'
  BY <1>0, <1>c DEF CalmDays
<1>1. CASE SaveSchedule \/ GoesAway
  BY <1>1, <1>a DEF SaveSchedule, GoesAway, Applied, CalmDays
<1>2. CASE ComesBack
  <2>1. quiet' = "disturbed"
    BY <1>0, <1>2 DEF ComesBack, Applied, TypeOK
  <2>2. QED  BY <1>2, <2>1, <1>a DEF ComesBack, Applied, CalmDays
<1>3. ASSUME NEW e \in Emails, EditRecipient(e) PROVE Goal
  BY <1>3, <1>a, <1>b, <1>c DEF EditRecipient, worklog
<1>4. CASE SyncStart
  <2>1. SyncFollows'
    <3>1. sync'.window = 1 /\ sync'.pc = "drop"
      BY <1>4 DEF SyncStart
    <3>2. QED  BY <3>1 DEF SyncFollows, Window
  <2>2. Applied'
    BY <1>0, <1>4 DEF SyncStart, Applied, ReadSchedule
  <2>3. QED  BY <1>4, <2>1, <2>2, <1>c DEF SyncStart, worklog
<1>5. CASE SyncDrop
  <2>1. jobs'[sync.window] = {} /\ \A w \in Window : jobs'[w] \subseteq jobs[w]
    BY <1>5, <1>t DEF SyncDrop, Window
  <2>2. sync' = [sync EXCEPT !.pc = "add"] \/ sync' = IdleSync
    BY <1>5 DEF SyncDrop
  <2>3. sync'.pc # "idle" => /\ sync'.window = sync.window
                             /\ sync'.sched = sync.sched /\ sync.pc # "idle"
    BY <1>0, <1>5, <2>2 DEF IdleSync, TypeOK, SyncType, SyncDrop
  <2>4. SyncFollows'
    BY <1>0, <2>1, <2>3 DEF SyncFollows
  <2>5. Applied'
    BY <1>0, <1>5, <2>1, <2>3 DEF SyncDrop, Applied
  <2>6. QED  BY <1>5, <2>4, <2>5, <1>c DEF SyncDrop, worklog
<1>6. CASE SyncAdd
  <2>1. /\ jobs'[sync.window] = {sync.sched.at[sync.window]}
        /\ \A w \in Window : w # sync.window => jobs'[w] = jobs[w]
    BY <1>0, <1>6, <1>t DEF SyncAdd, SyncFollows, Window
  <2>2. /\ sync'.sched = sync.sched /\ sync'.pc # "add" /\ sync.pc = "add"
        /\ sync'.pc # "idle" => sync'.window = sync.window + 1
    BY <1>0, <1>6, <1>t DEF SyncAdd, TypeOK, SyncType
  <2>3. \A w \in Window : w <= sync.window => jobs'[w] \subseteq {sync.sched.at[w]}
    <3>1. \A w \in Window : w <= sync.window => w < sync.window \/ w = sync.window
      BY <1>t DEF Window
    <3>2. \A w \in Window : w < sync.window => w # sync.window
      BY <1>t DEF Window
    <3>3. QED  BY <1>0, <2>1, <2>2, <3>1, <3>2 DEF SyncFollows
  <2>4. SyncFollows'
    <3>1. \A w \in Window : w < sync.window + 1 => w <= sync.window
      BY <1>t DEF Window
    <3>2. QED  BY <2>2, <2>3, <3>1 DEF SyncFollows
  <2>5. Applied'
    <3>1. CASE quiet # "disturbed"
      <4>1. sync.sched = saved /\ quiet' = quiet
        BY <1>0, <2>2, <3>1, <1>6 DEF Applied, SyncAdd
      <4>2. \A w \in Window : jobs'[w] \subseteq {saved.at[w]}
        BY <1>0, <2>1, <3>1, <4>1 DEF Applied
      <4>3. QED  BY <1>0, <1>6, <2>2, <3>1, <4>1, <4>2 DEF Applied, SyncAdd
    <3>2. CASE quiet = "disturbed" /\ quiet' # "disturbed"
      <4>1. up /\ sync.window = Windows /\ sync.sched = saved
        BY <1>6, <3>2 DEF SyncAdd
      <4>2. \A w \in Window : jobs'[w] \subseteq {saved.at[w]}
        BY <2>3, <4>1, <1>t DEF Window
      <4>3. QED  BY <1>6, <2>2, <4>1, <4>2 DEF Applied, SyncAdd
    <3>3. QED  BY <3>1, <3>2 DEF Applied
  <2>6. CalmDays'
    <3>1. quiet' = "calm" => quiet = "calm"
      BY <1>6 DEF SyncAdd
    <3>2. QED  BY <1>0, <1>6, <3>1 DEF SyncAdd, CalmDays, worklog
  <2>7. QED  BY <2>4, <2>5, <2>6
<1>7. ASSUME NEW w \in Window, Begin(w) PROVE Goal
  <2>1. SyncFollows' /\ Applied'
    BY <1>7, <1>a, <1>b DEF Begin
  <2>2. CalmDays'
    <3> SUFFICES ASSUME quiet = "calm", NEW v \in Window
                 PROVE  /\ starts'[v] <= 1
                        /\ v \in due' => starts'[v] = 0 /\ slot = saved.at[v]
                        /\ starts'[v] = 1 => slot >= saved.at[v]
      BY <1>7 DEF Begin, CalmDays
    <3>1. CASE v = w
      <4>1. starts[w] = 0 /\ slot = saved.at[w] /\ w \notin due'
        BY <1>0, <1>7 DEF Begin, CalmDays
      <4>2. starts'[w] \in {0, 1}
        BY <1>0, <1>7, <4>1 DEF Begin, TypeOK
      <4>3. QED  BY <3>1, <4>1, <4>2, <1>t
    <3>2. CASE v # w
      <4>1. starts'[v] = starts[v] /\ (v \in due' => v \in due)
        BY <1>0, <1>7, <3>2 DEF Begin, TypeOK
      <4>2. QED  BY <1>0, <4>1 DEF CalmDays
    <3>3. QED  BY <3>1, <3>2
  <2>3. QED  BY <2>1, <2>2
<1>8. ASSUME NEW w \in Window, List(w) \/ Send(w) \/ LogSend(w) PROVE Goal
  BY <1>8, <1>a, <1>b, <1>c DEF List, Send, LogSend, worklog
<1>9. CASE Tick
  <2>1. SyncFollows'
    BY <1>9, <1>a DEF Tick
  <2>2. quiet' # "disturbed" => quiet # "disturbed"
    BY <1>9 DEF Tick
  <2>3. Applied'
    BY <1>0, <1>9, <2>2 DEF Tick, Applied
  <2>4. CalmDays'
    <3> SUFFICES ASSUME quiet' = "calm", NEW w \in Window
                 PROVE  /\ starts'[w] <= 1
                        /\ w \in due' => starts'[w] = 0 /\ slot' = saved.at[w]
                        /\ starts'[w] = 1 => slot' >= saved.at[w]
      BY <1>9 DEF Tick, CalmDays
    <3>1. w \in due' => slot' = saved.at[w]
      BY <1>0, <1>9, <2>2 DEF Tick, Applied
    <3>2. CASE slot' = 1
      <4>1. starts'[w] = 0
        BY <1>9, <3>2 DEF Tick
      <4>2. QED  BY <3>1, <4>1
    <3>3. CASE slot' # 1
      <4>1. slot' = slot + 1 /\ starts' = starts /\ quiet = "calm"
        BY <1>9, <3>3 DEF Tick, worklog
      <4>2. starts[w] <= 1 /\ (starts[w] = 1 => slot >= saved.at[w])
        BY <1>0, <4>1 DEF CalmDays
      <4>3. QED  BY <3>1, <4>1, <4>2, <1>t
    <3>4. QED  BY <3>2, <3>3
  <2>5. QED  BY <2>1, <2>3, <2>4
<1>10. CASE Restart
  <2>1. sync'.pc = "idle" /\ due' = {} /\ \A w \in Window : jobs'[w] = {}
    BY <1>10 DEF Restart, IdleSync
  <2>2. UNCHANGED <<slot, up, saved, starts, quiet>>
    BY <1>10 DEF Restart, worklog
  <2>3. SyncFollows' /\ Applied'
    BY <1>0, <2>1, <2>2 DEF SyncFollows, Applied
  <2>4. CalmDays'
    BY <1>0, <2>1, <2>2 DEF CalmDays
  <2>5. QED  BY <2>3, <2>4
<1>11. CASE UNCHANGED vars
  BY <1>11, <1>a, <1>b, <1>c DEF vars, worklog
<1>12. QED
  BY <1>1, <1>2, <1>3, <1>4, <1>5, <1>6, <1>7, <1>8, <1>9, <1>10, <1>11
     DEF Next, SyncStep, ReportStep

\* From the first midnight after the saved schedule was applied until it or the
\* database is disturbed again no window reports twice a day: for any number of
\* windows, however often syncs drop and register them, reports run on and the
\* worker restarts.
THEOREM NoReportTwice == Spec => []OneReportADay
<1>1. Init => DailyInv
  <2> SUFFICES ASSUME Init PROVE DailyInv
    OBVIOUS
  <2>1. TypeOK /\ sync.pc = "idle" /\ quiet = "disturbed"
    BY InitTypes DEF Init, IdleSync
  <2>2. QED  BY <2>1 DEF DailyInv, SyncFollows, Applied, CalmDays
<1>2. DailyInv => OneReportADay
  BY DEF DailyInv, CalmDays, OneReportADay
<1>3. QED  BY <1>1, <1>2, DailyStep, PTL DEF Spec

=============================================================================
