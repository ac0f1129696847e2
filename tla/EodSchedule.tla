----------------------------- MODULE EodSchedule -----------------------------
(***************************************************************************)
(* One trading week of the worker's end-of-day schedule: the 11:30 and     *)
(* 15:30 ingestion job, the 15:50 catch-up and the ingestion step of the   *)
(* 17:00 strategy job, which walk the market provider chain and upsert     *)
(* bars, and the 12:00 and 16:00 scoring job that reads those bars.        *)
(* APScheduler runs jobs of different ids on a thread pool, so their steps *)
(* interleave; a job never overlaps itself (max_instances = 1).            *)
(*                                                                         *)
(* Time is a day and a slot of that day.  A slot is the interval that      *)
(* starts at the instant named below.  Days are counted from a Monday, so  *)
(* the weekday is d % 7.  Bars and scores are abstracted to the phase of   *)
(* the session their data was read in: during it or after its close.       *)
(***************************************************************************)
EXTENDS Naturals, Sequences

CONSTANTS
  Symbols,          \* ACTIVE symbols of the reference universe
  Chain,            \* market_provider_chain(): provider ids in priority order
  IndexSources,     \* providers whose supports("index_prices") is true
  Jobs,             \* bound: the ingestion jobs that are played
  FirstDay,         \* day whose close is already stored when the worker starts
  LastDay,          \* bound: last day that is modelled
  LookbackDays,     \* scheduler_eod_lookback_days
  IncludeIntraday,  \* scheduler_eod_include_intraday_session
  LateRuns          \* may a run begun before the close still be running after it

Days == FirstDay .. LastDay
IngestJobs == {"eod", "catchup", "strategy"}
OnlyIfStale == Jobs \cap {"catchup", "strategy"}
Phases == {"none", "intraday", "close"}

AtMorning == 1     \* 11:30
AtNoon == 2        \* 12:00
AtClose == 3       \* 15:15, the session close cutoff
AtCloseRun == 4    \* 15:30
AtCatchup == 5     \* 15:50
AtScoring == 6     \* 16:00
AtStrategy == 7    \* 17:00
Slots == AtMorning .. AtStrategy

IsWeekday(d) == d % 7 < 5

ASSUME ScheduleAssumption ==
  /\ Symbols # {} /\ Jobs \subseteq IngestJobs
  /\ Chain \in Seq(STRING) /\ Len(Chain) > 0
  /\ FirstDay \in Nat \ {0} /\ LastDay \in Nat /\ FirstDay < LastDay
  /\ IsWeekday(FirstDay) /\ IsWeekday(FirstDay + 1)
  /\ LookbackDays \in Nat
  /\ IncludeIntraday \in BOOLEAN /\ LateRuns \in BOOLEAN

VARIABLES
  day, slot,   \* the clock
  due,         \* jobs whose cron trigger fired at the start of this slot
  bars,        \* prices: phase the stored bar of a symbol and day was read in
  stamps,      \* prices.ingested_at: phase it was written in
  index,       \* index_prices: phase the stored index bar was read in
  runs,        \* the ingestion run of each job
  scorer,      \* the run of the scoring job
  scores       \* factor_scores: phase of the bar a stored score was computed on

vars == <<day, slot, due, bars, stamps, index, runs, scorer, scores>>

-----------------------------------------------------------------------------
(* Sessions and freshness *)

\* A session is closed from 15:15 of its day on.
Closed(d) == d < day \/ (d = day /\ slot >= AtClose)

\* Saturday and Sunday walk back to Friday.
LastSession(d) == IF IsWeekday(d) THEN d ELSE d - ((d % 7) - 4)

\* Mutant: the cutoff itself still counts as before the close.
ExpectedAfterCutoff == LastSession(IF slot <= AtClose THEN day - 1 ELSE day)

\* Latest session that is closed at the present instant.
ExpectedSession == LastSession(IF slot < AtClose THEN day - 1 ELSE day)

\* Mutant: the setting is ignored.
EndDayAlwaysToday == IF day > ExpectedSession THEN day ELSE ExpectedSession

\* Last day a run asks the vendors for.
EndDay == IF IncludeIntraday /\ day > ExpectedSession THEN day ELSE ExpectedSession

PricesStale(d) == \A s \in Symbols, e \in Days : e >= d => bars[s][e] = "none"
IndexStale(d) == \A e \in Days : e >= d => index[e] = "none"
Stale(d) == PricesStale(d) \/ IndexStale(d)

\* The phase of session d that the present instant falls in.
PhaseOf(d) == IF Closed(d) THEN "close" ELSE "intraday"

-----------------------------------------------------------------------------
IdleRun == [pc |-> "idle", skipped |-> FALSE, k |-> 1, expected |-> FirstDay,
            end |-> FirstDay, last |-> [s \in Symbols |-> 0], indexLast |-> 0,
            phase |-> "none"]

IdleScorer == [pc |-> "idle", checked |-> FirstDay, notice |-> "none",
               latest |-> FirstDay, rows |-> [s \in Symbols |-> "none"],
               stamps |-> [s \in Symbols |-> "none"]]

StoredFirst(p) == [d \in Days |-> IF d = FirstDay THEN p ELSE "none"]

Init ==
  /\ day = FirstDay + 1 /\ slot = AtMorning
  /\ due = {"eod"} \cap Jobs
  /\ bars = [s \in Symbols |-> StoredFirst("close")]
  /\ stamps = [s \in Symbols |-> StoredFirst("close")]
  /\ index = StoredFirst("close")
  /\ runs = [j \in Jobs |-> IdleRun]
  /\ scorer = IdleScorer
  /\ scores = [s \in Symbols |-> [d \in Days |-> "none"]]

-----------------------------------------------------------------------------
(* The ingestion run of job j *)

Idle(j) == runs[j].pc = "idle"

InWindow(r, d) == d <= r.end /\ r.end <= d + LookbackDays /\ IsWeekday(d)

\* scheduled_eod_ingestion up to its first look at the data.
Start(j) ==
  /\ j \in due /\ Idle(j)
  /\ due' = due \ {j}
  /\ runs' = [runs EXCEPT ![j] =
       [IdleRun EXCEPT !.pc = IF j \in OnlyIfStale THEN "probe" ELSE "fetch",
                       !.expected = ExpectedSession, !.end = EndDay]]
  /\ UNCHANGED <<day, slot, bars, stamps, index, scorer, scores>>

\* How a run ended is only logged; the model keeps whether it was skipped.
Finish(j) == runs' = [runs EXCEPT ![j] = IdleRun]

\* The catch-up's question: are prices or index_prices behind?
Probe(j) ==
  /\ runs[j].pc = "probe"
  /\ runs' = [runs EXCEPT ![j] =
       IF Stale(@.expected) THEN [@ EXCEPT !.pc = "fetch"]
       ELSE [IdleRun EXCEPT !.skipped = TRUE, !.expected = runs[j].expected]]
  /\ UNCHANGED <<day, slot, due, bars, stamps, index, scorer, scores>>

\* An unreadable database is reported as "nothing stale".
ProbeFails(j) ==
  /\ runs[j].pc = "probe"
  /\ Finish(j)
  /\ UNCHANGED <<day, slot, due, bars, stamps, index, scorer, scores>>

\* Mutant: the last source is retried forever.
FailOverRetries(j) ==
  runs' = [runs EXCEPT ![j].pc = "fetch",
                       ![j].k = IF @ < Len(Chain) THEN @ + 1 ELSE @]

\* The next source of the chain, or the end of it.
FailOver(j) ==
  IF runs[j].k < Len(Chain)
  THEN runs' = [runs EXCEPT ![j] = [IdleRun EXCEPT !.pc = "fetch", !.k = runs[j].k + 1,
                                        !.expected = runs[j].expected, !.end = runs[j].end]]
  ELSE Finish(j)

\* The source raised, or answered with no rows at all.
SourceFails(j) ==
  /\ runs[j].pc = "fetch"
  /\ FailOver(j)
  /\ UNCHANGED <<day, slot, due, bars, stamps, index, scorer, scores>>

\* The source answered: for each symbol the bars up to some day of the window,
\* or none that survive validation (0).  Any fetched row counts as an answer,
\* even when all of them are dropped as corrupt.
SourceAnswers(j) ==
  /\ runs[j].pc = "fetch"
  /\ \E last \in [Symbols -> {0} \cup {d \in Days : InWindow(runs[j], d)}] :
       runs' = [runs EXCEPT ![j].pc = "write", ![j].last = last,
                            ![j].phase = PhaseOf(day)]
  /\ UNCHANGED <<day, slot, due, bars, stamps, index, scorer, scores>>

InBatch(r, s, d) == InWindow(r, d) /\ d <= r.last[s]

\* Mutant: a conflicting row keeps the ingested_at of its first insert.
WritePricesKeepStamp(j) ==
  LET r == runs[j]
      Upsert(table, phase) ==
        [s \in Symbols |-> [d \in Days |->
           IF ~InBatch(r, s, d) THEN table[s][d]
           ELSE IF d < day THEN "close" ELSE phase]]
  IN /\ r.pc = "write"
     /\ bars' = Upsert(bars, r.phase)
     /\ stamps' = [s \in Symbols |-> [d \in Days |->
          IF stamps[s][d] # "none" THEN stamps[s][d] ELSE Upsert(stamps, PhaseOf(day))[s][d]]]
     /\ Finish(j)
     /\ UNCHANGED <<day, slot, due, index, scorer, scores>>

\* Mutant: the window is replaced, so a bar the source did not send is gone.
WritePricesReplace(j) ==
  LET r == runs[j]
      Replace(table, phase) ==
        [s \in Symbols |-> [d \in Days |->
           IF ~InWindow(r, d) THEN table[s][d]
           ELSE IF ~InBatch(r, s, d) THEN "none"
           ELSE IF d < day THEN "close" ELSE phase]]
  IN /\ r.pc = "write"
     /\ bars' = Replace(bars, r.phase)
     /\ stamps' = Replace(stamps, PhaseOf(day))
     /\ Finish(j)
     /\ UNCHANGED <<day, slot, due, index, scorer, scores>>

\* The transaction of ingest_eod: every bar of the batch replaces what is stored.
WritePrices(j) ==
  LET r == runs[j]
      Upsert(table, phase) ==
        [s \in Symbols |-> [d \in Days |->
           IF ~InBatch(r, s, d) THEN table[s][d]
           ELSE IF d < day THEN "close" ELSE phase]]
  IN /\ r.pc = "write"
     /\ bars' = Upsert(bars, r.phase)
     /\ stamps' = Upsert(stamps, PhaseOf(day))
     /\ IF Chain[r.k] \in IndexSources THEN runs' = [runs EXCEPT ![j].pc = "index"]
                                       ELSE Finish(j)
     /\ UNCHANGED <<day, slot, due, index, scorer, scores>>

\* The transaction rolls back, and the chain goes on.
WriteFails(j) ==
  /\ runs[j].pc = "write"
  /\ FailOver(j)
  /\ UNCHANGED <<day, slot, due, bars, stamps, index, scorer, scores>>

\* The index bars of the source that served the prices ...
FetchIndex(j) ==
  /\ runs[j].pc = "index"
  /\ \E last \in {d \in Days : InWindow(runs[j], d)} :
       runs' = [runs EXCEPT ![j].pc = "indexwrite", ![j].indexLast = last,
                            ![j].phase = PhaseOf(day)]
  /\ UNCHANGED <<day, slot, due, bars, stamps, index, scorer, scores>>

WriteIndex(j) ==
  LET r == runs[j]
  IN /\ r.pc = "indexwrite"
     /\ index' = [d \in Days |->
          IF ~InWindow(r, d) \/ d > r.indexLast THEN index[d]
          ELSE IF d < day THEN "close" ELSE r.phase]
     /\ Finish(j)
     /\ UNCHANGED <<day, slot, due, bars, stamps, scorer, scores>>

\* ... whose failure is logged and never undoes the prices.
IndexFails(j) ==
  /\ runs[j].pc \in {"index", "indexwrite"}
  /\ Finish(j)
  /\ UNCHANGED <<day, slot, due, bars, stamps, index, scorer, scores>>

IngestStep(j) ==
  \/ Probe(j) \/ ProbeFails(j)
  \/ SourceFails(j) \/ SourceAnswers(j)
  \/ WritePrices(j) \/ WriteFails(j)
  \/ FetchIndex(j) \/ WriteIndex(j) \/ IndexFails(j)

-----------------------------------------------------------------------------
(* The scoring job *)

StartScoring ==
  /\ "scoring" \in due /\ scorer.pc = "idle"
  /\ due' = due \ {"scoring"}
  /\ scorer' = [IdleScorer EXCEPT !.pc = "check", !.checked = ExpectedSession]
  /\ UNCHANGED <<day, slot, bars, stamps, index, runs, scores>>

\* Mutant: only a missing session is noticed.
NoticeMissingOnly(d) == IF \A s \in Symbols : stamps[s][d] = "none" THEN "missing" ELSE "ok"

\* _warn_if_scores_are_provisional looks at the newest write of the session.
Notice(d) ==
  IF \A s \in Symbols : stamps[s][d] = "none" THEN "missing"
  ELSE IF \E s \in Symbols : stamps[s][d] = "close" THEN "ok" ELSE "provisional"

CheckScores ==
  /\ scorer.pc = "check"
  /\ scorer' = [scorer EXCEPT !.pc = "read", !.notice = Notice(scorer.checked)]
  /\ UNCHANGED <<day, slot, due, bars, stamps, index, runs, scores>>

\* The probe fails: a warning of its own, and the job goes on.
CheckFails ==
  /\ scorer.pc = "check"
  /\ scorer' = [scorer EXCEPT !.pc = "read", !.notice = "unchecked"]
  /\ UNCHANGED <<day, slot, due, bars, stamps, index, runs, scores>>

HasBar(d) == \E s \in Symbols : bars[s][d] # "none"

\* load_price_series, and the symbols that have a bar on the latest day.
ReadBars ==
  /\ scorer.pc = "read"
  /\ \E d \in Days :
       /\ HasBar(d) /\ \A e \in Days : HasBar(e) => e <= d
       /\ scorer' = [scorer EXCEPT !.pc = "write", !.latest = d,
                        !.rows = [s \in Symbols |-> bars[s][d]],
                        !.stamps = [s \in Symbols |-> stamps[s][d]]]
  /\ UNCHANGED <<day, slot, due, bars, stamps, index, runs, scores>>

\* Symbols without a bar on that day are skipped and keep what they had.
WriteScores ==
  /\ scorer.pc = "write"
  /\ scores' = [s \in Symbols |->
       IF scorer.rows[s] = "none" THEN scores[s]
       ELSE [scores[s] EXCEPT ![scorer.latest] = scorer.rows[s]]]
  /\ scorer' = IdleScorer
  /\ UNCHANGED <<day, slot, due, bars, stamps, index, runs>>

ScoringFails ==
  /\ scorer.pc \in {"read", "write"}
  /\ scorer' = IdleScorer
  /\ UNCHANGED <<day, slot, due, bars, stamps, index, runs, scores>>

ScoringStep == CheckScores \/ CheckFails \/ ReadBars \/ WriteScores \/ ScoringFails

-----------------------------------------------------------------------------
(* The clock, the triggers and the process *)

Triggered(at) ==
  {j \in Jobs \cup {"scoring"} :
     \/ j = "eod" /\ at \in {AtMorning, AtCloseRun}
     \/ j = "catchup" /\ at = AtCatchup
     \/ j = "strategy" /\ at = AtStrategy
     \/ j = "scoring" /\ at \in {AtNoon, AtScoring}}

\* max_instances = 1: a trigger that finds its job running is skipped.
Free(j) == IF j = "scoring" THEN scorer.pc = "idle" ELSE Idle(j)

AllIdle == scorer.pc = "idle" /\ \A j \in Jobs : Idle(j)

\* Time passes.  Runs end before the next trading day, and, unless LateRuns,
\* those begun before the close end before it.
Tick ==
  /\ slot + 1 = AtClose /\ ~LateRuns => AllIdle
  /\ IF slot < AtStrategy
     THEN slot' = slot + 1 /\ day' = day
     ELSE /\ AllIdle
          /\ slot' = AtMorning
          /\ day' = IF IsWeekday(day + 1) THEN day + 1 ELSE day + 3
          /\ day' <= LastDay
  /\ due' = {j \in Triggered(slot') : Free(j)}
  /\ UNCHANGED <<bars, stamps, index, runs, scorer, scores>>

\* The worker dies and comes back: memory job store, so what ran or was due is lost.
Restart ==
  /\ ~AllIdle \/ due # {}
  /\ due' = {}
  /\ runs' = [j \in Jobs |-> IF Idle(j) THEN runs[j] ELSE IdleRun]
  /\ scorer' = IdleScorer
  /\ UNCHANGED <<day, slot, bars, stamps, index, scores>>

Next ==
  \/ \E j \in Jobs : Start(j) \/ IngestStep(j)
  \/ StartScoring \/ ScoringStep
  \/ Tick \/ Restart

-----------------------------------------------------------------------------
(* Properties *)

RunType ==
  [pc : {"idle", "probe", "fetch", "write", "index", "indexwrite"},
   skipped : BOOLEAN, k : 1 .. Len(Chain), expected : Days, end : Days,
   last : [Symbols -> 0 .. LastDay], indexLast : 0 .. LastDay, phase : Phases]

ScorerType ==
  [pc : {"idle", "check", "read", "write"}, checked : Days,
   notice : {"none", "missing", "provisional", "ok", "unchecked"},
   latest : Days, rows : [Symbols -> Phases], stamps : [Symbols -> Phases]]

\* Every variable has its type; in particular the calendar arithmetic and the
\* provider index never leave the modelled days and the chain.
TypeOK ==
  /\ day \in Days \ {FirstDay} /\ IsWeekday(day) /\ slot \in Slots
  /\ due \subseteq Jobs \cup {"scoring"}
  /\ bars \in [Symbols -> [Days -> Phases]]
  /\ stamps \in [Symbols -> [Days -> Phases]]
  /\ index \in [Days -> Phases]
  /\ runs \in [Jobs -> RunType]
  /\ scorer \in ScorerType
  /\ scores \in [Symbols -> [Days -> Phases]]

\* The session the worker compares its data with is the newest closed one: no
\* weekday between it and the present instant has closed (expected_session_date).
ExpectedIsNewestClosed ==
  /\ Closed(ExpectedSession) /\ IsWeekday(ExpectedSession)
  /\ \A d \in Days : IsWeekday(d) /\ Closed(d) => d <= ExpectedSession

ClosesStand ==
  /\ \A s \in Symbols, d \in Days :
       /\ bars[s][d] = "close" => bars'[s][d] = "close"
       /\ scores[s][d] = "close" => scores'[s][d] = "close"
  /\ \A d \in Days : index[d] = "close" => index'[d] = "close"

\* A close that is stored is never replaced by an intraday snapshot, whichever of
\* the overlapping runs writes last: prices, index and scores only move on.
CloseIsFinal == [][ClosesStand]_<<bars, index, scores>>

\* ingested_at may flatter a bar but never slanders it: a bar read after its
\* session closed is never taken for an intraday snapshot.
StampNeverUnderstates ==
  \A s \in Symbols, d \in Days : bars[s][d] = "close" => stamps[s][d] = "close"

\* Scores of a closed session are computed without a warning only when at least
\* one of the bars they rest on was written after the close, although the check
\* and the read are separate queries and ingestion runs in between (KI-014).
SilentScoresHaveAPostCloseBar ==
  scorer.pc = "write" /\ scorer.notice = "ok" /\ scorer.latest = scorer.checked
    => \E s \in Symbols : scorer.stamps[s] = "close"

\* With SCHEDULER_EOD_INCLUDE_INTRADAY_SESSION=false no run, however late, stores
\* a bar of a session that had not closed.
OnlyClosedSessions ==
  /\ \A s \in Symbols, d \in Days : bars[s][d] \in {"none", "close"}
  /\ \A d \in Days : index[d] \in {"none", "close"}

\* A catch-up that found nothing to do leaves the close of the expected session
\* behind, for prices and for the index.
SkippedMeansClosed ==
  \A j \in OnlyIfStale : runs[j].skipped =>
    /\ \E s \in Symbols : bars[s][runs[j].expected] = "close"
    /\ index[runs[j].expected] = "close"

\* What the scoring job's docstring asks of the warning: no bar of the closed
\* session is still intraday when the scores are written without one.
SilentScoresAreFinal ==
  scorer.pc = "write" /\ scorer.notice = "ok" /\ scorer.latest = scorer.checked
    => \A s \in Symbols : scorer.rows[s] # "intraday"

\* Every run reaches its end: whichever sources raise, answer with nothing or roll back,
\* the next one continues, and the chain is walked once and never retried.
RunsEnd == \A j \in Jobs : ~Idle(j) ~> Idle(j)

-----------------------------------------------------------------------------
\* APScheduler's pool runs every started job to its end.
Fairness == WF_vars(ScoringStep) /\ \A j \in Jobs : WF_vars(IngestStep(j))

Spec == Init /\ [][Next]_vars /\ Fairness

=============================================================================
