# A formal model of DTCK

DTCK is a research platform for Vietnamese equities: a worker ingests market
data on a schedule and scores it, an API and a dashboard serve scores, reports
and agent analyses, and a backtester replays strategies. This directory holds
TLA+ modules that model its core, TLC configurations that check them on small
instances, and TLAPS proofs of what holds for every instance. Paths below are
relative to the repository.

    tlc -workers 2 -config EodSchedule.cfg MCEodSchedule     # one run
    tlapm EodScheduleProofs.tla                              # one proof module

`PROJECT.json` lists components, runs, the source lines behind every
definition, the hazards of the code with the properties that watch them, and
the theorems.

## 1. Inventory

| Component | State it keeps | Operations | Talks to | What is hard | What makes it correct |
|---|---|---|---|---|---|
| **Worker end-of-day schedule** (`apps/worker/main.py`, `src/data/freshness.py`, `src/quant/scoring/job.py`) | `prices`, `index_prices`, `factor_scores`; APScheduler's in-memory job store | ingestion 11:30/15:30, catch-up 15:50, strategy job 17:00, scoring 12:00/16:00 | vendors through the provider chain; Postgres | jobs overlap on a thread pool and upsert the same rows; bars read during a session; fail-over; restarts | a close is final; stamps and warnings never lie in the dangerous direction; a skipped catch-up had nothing to do |
| **Agents** (`src/agents/orchestrator`, `tools.py`, `routers/agents.py`) | audit trail (runs, order, latest analysis), queued runs, tool recorder | run, submit, execute_deferred, polls | market and RAG services, LLM | request threads share everything without a lock; retries; timeouts; a bounded trail | a run's record shows its own calls; accepted runs can be polled and end |
| **Financial statements** (`ingest_financials`) | bitemporal `financial_statements` | snapshot diff of a vendor batch | vendors; Postgres | versions closed and opened row by row from one read | one open version per fact, gapless frozen history |
| **Backtest engine** (`src/backtesting/engine.py`) | cash, shares, open legs, trade log, ledger | bar loop: fill, decide, mark; liquidation | strategies | positions kept twice; average cost; costs and band | legs are holdings; the money adds up |
| **Market ingestion and data quality** (`pipelines.py`, `validators.py`, `quality.py`) | `prices`, `index_prices`, `macro`, `news`, `events`, quality scores | batch upsert; look-up and insert; scoring of a batch | vendors; Postgres | corrupt rows among good ones; repeats within a batch; overlapping runs of tables without unique keys | what was told is stored soundly and once; a batch scored complete and valid that holds only asked-for keys has no hole |
| **E-mail reports** (`src/notifications`, worker jobs) | recipients, SMTP and schedule rows, send log, registered jobs | CRUD, schedule sync every 15 min, dispatch | SMTP; API; worker | schedule edited while jobs fire; database outage at a sync; partial sends | reports follow the saved schedule; the log tells what was sent |
| **Vendor adapters** (`src/data/providers`) | SSI's cached token | `fetch_*` of a window | vendors over HTTP | retries, token expiry and 401, pages, sub-windows; split-adjusted quotes, day boundaries | a call returns everything or an error; rows say what was printed |
| **Strategy scoring and alerts** (`src/quant/strategy`) | features, strategy scores, recommendations | 17:00 job and its commands by hand; grade-change mails | ingestion; e-mail | series read query by query while data arrives; re-runs of a day; look-ahead | nothing is seen too early; features and scores of one read agree; mails keep the reader up to date |
| **Strategy backtest** (`strategy/backtest.py`, `walkforward.py`, `metrics.py`) | none | align, schedule, weigh, measure | prices; engine | halted stocks, carried bars, as-of scores | a day's decision uses only its past |
| **Factor scores and indicators** (`quant/scoring`, `market/technical`, `risk`, `momentum`) | none | rank, weigh, decompose; indicators | prices | missing factors, ties, warm-up | an indicator depends on no later bar; a rank is explained by its parts |
| **Monitoring agent** | last signal per symbol | monitor a watchlist | tools | threads and retries share one memory | every change is told, once |
| **Analysis, research, portfolio agents** | none | reports from tool results | tools, LLM | missing figures | figures agree with each other and say what they leave out |
| **Evidence (RAG)** (`src/rag`, `src/evidence`) | chunks in memory, a mirror in Qdrant | chunk, embed, search, rerank | Qdrant | long paragraphs; servers that come and go | nothing is lost in cutting; hits keep to their filters; the mirror holds what it claims |
| **API process** (`apps/api`) | services kept by `lru_cache`, the model registry | first calls, hydration, pages | Postgres, Qdrant, fixture | concurrent first calls; a choice made once | one set of services; pages that agree |
| **Machine learning** (`src/ml`) | registry rows | dataset, split, registration | market service | as-of features; a stub under the same version | training precedes its test |
| **Dashboard, schema, middleware** | — | layout, DDL, plumbing | — | — | not modelled |

The components meet in the database: ingestion writes what scoring, the
backtester and the services read, each in a transaction of its own; nothing
else orders them but the clock of the schedule. Agents meet in objects of the
API process shared by its request threads.

## 2. Modules

### EodSchedule — the worker's day

State: the clock (`day`, `slot`), the triggers that fired (`due`), the stored
bars (`bars`, `index`) and scores, reduced to the *phase* their data was read
in — during its session or after its close — the `ingested_at` stamps, and the
local state of every ingestion run and of the scoring job. A slot is the
interval that starts at 11:30, 12:00, 15:15 (the close), 15:30, 15:50, 16:00
or 17:00.

Actions follow `scheduled_eod_ingestion` one database or vendor call at a
time: `Start`, `Probe`/`ProbeFails` (the catch-up's staleness question),
`SourceFails`/`SourceAnswers` (a vendor answers with bars of any symbols up to
any day, or not), `WritePrices`/`WriteFails` (one transaction),
`FetchIndex`/`WriteIndex`/`IndexFails`; the scoring job is `CheckScores` (the
provisional warning), `ReadBars`, `WriteScores`. `Tick` moves the clock and
fires the cron triggers, skipping a job that is still running
(`max_instances=1`); `Restart` loses everything in flight, because the job
store is in memory. Two environment assumptions are constants or guards:
runs end before the next trading day, and `LateRuns` says whether a run begun
before the close may still write after it.

| Run | Question | Instance |
|---|---|---|
| `EodSchedule` | is a stored close ever replaced by an intraday snapshot, in prices, index or scores; can a stamp understate its bar; can scoring stay silent with no post-close bar? | 2 symbols, chain of 2 vendors (one with an index), job and catch-up, one trading day, no late runs |
| `EodClosedOnly` | with `SCHEDULER_EOD_INCLUDE_INTRADAY_SESSION=false`: only closed sessions stored, the expected session is the newest closed one; does every run end, whichever vendor fails, answers with nothing or rolls back? | 1 symbol, chain of 2 vendors, over a weekend, job and 17:00 job |
| `EodCatchupGap` (violation) | does a skipped catch-up mean the close is stored? No: the 11:30 snapshot already has today's date | default setting |

`SilentScoresAreFinal` states what the scoring job's docstring asks of the
warning; it is no run because it does not hold (one refreshed symbol hides the
others). `SilentScoresHaveAPostCloseBar` is the part of it that does.

Two symbols are the least for "some symbols but not others"; two vendors the
least for fail-over; a Friday and a Monday cover the weekend walk-back.

**Fairness**: weak fairness of the job steps only — APScheduler's pool keeps
running what it started. The clock and the triggers have none.

**Proved** (`EodScheduleProofs`), for every universe, chain, week and lookback:

* `TypeCorrect` — in particular the calendar arithmetic (`LastSession`,
  `WalkBack` lemma) stays on modelled days and no run indexes past the chain.
* `SilentScores` — a silent scoring run of the checked session rests on a bar
  stamped after the close. The claim is not inductive: the check and the read
  are two queries with ingestion between them. The strengthening adds that a
  `close` stamp is only written once the session has closed (`StampsAreTimely`,
  so it can never be un-written: later writes of that session stamp `close`
  too) and that an `ok` notice is still backed by a stamp until the bars are
  read (`NoticeStands`).
* `StoredClosesAreFinal` — without late runs a stored close is final. The
  strengthening (`FinalInv`) says that what a run is about to write was read in
  the phase that still lasts (`ReadsAreTimely`: the clock waits for runs at the
  close), that no close is stored for an open session (`ClosesAreTimely`), and,
  for scores, which are read in one step and written in another, that the run
  in flight holds the close of every score it is about to overwrite
  (`ScoresFollowBars`). The assumption is needed: with
  `LateRuns = TRUE` in `EodSchedule.cfg` TLC violates `CloseIsFinal`, because a
  batch read before 15:15 may be written after it.
* `StampsAreSound` — late runs included, a bar stored as read after the close is
  stamped after it, so the stamp never understates a bar.
* `ExpectedSessionIsNewest` and `OnlyClosedSessionsAreStored` — the calendar
  walk-back names the newest closed session, and with
  `SCHEDULER_EOD_INCLUDE_INTRADAY_SESSION=false` no bar read during its session
  is ever stored, late runs included.

### AuditTrail, AuditRecord, AuditSteps, AgentRuns — agent runs

`AuditTrail` is the abstract store: `Record` inserts or refreshes a run, notes
the latest successful analysis of its symbol and forgets the oldest runs
beyond the cap, in one step. `AuditRecord` is `AuditTrail.record` as the code
runs it, statement by statement (`InsertId`, `Put`, `Note`, `Loop`, `Pop`,
`Drop`, `Copy`, `Assign`, `Return`) by any thread, without a lock; a key that
another thread adds while the map is copied makes the call raise
(`Interrupted`). Its list and map are the abstract store's. Two modules use it.

`AuditSteps` calls it for any run and symbol. As long as no two calls have
overlapped it implements the abstract store: `ImplementsTrail` is a refinement
whose mapping shows the state "at rest", between calls, and whose history
variable `mixed` freezes the mapping at the first overlap. What holds after an
overlap is asked of `AgentRuns`.

`AgentRuns` is the orchestrator: `Run`, `Submit`, `Queue`, `ExecuteDeferred`,
then per attempt `BeginAttempt` (which installs the run's list as the catalog's
recorder), `CallTool` (a call that returns, is refused for its arguments, or
raises and is then recorded nowhere), `TimeOut`, `HandlerEnds`, and
`Conclude`/`Store` (status, then output and record). `Prepare`, `Queue` and
`Store` enter `record`; the run goes on when its thread has left it
(`Recording`), and a call that raises there fails the request (`RecordRaises`:
a run that was only prepared or queued is then never executed). The statements
of all threads interleave with each other and with everything else. `Overlap`
says whether two runs may execute at the same time; the API's thread pool allows
it, a single client does not.

| Run | Question | Instance |
|---|---|---|
| `AgentRuns` | does a finished record show exactly the calls of its last attempt that returned or were refused, a raised one being the last of a run that failed; is it frozen? | 2 runs, cap 1, 2 attempts, 2 calls, no overlap |
| `AgentRunsLive` | when runs overlap, inside `record` too: is the trail sound (no run listed twice, within the cap at rest, `latest_analysis` answers with stored, successful analyses only), and does every accepted run end when handlers return? | 2 runs, both inside `record` at once, cap 1, 2 attempts |
| `AuditSteps` | does the store implement the abstract one until calls overlap? | 3 runs recorded twice each, 2 threads inside `record`, cap 2 |
| `AgentToolMix` (violation) | with overlapping runs, does a record show its own calls? No: they share one recorder | 2 runs |

The cap is 200 in the code and here one less than the number of runs, so that
the last run exceeds it; the pool's 40 threads are fewer than the cap, which is
all `WritersAssumption` asks. A handler's data is irrelevant to the
orchestrator, so a call is its caller, attempt and number.

**Fairness**: `Spec` gives it to the orchestrator's own steps — the thread pool
runs background tasks — but not to handlers, which may hang on a vendor or an
LLM. `SpecHandlersReturn` adds it for `RunsTerminate`. Under `Spec` alone
`TimeOutEndsTheRun` fails: leaving the executor's block waits for the handler.

**Proved** (`AgentRunsProofs`), for any number of runs, symbols, attempts and
calls and any cap:

* with overlap, the statements of `record` interleaving in any way:
  `TypeCorrect` (no retry exceeds `max_attempts`) and `LatestIsSound`, which is
  `TrailIsSound`. `ListInv` says that a run neither stored nor about to be is
  neither listed nor being dropped, that a popped id is dropped by one thread,
  and that while the list exceeds its cap some thread is inside `record`, which
  leaves through its length check or, when it raises, leaves the thread that added
  the key inside; `TrailInv` adds that every id noted in the
  map, in the copies threads hold of it and in what they are about to note is of
  a successful analysis of that symbol, whose record no step touches any more
  (`NotesAreDone`, `FinishedStay`). That a noted id may be of a trimmed run is
  why `latest_analysis` looks the id up; the mutant that does not is caught.
* without: `RecordsShowTheirCalls` and `RecordsAreFrozen`. The invariant says
  one run executes at a time, is the recorder while its handler runs and will
  restore none (`OneRecorder`), and that the record lists the calls made so far
  that did not raise (`RecordsCalls`). `AgentToolMix` shows the assumption is
  needed.

**Proved** (also `AgentRunsProofs`), for any number of threads, runs and symbols
and any cap the threads inside `record` do not exceed by more than one:
`CallsAreAtomic`, the refinement `ImplementsTrail`, and of the abstract store
`AtomicTrailIsSound` (`RecordKeeps` is its lemma about `Record`): within its cap,
no run twice, only stored runs noted. Until calls overlap one thread at most is between its statements; the invariant says, for each of
its positions, what list and map it has made of those at rest when it began, so
that the statement that ends the call is the abstract `Record` and all others
stutter.

### FinancialFacts — bitemporal statements

State: the committed table (a sequence of versions, position = id), the clock,
and the run's locals: batch, `valid_from`, `open_by_key`, the `now` used for
`valid_to`, the cursor and the transaction's view of the table. Actions:
`Collect` (collect, validate, normalize), `ReadOpen`, `Walk` (one row: new,
unchanged with a possible publication-date fix, or restated), `Commit`,
`RollBack`. `told` is a history variable: what the vendor said last.

| Run | Question | Instance |
|---|---|---|
| `FinancialFacts` | one open version, equal to the vendor's last word; no gap; frozen history; repeats are no-ops | 2 facts, 2 values, known or unknown publication date, 3 runs of up to 2 rows |

Three runs allow a restatement and its return to the old value; two facts show
rows interfering through the batch.

**Proved** (`FinancialFactsProofs`), for any number of facts, values, rows and
runs:

* `TypeCorrect`.
* `OneVersionOpen` — if no batch lists a fact twice, a fact never has two open
  versions. While the batch is walked, a key not yet reached has no open
  version in the draft except the one `open_by_key` names (`OpenIsKnown`); it
  holds because a key is reached once. With `Repeats = TRUE` TLC violates the
  property: the assumption is needed.
* `AsOfNeverMisses` and `HistoryIsNeverRewritten`, repeats or not. `HistoryInv`
  compares the draft with the committed table: what was closed is the same, what
  was open has its key, value and first instant (`KeptIn`), and the versions of
  a key cover every instant since its first one (`Covered`). A successor is
  valid from before its predecessor's end because the batch's day comes before
  the clock at which rows are walked.
* `OpenIsTheLatest` — without repeats, the open version is the vendor's last
  word. `LatestInv` splits the keys at the cursor: those behind it agree with
  the batch, those ahead with what was told before.
* `RepeatsChangeNothing` — without repeats, and if the column holds every value
  sent (`Fine = {}`), a run that is told nothing new leaves the table as it was.
  `RepeatsAreNoOps` in section 4 shows the second assumption is needed.


### Backtest — the execution engine

State: bar, pending targets, cash, `shares`, open `legs` (quantity and entry
cost), realised profit, cost paid. Actions: `KeepPositions` (an empty target
dict), `Rebalance` (the whole of `_rebalance`, its error on bad weights and its
early return without wealth), `Decide` (the strategy asks for anything),
`Liquidate` (`_close_all`). The two passes over the symbols are one step:
portfolio value is fixed before them and no statement reads the cash, so their
order is not observable. Amounts are integers and divisions round down, where
the code has floats; prices rise and fall sixteenfold and a fill costs an
eighth, so that every branch, also the one without wealth, is reached within
four bars.

| Run | Question | Instance |
|---|---|---|
| `Backtest` | nothing short, legs are holdings, the money adds up, a rebalance borrows only its costs and skipped drift | 2 symbols, 3 prices, weights −½, 0, ½, 1 |

**Proved** (`BacktestProofs`), for every universe, price path, cost and strategy:

* `LegsAreHoldings` and `NothingLeftBehind` — the open leg of a symbol is its
  position, so the liquidation, which walks only the legs, leaves nothing. The
  invariant needs that no sale exceeds the holding, which follows from targets
  being non-negative (`TargetNat`).
* `MoneyIsConserved` and `BorrowingIsBounded` are about sums over the universe,
  which `SumFunction` computes by folding. What the fold does is shown without
  the induction theorems of the library, whose operator parameter the provers
  cannot instantiate: sizes of finite sets are well-founded, so if a claim
  failed for some set it would fail for a smallest one, which has an element to
  take out. From that come sums of sums, of comparisons and of products.
  For each symbol a fill moves as much between cash, legs, costs and profit
  (division by rounding down included); the sum over symbols is the run.

The module also holds the theorems about the calculations (see `Analysis` below),
which rest on the same lemmas about sums.

### EmailReports — the daily e-mail reports

State: the time of day, whether the database answers, the saved schedule and
the active recipients, the triggers registered for each report window
(`jobs`), the report jobs just fired (`due`), the local state of the running
sync and of each report, today's delivered mails and log rows, and two history
variables: `starts` (reports begun today) and `quiet`, which says how far the
last edit or outage is behind — `disturbed`, `synced` once a sync has applied
the saved schedule, `calm` from the next midnight.

Actions: `SaveSchedule` and `EditRecipient` (the API), `GoesAway`/`ComesBack`
(the database), `SyncStart`, then per window `SyncDrop` (`remove_job`, and the
trigger whose construction may fail on the unchecked `days_of_week`) and
`SyncAdd`; per report `Begin` (the schedule is read again), `List` (mailer,
recipients, page), `Send`, `LogSend`; `Tick` fires the windows registered for
the new slot and skips one whose report still runs (`max_instances=1`);
`Restart` loses jobs, sync and reports. Every day is a report day: weekday
selection is CronTrigger's. Two environment assumptions are guards of `Tick`:
the pool takes up a fired job before the next slot, and reports end by
midnight. The same mail to the same address twice in a report does not exist:
the address is unique. Not modelled: the SMTP account beyond whether a mailer
can be had, `send-test`, and what the page says.

| Run | Question | Instance |
|---|---|---|
| `EmailReports` | once applied, does each window report at most once a day; does a saved schedule take effect without a restart; is the log honest; does every report end? | 2 windows, 3 slots, 1 address; one edit (windows swapped, disabled, or unparsable), one outage, one restart |

Two windows are the least for a sync to fail or be interrupted between them;
swapping their times makes the duplicate of an un-dropped trigger visible; one
edit, outage and restart each, in any order, meet every step of a sync and a
report.

What the properties leave open is the code's: a firing that falls between
`remove_job` and `add_job` is lost for the day; a sync during an outage
registers the default times, so a report may go out at an unconfigured time or
twice that day (the antecedent of `OneReportADay`); a schedule whose
`days_of_week` does not parse stops the sync after the first window's job was
removed, and a worker starting on it dies.

**Fairness**: the interval trigger keeps firing (`SyncStart`), threads run on
(`SyncStep`, `ReportStep`; the SMTP client has a timeout), the container is
restarted when it died, and outages end. The clock, edits and crashes have none.

**Proved** (`EmailReportsProofs`), for any number of windows, slots, schedules,
addresses, edits, outages and restarts:

* `TypeCorrect`; `LogNeverOverstates`, whose invariant adds that a report about
  to log a success has delivered (`LogsWhatArrived`).
* `NoReportTwice` — the invariant follows the sync's cursor: windows behind it
  are registered for the times it read, the dropped one for none
  (`SyncFollows`); once applied, every later sync reads the same schedule
  (`Applied`); and on calm days a window fires only at its saved time, before
  which it has not reported (`CalmDays`).

### DataQuality, MarketIngestion — what a batch leaves behind

`DataQuality` holds `validate_*`, `classify_issue` and `compute_quality` as
operators over a batch. `MarketIngestion` is `ingest_eod`, `ingest_index`,
`ingest_macro`, `ingest_news` and `ingest_events`. State: the upserted table
(`stored`), how often each news item or event was inserted (`copies`), its
symbol links, the last quality score, and per run its step, batch and what its
look-up found. Actions: `Collect` (any batch the vendor may send, its
validation and the drop of corrupt keys), `StoreBars`/`StoreMacro`,
`Lookup` and `Insert` (two statements, so two runs may race), `Abort` (the
transaction is rolled back). History variables say what a committed run was
told (`told`) and which keys a race or a repeating batch may have doubled
(`excused`).

### ApiProcess — one process of the API

The getters under `lru_cache` are modelled by what `functools.lru_cache` does:
`Call` sees a hit or a miss, `Make` constructs with whatever the getters it
calls return, `Keep` stores. The market service decides between database and
fixture when it is made; the evidence service seeds its index (`Seed`) and
mirrors it item by item (`MirrorNews`); the predictor's registry is hydrated
by the lifespan hook or falls back to a stub (`Predict`). `Flip`, `Train`,
`MirrorElsewhere` and `Restart` are the world around it.

### Monitoring — the signal memory

A request walks its watchlist symbol by symbol: `LookUp`, `Rank`, `Compare`,
`Remember`; `Raises` and `Breaks` end an attempt, `FailAttempt` starts the next
one, `Deliver` reports. POSTs share one agent, GETs build their own. `Move` is
the market changing between two calls. `spoilt` and `crowded` record which
symbols a discarded attempt or an overlapping watch has overwritten: for those
the alert is lost, and the property says it of no others.

### Services — the three side by side

`Services` composes `MarketIngestion`, `ApiProcess` and `Monitoring`: they share
no state that the properties tell apart, so a behaviour exercises one of them
(`part`) and leaves the others as they started. `MCServices` gives the feed, the
boards and the watchlists.

| Run | Question | Instance |
|---|---|---|
| `Services` | is what vendors said stored soundly and once; is a batch scored complete and valid, of asked-for weekdays only, a batch without holes; do routes and agents use the same instance of every service whose own first calls did not overlap, and see every run unless those of trail and orchestrator both did; does the mirror hold what the index has; is every changed signal told? | one part per behaviour: 2 overlapping ingestion runs of up to 2 rows, 3 runs in all; 2 request threads, one change of the world; 2 requests over 2 symbols, 2 attempts, one fault |

Two concurrent runs, threads or requests are
the least that race; a third run re-reads what the race left; two rows are the
least for a corrupt one beside a good one, and for a repeat.

**Proved** (`ServicesProofs`), for every feed, universe, batch size, watchlist
and news, and any number of processes:

* `IngestionKeepsWhatItIsTold`. For the upserted tables `told` follows the last
  sound row of each batch at its commit. For the inserted ones `LookupsAreRecent`
  says that what a look-up did not find, and is there now, a race has noted in
  `excused`. `FeedAssumption`: prices and volumes are numbers, and the key of a bar
  or an event names its symbol.
* `OneServiceOfEach` and `TheMirrorIsComplete`, from `ApiInv`: every list of
  steps still to do is one a chain of getters leaves (`Orderly`), a kept
  service has nothing left to make, and what was given, built into a service or
  seeded agrees with what is kept unless its own first calls overlapped
  (`raced`). A service built twice excuses itself and no other, and a trail or
  an orchestrator built twice loses no run unless both were. That nothing is
  built twice (`ServicesAreSingletons`) is in section 4. A mirror is available only while each of its points is there or rewritten.
* `ChangesAreTold`, from `WatchInv`: what the memory holds of a symbol is what
  was reported last, except for symbols a discarded attempt or another watch
  overwrote, and requests that share the memory are known to (`MeetingsAreCrowded`).
  A watch names a symbol at least (`WatchesAreOfSymbols`): the request's
  `min_length=1` and the 422 of `GET /monitoring/alerts` see to it.
  `NoneIsNothing` says the placeholder is no process and no service.

* `FullMarksAreReal` — a batch of bars whose score says complete and valid left
  no hole. Present keys are counted after corrupt rows were dropped and before
  unresolved ones are; that every row is inside the window and resolved comes
  from its validity (`ValidIsInside`), that it is one asked for from the absence
  of strays, and equal counts do the rest (`FullIsEverything`). A bar of a
  weekend, or of an index code nobody asked for, does stand in for a missing
  one, and the overall score is rounded and not capped: that 100 means complete
  (`HundredMeansComplete`) is in section 4.

### VendorFetch, VendorRows — the adapters

`VendorFetch` is one `fetch_*` call: `GetAccessToken`, then `Request`s sent
with bounded retries (`RequestFails`, `Unauthorized`), pages collected until
`LastPage` (CafeF and VNDirect ask for one page of bounded size and no second), sub-windows for SSI's index bars, `Return` with deduplication, or
`Raise`. `Age` and `Revoke` let a token expire or be refused at any time. What
the vendor lists is fixed for the call. `VendorRows` is what becomes of an
answer: the Yahoo chart's split-adjusted quotes and its exclusive upper bound,
IMF projections, RSS items, and the periods of the two financial vendors.

### StrategyFeatures, StrategyScores, StrategyAdvice, StrategyJob

`StrategyFeatures` defines the 24 features of a snapshot on exact fractions;
absent data is `Missing`. `StrategyScores` ranks them, averages groups, weighs
profiles, grades, and raises red flags. `StrategyAdvice` states what these
promise. `StrategyJob` is the 17:00 job, one transaction or SELECT at a time,
with the commands that do parts of it by hand (`StartHand`): `ReadPrices`,
`ReadLines`, `StoreFeatures`, again both reads, `StoreScores`, `ReadLatest`,
`SendAlert`. Bars, filings and restatements arrive in between (`Arrive`).
`basis` records from which reads each stored row was computed, `untold` which
keys a failed mail, a command or a gap excuses.

### StrategyBacktest, Indicators, FactorScores, MarketViews, AgentReports, Evidence

Pure calculations, each an operator for the function it models, asked over
every input of a small set (`question` of `Questions`, which stays what it is): the alignment, schedule and metrics of
the strategy backtest; the indicators and the ML dataset on series of up to
four bars; the factor ranking and its decomposition; the pages the API makes
of one database, halted, suspended and unscored stocks included; the reports
of the analysis, research and portfolio agents made of those pages; the
chunking of texts and the search in them.

| Run | Question | Instance |
|---|---|---|
| `Analysis` | does a vendor call return everything or an error, and end; are rows honest; is anything seen too early; do features and scores agree, and mails keep up; do the calculations keep what they promise? | one part per behaviour: a call over 2 tickers and 3 days with pages and revoked tokens; 2 symbols, 3 days, one command by hand; one calculation |

Three days let a grade change and change back, and a filing become public after
the first run; one command by hand meets every step of the job. For
`CompleteOrError`, listings straddle pages and sub-windows exactly. The
constants that scale the numbers (periods, chunk lengths, page sizes) are small
versions of the code's, kept in the same order. `MCAnalysis` extends the modules
that keep state and the calculations the theorems are about.

**Fairness**: `FetchEnds` assumes weak fairness of the call's own steps; HTTP
clients have a timeout, so a request is answered or fails.

**Proved** (`AnalysisProofs`):

* `NothingIsLeftOut` — for every vendor, listing, window, sub-window and page
  size, number of retries and of revoked tokens, a call that returns has rows the
  vendor lists, each once, and every one of them; only of a ticker CafeF or
  VNDirect have more than a page of it has the first page and no more
  (`FullPage`, `FirstPageIs`; `EveryRowIsFetched` is in section 4). `FetchInv` follows what is left to read
  (`Left`): the requests not yet made and, of the first, the pages not yet
  fetched. What was got and what is left are together what is listed
  (`AllLeft`); with one window they share nothing and requests do not meet
  (`OnceLeft`), with several the call removes repeats at its end. The windows
  cover every day because a day is in the one that starts at the last multiple
  of the step (`SubWindowOf`); a page taken for the last has all the rest
  (`LastPageIs`). `FetchAssumption`: finitely many tickers, a page of at least
  one row, and a listing inside the window.
* `NothingIsSeenEarly` — for every market and every number of days and commands,
  if filings meet their legal deadline (`FiledInTime`; lags are days,
  `LagsAreDays`). Every line ever stored is such a filing (`LinesInv`).
* `FeaturesAgreeWithScores` — for every interleaving of the job with a command.
  `BasisInv` says which groups the rows of a basis have.
* `MailsKeepUp` — a reader of the mails knows the newest grade of every key the
  property does not excuse: a key scored again on a day that had a score, by
  hand or by a second job, keys of a mail that failed or was overtaken by a
  newer scored day, and keys one of the two dates lacks. The invariant `MailInv`
  says what a reader knows at each point of the job: the newest grade, or, until
  the job has mailed, the one the job will compare with. `AtLeastOneDay` makes
  the first day one. The excuses were found with the proof: without them TLC
  finds a lost change in three days and two commands, where a command re-scores
  a day between the job's comparison and its mail.
* `AdaptersAreHonest` — for every chart, projection, feed and period. The
  vendor rounds adjusted prices to hundredths and the adapter rounds back to
  whole dong; `RowsAssumption` bounds the product of the ratios of any splits
  (below 100) and says that a lot divides by it, and rounding twice then ends at
  the print (`BarsAreRaw`). Splits are asked for up to today, so none after
  the window is missed (`SameSplits`).

**Proved** (`BacktestProofs`), of the calculations, for every question that meets
the named assumption of its module:

* `ScoresAreSound` (`AdviceAssumption`: finite universes of fractions) — two stocks
  are ranked as their values are, ties included, and the ranks of a feature
  average to 50; an overall score lies between the groups that back it; a line
  that is absent changes no other feature. Fractions are records in lowest
  terms, so that equal values are equal records: Euclid's algorithm,
  by recursion on its arguments.
* `BacktestSeesOnlyThePast` (`MarketsAssumption`: finite markets, options of the
  right types) — the universe, the aligned bars and the targets of a day are
  the same in the market as it was known that day (`AsKnownOn`), so no later
  bar reaches a decision, and targets are at most `TopN` weights that add to 1;
  and `BacktestsAreHonest`, which adds that the metrics of a curve agree with
  each other.
* `IndicatorsSeeOnlyThePast` (`IndicatorsAssumption`: bars as the validators let
  them in, positive periods, fast below slow) — every indicator of the first k
  bars is the first k values of the indicator of all bars. Windows
  end at their bar; what is smoothed recursively is followed by counting up. The
  ranges (RSI in 0 to 100, drawdown in -1 to 0, ATR not negative) compare
  fractions over a common denominator, and the dataset is split by the ranks of
  its days, which grow with the days.
* `EvidenceIsWholeAndBest` (`EvidenceAssumption`: non-empty paragraphs, positive
  `max_chars`, reliabilities positive shares, one item per id) — each window of a
  chunked text brings characters no window before it had, so the loop ends with
  all of them; a cosine is at most 1 (Cauchy–Schwarz), the parts of a score are
  shares and their weights add to 1, so a confidence is a share; and of a list
  put in a row by a total order the first n are the best n.

**Proved** (`AgentReportsProofs`), of the pages and the reports, for any number of
stocks, bars, positions and questions:

* `PagesAreOneStory` — for any tables and any day the scoring job stopped at:
  `get_ranked`, `get_movers`, `get_breadth`, `get_stock`, `list_stocks` and
  `get_indicators` show one price and one direction of a stock, and only stocks
  that traded on the ranked day are ranked. `ScoresAreStored` follows the job:
  each row it upserts is of a stock whose newest bar has the day. The bars in
  reach are the last bars of a stock (`ReachIs`), so that pages which read
  different windows end with the same two closes (`ClosesEnd`). A change
  rounded to hundredths of a percent keeps its sign, or becomes 0 (`RoundSign`,
  `RiseIs`). For any raw factors, a ranking explains itself (`RankingExplained`):
  every stock is ranked once, one that is nowhere worse and somewhere better
  than another with the same factors ranks above it (`DominatingIsMore`), the
  weighted scores add up to the score (`ContributionsAddUp`) and the published
  shares, rounded and completed, to one (`CompletedIs`).
* `ReportsAreBacked` — for any portfolio and any answers of the other tools, on
  the tables the job leaves behind. A position beyond the limit of a sector
  raises the sector alert, by more than each weight of the sector may have lost
  by rounding (`RoundedStaysHeavy`, `ExposureIs`); an average of scores lies
  between two of them (`AverageLies`); the factor said to lead has no smaller
  share than the one said to be weakest (`WeakestIs`), and confidence never
  rises when quality or evidence is taken away (`PartOrder`, `ConfidenceOrder`).

Sorted lists are given first-order: the element at a place is the one with so
many before it (`Sorted`), which for a total order is a permutation
(`PlacesAre`, `SortedIs`). Sums of fractions are compared over a common
denominator (`WeighingExists`). The assumptions:

* `PagesAssumption`: finitely many stocks, each once or more in the order of the
  rows; raw factors are fractions or missing.
* `DatabasesAssumption` (`MarketTables`): a bar per stock and day, and a row of
  scores only of a stock that traded that day. The first is the key of `prices`
  (`src/src/common/models/market.py:30`), the second is what the job that
  writes the scores does, and what it keeps. Prices are positive and of whole
  hundredths, as exchanges quote them; the column has four decimals, and with
  changes below half a hundredth the ranking's rounded change (0.00) and the
  movers' percentage would disagree.
* `ReportsAssumption`: the same tables, positive quantities
  (`src/apps/api/schemas.py:245`), quality and regime confidence fractions or missing as their columns
  allow, and weights rounded to a fifth or finer (`WeightUnit`, 1000000 in the
  code): a coarser rounding may take a position of half the portfolio to none.

## 3. What the checks rest on

* Liveness under fairness (`RunsEnd`, `RunsTerminate`,
  `SavedSchedulesTakeEffect`, `ReportsEnd`, `FetchEnds`) is beyond the prover and
  model-checked only. Every other property of a passing run is a theorem.
* Bounds are constants of the modules (`MaxRuns`, `MaxRows`, `MaxAttempts`,
  `MaxCalls`, `MaxEdits`, `MaxOutages`, `MaxRestarts`,
  `MaxChanges`, `MaxFaults`, `MaxMoves`, `MaxReports`, `MaxRevokes`, `MaxHand`, `Times`,
  `Writers`, `Bars`, `LastDay`, `Jobs`); everything else is a
  parameter the proofs leave free.
* Deadlock checking is on for `EmailReports`, whose days repeat, and off
  elsewhere because the bounded week, batch or list of runs ends.
* The type invariants (`TypeOK`) of the proved modules, `AuditBounded` and `LatestIsStored` are theorems;
  the runs spend their time on the other properties.
* Symmetry is used for symbols, facts, runs, processes and threads, in runs without
  temporal properties that distinguish them.
* For every property of a passing run the module holds a mutant of a definition
  (`\* Mutant: …`) that breaks it, named in `PROJECT.json`.

## 4. Where code and words disagree

Two disagreements are runs in which TLC finds the counterexample:

| Run | Words | Code |
|---|---|---|
| `EodCatchupGap` | the catch-up re-runs "when the datasets are still behind the last closed session" (`apps/worker/main.py`) | it looks at dates only; the morning snapshot has the date |
| `AgentToolMix` | "Mirror every tool call made inside the block into sink" | one recorder shared by all runs |

The other claims that fail are stated in the modules as definitions, for the
reader who wants to see the counterexample: adding the definition to a
configuration with the constants below makes TLC print one.

| Definition | Words | Code | Constants |
|---|---|---|---|
| `SilentScoresAreFinal` (EodSchedule) | "Warn when the last closed session's bars are missing or still intraday" | looks at the newest stamp of any symbol | those of `EodSchedule.cfg` |
| `ToolCallsMirrored` (AgentRuns) | "Mirror every tool call made inside the block into sink" | a call whose tool raises anything but TypeError, or returns no dict, is recorded nowhere | those of `AgentRuns.cfg` |
| `LatestIsFound` (AgentRuns) | "Most recent successful analysis run" | expires by first-recorded age, so older stored analyses are not found; with overlap the rebuilt map also drops an entry noted meanwhile | those of `AgentRunsLive.cfg` |
| `NoRequestIsLost` (AgentRuns) | "Insert or refresh a run record" | a key added while the map is copied makes `record` raise | those of `AgentRunsLive.cfg`, 3 runs, 2 symbols, 1 attempt |
| `AcceptedRunsCanBePolled` (AgentRuns) | "Enqueue an analysis run; poll …" | queued runs are trimmed too | those of `AgentRuns.cfg` |
| `SucceededHasResult` (AgentRuns) | "Status + structured result" | status is assigned before the result | those of `AgentRuns.cfg` |
| `TimeOutEndsTheRun` (AgentRuns) | "§45 wall-clock timeout" | leaving the executor waits for the handler | `SPECIFICATION Spec`, one run |
| `ListedRunsAreStored` (AuditRecord) | "Newest-first run history" | unlocked statements interleave | those of `AuditSteps.cfg` |
| `FullTrailStaysFull` (AuditRecord) | "trimming the oldest beyond the cap" | two callers trim the same excess | 4 runs, `Times = 1` |
| `FailedIsUnsent` (EmailReports) | "Audit log of sent emails", status FAILED | an error after the server took the mail is logged FAILED | those of `EmailReports.cfg` |
| `AsOfFindsOne` (FinancialFacts) | as-of query without ambiguity | a successor is valid before its predecessor ends | those of `FinancialFacts.cfg` |
| `RepeatsAreNoOps` (FinancialFacts) | "an unchanged restatement is a no-op" | raw value compared with the rounded one | one element in `Fine` |
| `OneOpenVersion` (FinancialFacts) | "a changed restatement CLOSES the open row (valid_to) and opens a new one" | open rows are read once per batch; a fact listed twice gets two open versions | `FinancialFacts.cfg` with `Repeats = TRUE` |
| `NoImplicitMargin` (Backtest) | "cash never goes negative" | costs and skipped drift are not reserved | `Backtest.cfg` |
| `HaltedFirstDayIsCarried` (StrategyBacktest) | "Missing dates are forward-filled from the last observed bar" | a stock without a bar on the first day of the calendar is dropped | the markets of `MCAnalysis` |
| `TrainingNeverMeetsATest` (StrategyBacktest) | "a test window never overlaps subsequent training" | the next train window contains the test before it | n = 3, windows of 1 |
| `FeaturesKnownAtTheirDay` (Indicators) | "contains only data known at that date" | regime, overall score and signal are the latest | the bars of `MCAnalysis` |
| `SharesAlwaysSumToOne` (FactorScores) | "Σ contribution_pct == 1" | no shares when the overall score is 0.0 | the universes of `MCAnalysis` |
| `ServicesAreSingletons` (Services) | "process-wide singleton", one trail "so `GET /api/v1/agents/runs` reflects the runs the API actually executed" (`apps/api/services/agent_service.py:1-5`) | `lru_cache` lets first calls overlap: two instances of the trail or of a service stay in use | those of `Services.cfg` |
| `EveryRowIsFetched` (VendorFetch) | "Fetch line items for `symbols` across the requested period types" | one page is asked for (CafeF 20 rows, VNDirect 500) and no second | those of `Analysis.cfg` |
| `HundredMeansComplete` (MarketIngestion) | completeness is "% dòng kỳ vọng có mặt" (expected rows that are present) | rows nobody expects count as present | those of `Services.cfg` |
| `GainersGained` (MarketViews) | "Top gainers and decliners" | two ends of one list, whatever the sign | the pages of `MCAnalysis` |
| `MissingIsNotWeak` (AgentReports) | "a missing factor is not a weak factor" | shown with the score 0.0 | the reports of `MCAnalysis` |

Not in the form of a property, and listed in `PROJECT.json`: banks are scored
with the leverage and valuation ratios the feature list excludes them from,
because industries are looked up by another name; the news tool filters on a
key the database service does not return; the strategy backtest does not pass
its initial capital on; chunking looks for no sentence ends; the portfolio's
"upper bound" leaves out positions without a volatility. Also worth knowing:
positions in the same stock are compared with the limits one by one
(`SplitsAreSeen`, AgentReports); a model trained elsewhere shares
the stub's version and is served only after a restart, while one loaded at
startup keeps its place (`TrainedModelStays`, part of `ServicesAreKept`); `GET
/monitoring/alerts` builds a fresh agent, so it never reports a changed signal
unless the request gives the previous ones; a restatement without a publication
date is visible as of days before it.

## 5. Plan

1. **Done**: the modules above, their runs, theorems for every component
   that keeps state (schedule, agent runs, audit trail, statements, backtest,
   reports, ingestion, API process, monitoring, vendor calls, strategy job) and
   for the adapters' rows, scores, strategy backtest, indicators, evidence, pages
   and reports: every invariant and action property of a passing run.
2. **Next**: ranking under concurrent ingestion (MarketViews over
   EodSchedule's transactions), and the schedule of the 17:00 job composed with
   EodSchedule's clock.

## 6. Not modelled

The dashboard (layout and HTTP reads), the schema and the seeds beyond the keys
the writers rely on, authentication, middleware and metrics of the API, the
valuation and fundamental factor formulas (single expressions on floats), the
fitting of models, the wording of reports and mails, and the field names and
number formats of vendor payloads: pure computation, layout or I/O without
control state. They enter the models as inputs. `PROJECT.json` lists every
component with its status.
