-------------------------------- MODULE Services --------------------------------
(***************************************************************************)
(* The concurrent services side by side: the ingestion runs, the API       *)
(* process and the watches of the monitoring agent.  They share no state   *)
(* that the properties tell apart, so a behaviour exercises one of them,   *)
(* its part, while the others stay as they started.                        *)
(***************************************************************************)
EXTENDS MarketIngestion

CONSTANTS
  \* ApiProcess; its threads are Procs
  NewsRows, FixtureRows, Modes, MaxChanges, MaxAgentRuns, MaxModels,
  \* Monitoring; its requests are Procs
  Watched, Boards, Watchlists, Baselines, MaxAttempts, MaxFaults, MaxMoves, MaxReports

VARIABLES
  part,
  mode, world, changes, mirror, cache, made, todo, got, registry, runs, raced, rewritten, loadable,
  market, memory, watch, moves, faults, reports, reported, spoilt, crowded

apiVars == <<mode, world, changes, mirror, cache, made, todo, got, registry, runs, raced,
             rewritten, loadable>>
watchVars == <<market, memory, watch, moves, faults, reports, reported, spoilt, crowded>>
vars == <<part, ingestVars, apiVars, watchVars>>

Api == INSTANCE ApiProcess WITH Threads <- Procs, Nothing <- None, MaxRuns <- MaxAgentRuns

Watching == INSTANCE Monitoring WITH
  Requests <- Procs, Symbols <- Watched, Absent <- None, seen <- reported

\* None stands for no thread and for no service.
ASSUME NoneIsNothing ==
  /\ None \notin Procs
  /\ None \notin [market : Procs \cup {None}, index : SUBSET (NewsRows \cup FixtureRows),
                  available : BOOLEAN]
  /\ None \notin [market : Procs, rag : Procs, audit : Procs]

\* A request to watch names a symbol at least (MonitorRequest, GET /monitoring/alerts).
ASSUME WatchesAreOfSymbols ==
  /\ Watchlists \subseteq Seq(Watched) \ {<<>>}
  /\ "shared" \notin Procs

Init ==
  /\ part \in {"ingestion", "api", "monitoring"}
  /\ IngestInit
  /\ Api!ApiInit
  /\ Watching!MonitoringInit

Ingest  == part = "ingestion" /\ IngestNext /\ UNCHANGED <<part, apiVars, watchVars>>
Serve   == part = "api" /\ Api!ApiNext /\ UNCHANGED <<part, ingestVars, watchVars>>
Monitor == part = "monitoring" /\ Watching!MonitoringNext /\ UNCHANGED <<part, ingestVars, apiVars>>

Next == Ingest \/ Serve \/ Monitor
Spec == Init /\ [][Next]_vars

-----------------------------------------------------------------------------
(* Properties: those of the parts, as their modules state them *)

\* What the ingestion was told is in the tables: a bar or an observation is the last sound
\* one a vendor sent, and a news item or event is there once, whatever other runs stored,
\* unless its batch repeats it or two runs raced for it.
IngestedIsKept == LastSoundWord /\ ToldIsStoredOnce

\* A service whose own first calls did not overlap is one and the same for the routes and
\* the agents, whatever else was built twice; every run the process finished is in the
\* trail GET /agents/runs reads, unless first calls of the trail and of the orchestrator
\* overlapped both; a trained model loaded at startup is never replaced by the stub that
\* shares its version.
ServicesAreKept == Api!OneOfEach /\ Api!TrainedModelStays

\* Does not hold: overlapping first calls leave two instances of a service in use.
ServicesAreSingletons == Api!ProcessWideSingletons

\* An evidence index that reports its mirror available has each of its items there, with
\* the text of its own source.
MirrorHoldsIndex == Api!MirrorHoldsIndex

\* A report of the monitoring agent tells every signal that changed since the one before.
SignalChangesAreTold == Watching!SignalChangesAreTold

=============================================================================
