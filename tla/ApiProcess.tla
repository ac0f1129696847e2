---- MODULE ApiProcess ----
(***************************************************************************)
(* One API process: the services it builds lazily on the first request     *)
(* that needs them and keeps for its life (the lru_cache'd getters), the   *)
(* Qdrant mirror of the evidence index, and the registry of models.        *)
(* Requests run in a pool of threads.  lru_cache keeps the first value and *)
(* does not hold other callers back while it is computed: two first calls  *)
(* that overlap build an instance each.  An instance is named by the       *)
(* thread that built it.                                                   *)
(***************************************************************************)
EXTENDS Naturals, Sequences, FiniteSets

CONSTANTS Threads,        \* threads of the pool
          NewsRows,       \* ids the rows of the table news may have
          FixtureRows,    \* ids of the in-memory fixture's news
          Modes,          \* values of MARKET_DATA_SOURCE considered
          Nothing,
          MaxChanges,     \* changes of the world around the process
          MaxRuns,        \* runs of agents a process finishes before it is asked for no other
          MaxModels       \* models trained

VARIABLES
  mode,       \* settings.market_data_source
  world,      \* [db, qdrant: BOOLEAN, model: number of the persisted model or 0]; db
              \* stands for a database that answers and holds rows
  changes,    \* changes of the world so far
  mirror,     \* the points of the Qdrant collection: id -> the source of its text
  cache,      \* getter -> the instance kept
  made,       \* getter -> thread -> the instance it built
  todo,       \* thread -> what is left of its request
  got,        \* thread -> getter -> the instance it was given
  registry,   \* the one entry of the model registry: Nothing, the stub (0) or a number
  runs,       \* runs finished by this process
  raced,      \* ghost: getters whose first calls overlapped
  rewritten,  \* ghost: points another process wrote since this one did
  loadable    \* ghost: the model that could be read when the process started

apiVars == <<mode, world, changes, mirror, cache, made, todo, got, registry, runs, raced,
             rewritten, loadable>>

Getters == {"market", "rag", "audit", "orchestrator"}
ById(c) == [t \in Threads |-> c]
Unmade  == [market |-> ById(Nothing), rag |-> ById(Nothing), audit |-> ById({}),
            orchestrator |-> ById(Nothing)]
Unasked == [g \in Getters |-> Nothing]
Put(old, ids, source) == [i \in DOMAIN old \cup ids |-> IF i \in ids THEN source ELSE old[i]]

\* The source each mode serves, asking database_is_ready in the mode "auto"
Serving == IF mode = "db" \/ (mode = "auto" /\ world.db) THEN "db" ELSE "fixture"

\* list_news of a source: the fixture's rows, or the table's (which may not answer)
News(source) == IF source = "fixture" THEN FixtureRows ELSE IF world.db THEN NewsRows ELSE {}

\* What each getter does on a miss, and what each request asks for
Body(g) ==
  CASE g = "audit" -> << <<"keep", g>> >>
    [] g = "market" -> << <<"make", g>>, <<"keep", g>> >>
    [] g = "rag" -> << <<"make", g>>, <<"call", "market">>, <<"seed", g>>, <<"mirror", g>>,
                       <<"keep", g>> >>
    [] g = "orchestrator" -> << <<"call", "market">>, <<"call", "rag">>, <<"call", "audit">>,
                                <<"make", g>>, <<"keep", g>> >>
Asks(r) == runs < MaxRuns \/ r[Len(r)] # <<"run", "">>
Requests == {<< <<"call", "rag">> >>, << <<"call", "market">>, <<"predict", "">> >>,
             << <<"call", "orchestrator">>, <<"run", "">> >>}

\* model_registry.load: the persisted model, when the database answers and the
\* artifact still unpickles
Loaded(readable) == IF world.db /\ readable /\ world.model # 0 THEN world.model ELSE Nothing
Fresh(m) == /\ cache' = Unasked
            /\ made' = Unmade
            /\ todo' = ById(<<>>)
            /\ got' = ById(Unasked)
            /\ runs' = 0
            /\ raced' = {}
            /\ rewritten' = DOMAIN mirror
            /\ registry' = m
            /\ loadable' = m

ApiInit ==
  /\ mode \in Modes
  /\ world \in [db: BOOLEAN, qdrant: BOOLEAN, model: {0, 1}]
  /\ changes = 0
  /\ mirror = [i \in {} |-> Nothing]
  /\ cache = Unasked
  /\ made = Unmade
  /\ todo = ById(<<>>)
  /\ got = ById(Unasked)
  /\ runs = 0
  /\ raced = {}
  /\ rewritten = {}
  /\ registry = Loaded(TRUE)
  /\ loadable = Loaded(TRUE)

----
\* A request arrives at an idle thread.
Ask(t) ==
  /\ todo[t] = <<>>
  /\ \E r \in Requests : Asks(r) /\ todo' = [todo EXCEPT ![t] = r]
  /\ UNCHANGED <<mode, world, changes, mirror, cache, made, got, registry, runs, raced,
                 rewritten, loadable>>

Doing(t, verb, g) == todo[t] # <<>> /\ Head(todo[t]) = <<verb, g>>

\* The step at the head is done; what the request was given ends with it.
DoneWith(t, given) ==
  /\ todo' = [todo EXCEPT ![t] = Tail(@)]
  /\ got' = [got EXCEPT ![t] = IF Tail(todo[t]) = <<>> THEN Unasked ELSE given]
Done(t) == DoneWith(t, got[t])

\* A call of a getter: the cached instance, or its body.
Call(t, g) ==
  /\ Doing(t, "call", g)
  /\ IF cache[g] # Nothing
     THEN DoneWith(t, [got[t] EXCEPT ![g] = cache[g]])
     ELSE todo' = [todo EXCEPT ![t] = Body(g) \o Tail(@)] /\ UNCHANGED got
  /\ UNCHANGED <<mode, world, changes, mirror, cache, made, registry, runs, raced, rewritten,
                 loadable>>

\* The constructors.  RagService asks Qdrant for its collections; the orchestrator
\* holds the services it was given and the trail it records in.
OwnTrail(t)   == t
GivenTrail(t) == got[t].audit
Built(t, g) ==
  CASE g = "market" -> Serving
    [] g = "rag" -> [market |-> Nothing, index |-> {}, available |-> world.qdrant]
    [] g = "orchestrator" ->
         [market |-> got[t].market, rag |-> got[t].rag, audit |-> GivenTrail(t)]

Make(t, g) ==
  /\ Doing(t, "make", g)
  /\ made' = [made EXCEPT ![g][t] = Built(t, g)]
  /\ Done(t)
  /\ UNCHANGED <<mode, world, changes, mirror, cache, registry, runs, raced, rewritten,
                 loadable>>

\* get_rag_service indexes the source's news (an error leaves the index empty) ...
Seed(t) ==
  /\ Doing(t, "seed", "rag")
  /\ made' = [made EXCEPT !.rag[t].market = got[t].market,
                          !.rag[t].index = News(made.market[got[t].market])]
  /\ Done(t)
  /\ UNCHANGED <<mode, world, changes, mirror, cache, registry, runs, raced, rewritten,
                 loadable>>

\* ... and mirrors the same chunks, one request to Qdrant; a failure turns the
\* mirror off for the life of the instance.
StillOn(rag) == rag
Failed(rag)  == [rag EXCEPT !.available = FALSE]
MirrorNews(t) ==
  LET rag == made.rag[t]
      sends == rag.available /\ rag.index # {}
  IN /\ Doing(t, "mirror", "rag")
     /\ IF sends /\ world.qdrant
        THEN /\ mirror' = Put(mirror, rag.index, made.market[rag.market])
             /\ rewritten' = rewritten \ rag.index
        ELSE UNCHANGED <<mirror, rewritten>>
     /\ made' = IF sends /\ ~world.qdrant THEN [made EXCEPT !.rag[t] = Failed(@)] ELSE made
     /\ Done(t)
     /\ UNCHANGED <<mode, world, changes, cache, registry, runs, raced, loadable>>

\* The wrapper of lru_cache: the first instance computed stays, the caller
\* goes on with its own.
Keep(t, g) ==
  /\ Doing(t, "keep", g)
  /\ IF cache[g] = Nothing
     THEN cache' = [cache EXCEPT ![g] = t] /\ UNCHANGED raced
     ELSE raced' = raced \cup {g} /\ UNCHANGED cache
  /\ DoneWith(t, [got[t] EXCEPT ![g] = t])
  /\ UNCHANGED <<mode, world, changes, mirror, made, registry, runs, rewritten, loadable>>

\* ensure_default_model: the stub is registered when no model can be served.
Stub == 0
WithModel(entry)  == IF entry = Nothing THEN Stub ELSE entry

Predict(t) ==
  /\ Doing(t, "predict", "")
  /\ registry' = WithModel(registry)
  /\ Done(t)
  /\ UNCHANGED <<mode, world, changes, mirror, cache, made, runs, raced, rewritten,
                 loadable>>

\* A run of the analysis agent: it asks for a prediction and is recorded in the
\* trail of the orchestrator the request was given.
Run(t) ==
  LET trail == made.orchestrator[got[t].orchestrator].audit
  IN /\ Doing(t, "run", "")
     /\ runs' = runs + 1
     /\ made' = [made EXCEPT !.audit[trail] = @ \cup {runs + 1}]
     /\ registry' = WithModel(registry)
     /\ Done(t)
     /\ UNCHANGED <<mode, world, changes, mirror, cache, raced, rewritten, loadable>>

----
\* The world: servers come and go, the tables fill, a model is trained and saved
\* (the row's key is the same for every model), another process mirrors its news.
Change(w) == /\ changes < MaxChanges
             /\ changes' = changes + 1
             /\ world' = w
             /\ UNCHANGED <<mode, cache, made, todo, got, registry, runs, raced, loadable>>
Untouched == UNCHANGED <<mirror, rewritten>>

Flip  == \E s \in {"db", "qdrant"} : Change([world EXCEPT ![s] = ~@]) /\ Untouched
Train == /\ world.db
         /\ world.model < MaxModels
         /\ Change([world EXCEPT !.model = @ + 1])
         /\ Untouched
MirrorElsewhere ==
  /\ world.qdrant
  /\ \E source \in {"fixture", "db"} :
       LET ids == News(source) IN /\ ids # {}
                                  /\ mirror' = Put(mirror, ids, source)
                                  /\ rewritten' = rewritten \cup ids
  /\ Change(world)

\* The process is started again; the lifespan hook loads the models.
Restart ==
  /\ changes < MaxChanges
  /\ changes' = changes + 1
  /\ \E readable \in BOOLEAN : Fresh(Loaded(readable))
  /\ UNCHANGED <<mode, world, mirror>>

ApiNext ==
  \/ \E t \in Threads : \/ Ask(t)
                        \/ \E g \in Getters : Call(t, g) \/ Keep(t, g)
                        \/ \E g \in Getters \ {"audit"} : Make(t, g)
                        \/ Seed(t) \/ MirrorNews(t) \/ Predict(t) \/ Run(t)
  \/ Flip \/ Train \/ MirrorElsewhere \/ Restart
ApiSpec == ApiInit /\ [][ApiNext]_apiVars
----
\* GET /agents/runs answers from the kept orchestrator.  But for the getters excused, the
\* services it holds are those the other routes use; every run the process finished is in
\* its trail, unless trail and orchestrator are excused both.
OneServiceOfEachBut(excused) ==
  cache.orchestrator # Nothing =>
    LET orchestrator == made.orchestrator[cache.orchestrator]
    IN /\ {"audit", "orchestrator"} \subseteq excused \/ made.audit[orchestrator.audit] = 1 .. runs
       /\ \A g \in {"market", "rag", "audit"} : g \in excused \/ orchestrator[g] = cache[g]
       /\ "market" \in excused \/ made.rag[orchestrator.rag].market = cache.market

\* One instance of every service whose own first calls did not overlap; a run is missing
\* from GET /agents/runs only if those of the trail and those of the orchestrator did: one
\* of the two built twice loses nothing.
OneOfEach == OneServiceOfEachBut(raced)

\* Process-wide singletons, as agent_service calls them.  Does not hold: lru_cache lets
\* first calls overlap.
ProcessWideSingletons == OneServiceOfEachBut({})

\* A kept evidence index that reports its mirror available has each of its
\* items in Qdrant, with the text of its own source unless another process
\* wrote that point since, or the process built two market sources.
MirrorHoldsIndex ==
  cache.rag # Nothing =>
    LET rag == made.rag[cache.rag]
    IN rag.available =>
         \A i \in rag.index :
           /\ i \in DOMAIN mirror
           /\ \/ mirror[i] = made.market[rag.market]
              \/ i \in rewritten
              \/ "market" \in raced

\* A model that could be loaded when the process started is served until it
\* stops: the stub never takes its place under their common version.
TrainedModelStays == loadable # Nothing => registry = loadable
====
