------------------------------- MODULE Forecasts -------------------------------
(***************************************************************************)
(* Candles, models and forecasts of one market: the fetching and storing   *)
(* of candles (backend/app/market/service.py, providers.py, repository.py, *)
(* workers/ingestion.py), the training, registration and activation of     *)
(* model versions (prediction/training.py, artifacts.py, registry.py,      *)
(* train.py) and the forecasts made with them (prediction/service.py,      *)
(* data.py).                                                               *)
(*                                                                         *)
(* Candle n is open while `closed`, the number of candles that have        *)
(* closed, is n.  What the provider answers for a candle is final if the   *)
(* candle had closed then.  Each candle is stored by an update of its own. *)
(* The numbers in the candles and the models are left out.                 *)
(***************************************************************************)
EXTENDS Naturals, FiniteSets, FiniteSetsExt

CONSTANTS
  MaxClosed,  \* bound: candles that close
  MinClosed,  \* closed candles a frame needs (data.py: 60)
  Refresh,    \* REFRESH_CANDLES
  Versions,   \* model versions, uuids drawn once
  Tasks,      \* requests, workers and operators at one time
  NoVersion

ASSUME ForecastsAssumption ==
  /\ MaxClosed \in Nat /\ MinClosed \in Nat \ {0} /\ Refresh \in Nat \ {0}
  /\ NoVersion \notin Versions

VARIABLES
  closed,    \* the clock
  candle,    \* market_data: what is stored for each candle
  artifact,  \* the directory of each version
  model,     \* rows of ml_models: the last candle each was trained on
  active,    \* the version with is_active
  task,      \* where each task stands, and what it has read
  forecast   \* the last row of predictions: the model and the candles it was
             \* made with

fvars == <<closed, candle, artifact, model, active, task, forecast>>

Candles == 0 .. MaxClosed

\* fetched: fetched_at is before the candle's end ("early") or not ("late"), or
\* missing, in a document of an older release; final: the values are final.
Candle == [stored: BOOLEAN, fetched: {"unknown", "early", "late"}, final: BOOLEAN]
NoCandle == [stored |-> FALSE, fetched |-> "unknown", final |-> FALSE]
Legacy == {c \in Candle : c.stored /\ c.fetched = "unknown"}
NoForecast == [version |-> NoVersion, candles |-> {}]
NotTrained == [registered |-> FALSE, end |-> 0]
Free == [pc |-> "free", now |-> 0, version |-> NoVersion, end |-> 0,
         stamp |-> 0, answer |-> 0, left |-> {}]

ForecastsTypeOK ==
  /\ closed \in Candles
  /\ candle \in [Candles -> Candle]
  /\ artifact \in [Versions -> {"none", "partial", "complete"}]
  /\ model \in [Versions -> [registered: BOOLEAN, end: Candles]]
  /\ active \in Versions \cup {NoVersion}
  /\ \A p \in Tasks : task[p].pc \in {"free", "history", "ask", "reask", "store", "restore",
                                      "reread", "save", "saved", "activate"}
  /\ forecast \in [version: Versions \cup {NoVersion}, candles: SUBSET Candle]

Goto(p, next) == task' = [task EXCEPT ![p] = next]
Ends(p) == Goto(p, Free)

CandleCloses ==
  /\ closed < MaxClosed
  /\ closed' = closed + 1
  /\ UNCHANGED <<candle, artifact, model, active, task, forecast>>

-----------------------------------------------------------------------------
(***************************************************************************)
(* fetch_ohlcv and upsert_ohlcv, by the ingestion worker, the chart        *)
(* ("ask", "store") and a forecast that refreshes ("reask", "restore").    *)
(* fetched_at is taken before the request is sent.                         *)
(***************************************************************************)
StartFetch(p) ==
  /\ task[p].pc = "free"
  /\ Goto(p, [Free EXCEPT !.pc = "ask", !.stamp = closed])
  /\ UNCHANGED <<closed, candle, artifact, model, active, forecast>>

ProviderAnswers(p) ==
  LET recent == IF task[p].pc = "ask" THEN MaxClosed + 1 ELSE Refresh IN
  /\ task[p].pc \in {"ask", "reask"}
  /\ Goto(p, [task[p] EXCEPT !.pc = IF @ = "ask" THEN "store" ELSE "restore",
                             !.answer = closed,
                             !.left = {n \in Candles : n <= closed /\ closed < n + recent}])
  /\ UNCHANGED <<closed, candle, artifact, model, active, forecast>>

\* Mutant of FetchedAt: the candles are stamped when the answer is stored.
StoredAt(p) == closed

FetchedAt(p) == task[p].stamp

Store(p, n) ==
  /\ task[p].pc \in {"store", "restore"} /\ n \in task[p].left
  /\ candle' = [candle EXCEPT ![n] =
       [stored |-> TRUE, fetched |-> IF n < FetchedAt(p) THEN "late" ELSE "early",
        final |-> n < task[p].answer]]
  /\ Goto(p, [task[p] EXCEPT !.left = @ \ {n}])
  /\ UNCHANGED <<closed, artifact, model, active, forecast>>

Stored(p) ==
  /\ task[p].pc \in {"store", "restore"} /\ task[p].left = {}
  /\ IF task[p].pc = "store" THEN Ends(p)
     ELSE Goto(p, [Free EXCEPT !.pc = "reread", !.now = task[p].now, !.version = task[p].version])
  /\ UNCHANGED <<closed, candle, artifact, model, active, forecast>>

-----------------------------------------------------------------------------
(***************************************************************************)
(* feature_frame: the stored candles that have closed at `now`, without    *)
(* those that are known to have been fetched before.                       *)
(***************************************************************************)
Partial(n, now) == candle[n].stored /\ n < now /\ candle[n].fetched = "early"
Frame(now) == {n \in Candles : candle[n].stored /\ n < now /\ ~Partial(n, now)}

Continuous(F) == F = Min(F) .. Max(F)
FrameOK(F) == Cardinality(F) >= MinClosed /\ Continuous(F)

\* candles[-REFRESH_CANDLES:]
Recent == {n \in Candles : candle[n].stored
             /\ Cardinality({m \in Candles : m > n /\ candle[m].stored}) < Refresh}

(***************************************************************************)
(* train_version: the bundle's files are written, the manifest last, and   *)
(* then the version is registered.                                         *)
(***************************************************************************)
Train(p, v) ==
  /\ task[p].pc = "free" /\ artifact[v] = "none"
  /\ FrameOK(Frame(closed))
  /\ artifact' = [artifact EXCEPT ![v] = "partial"]
  /\ Goto(p, [Free EXCEPT !.pc = "save", !.version = v, !.end = Max(Frame(closed))])
  /\ UNCHANGED <<closed, candle, model, active, forecast>>

SaveManifest(p) ==
  /\ task[p].pc = "save"
  /\ artifact' = [artifact EXCEPT ![task[p].version] = "complete"]
  /\ Goto(p, [task[p] EXCEPT !.pc = "saved"])
  /\ UNCHANGED <<closed, candle, model, active, forecast>>

\* Mutant of Registrable: a version is registered while its files are written.
RegistrableEarly(p) == task[p].pc \in {"save", "saved"}

Registrable(p) == task[p].pc = "saved"

Register(p, activate) ==
  LET v == task[p].version IN
  /\ Registrable(p)
  /\ model' = [model EXCEPT ![v] = [registered |-> TRUE, end |-> task[p].end]]
  /\ active' = IF activate THEN v ELSE active
  /\ Ends(p)
  /\ UNCHANGED <<closed, candle, artifact, forecast>>

\* train.py --activate-version: the row, the artifacts, and the update.
\* load: every file is there and has the digest of the manifest.
Loadable(v) == artifact[v] = "complete"

ReadVersion(p, v) ==
  /\ task[p].pc = "free"
  /\ model[v].registered /\ Loadable(v)
  /\ Goto(p, [Free EXCEPT !.pc = "activate", !.version = v])
  /\ UNCHANGED <<closed, candle, artifact, model, active, forecast>>

Activate(p) ==
  /\ task[p].pc = "activate"
  /\ active' = task[p].version
  /\ Ends(p)
  /\ UNCHANGED <<closed, candle, artifact, model, forecast>>

(***************************************************************************)
(* predict: `now` is taken at the beginning.  A recent candle that was     *)
(* fetched too early is fetched again, once; the history is then read      *)
(* again, and other fetches may have been stored in between.               *)
(***************************************************************************)
Predict(p) ==
  /\ task[p].pc = "free"
  /\ active # NoVersion /\ Loadable(active)
  /\ Goto(p, [Free EXCEPT !.pc = "history", !.now = closed, !.version = active])
  /\ UNCHANGED <<closed, candle, artifact, model, active, forecast>>

NeedsRefresh(p) == task[p].pc = "history" /\ \E n \in Recent : Partial(n, task[p].now)

RefreshHistory(p) ==
  /\ NeedsRefresh(p)
  /\ Goto(p, [task[p] EXCEPT !.pc = "reask", !.stamp = closed])
  /\ UNCHANGED <<closed, candle, artifact, model, active, forecast>>

\* The candle after the frame's last one must be running, and the model must
\* not have been evaluated on later candles.
Forecastable(p) ==
  LET F == Frame(task[p].now) IN
  /\ FrameOK(F)
  /\ Max(F) + 1 >= task[p].now
  /\ Max(F) >= model[task[p].version].end

Forecast(p) ==
  [version |-> task[p].version, candles |-> {candle[n] : n \in Frame(task[p].now)}]

RecordForecast(p) ==
  /\ task[p].pc \in {"history", "reread"} /\ ~NeedsRefresh(p)
  /\ forecast' = IF Forecastable(p) THEN Forecast(p) ELSE forecast
  /\ Ends(p)
  /\ UNCHANGED <<closed, candle, artifact, model, active>>

\* The provider or a database fails, or the process dies.
Abort(p) ==
  /\ task[p].pc # "free"
  /\ Ends(p)
  /\ UNCHANGED <<closed, candle, artifact, model, active, forecast>>

-----------------------------------------------------------------------------

\* An older release may have stored candles, also while they were open.
ForecastsInit ==
  /\ closed \in Candles
  /\ candle \in [Candles -> {NoCandle} \cup Legacy]
  /\ \A n \in Candles : /\ candle[n].stored => n <= closed
                        /\ candle[n].final => n < closed
  /\ artifact = [v \in Versions |-> "none"]
  /\ model = [v \in Versions |-> NotTrained]
  /\ active = NoVersion
  /\ task = [p \in Tasks |-> Free]
  /\ forecast = NoForecast

ForecastsNext ==
  \/ CandleCloses
  \/ \E p \in Tasks :
       \/ StartFetch(p) \/ ProviderAnswers(p) \/ Stored(p)
       \/ \E n \in Candles : Store(p, n)
       \/ \E v \in Versions : Train(p, v) \/ ReadVersion(p, v)
       \/ SaveManifest(p) \/ Activate(p)
       \/ \E activate \in BOOLEAN : Register(p, activate)
       \/ Predict(p) \/ RefreshHistory(p) \/ RecordForecast(p)
       \/ Abort(p)

ForecastsSpec == ForecastsInit /\ [][ForecastsNext]_fvars

-----------------------------------------------------------------------------
(***************************************************************************)
(* Properties                                                              *)
(***************************************************************************)

\* No forecast is made from values that a candle with a fetched_at had before
\* it closed, although an answer may race the close, fetches are stored in any
\* order and overwrite each other, documents without the stamp among them
\* (providers.py: "Stamped before the request so a response racing a candle
\* close counts as partial").
ForecastsAreFinal ==
  \A c \in forecast.candles : c.fetched # "unknown" => c.final

\* A version that is registered has all of its artifacts, and so has the one
\* that is active and the one of a forecast, also when a training dies or
\* several operators activate at once (artifacts.py: "The PostgreSQL
\* registration occurs only after every immutable artifact is written").  With
\* the types of the variables.
ModelsArePublished ==
  /\ ForecastsTypeOK
  /\ \A v \in Versions : model[v].registered => artifact[v] = "complete"
  /\ \A v \in {active, forecast.version} \ {NoVersion} : model[v].registered
===============================================================================
