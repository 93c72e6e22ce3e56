----------------------------- MODULE MCOperations -----------------------------
(***************************************************************************)
(* Migrations, exchange connections and forecasts for TLC.  They share no  *)
(* state, so that a behaviour follows one of them: `focus` is chosen once. *)
(* Requests, tasks and runners are the same values, and so are connection  *)
(* ids and model versions: a permutation of them serves all modules.       *)
(***************************************************************************)
EXTENDS Migrations, ExchangeConnections, Forecasts, TLC

VARIABLE focus

\* Two releases that add a file each, and one that edits a file.
MCReleases == {<<"a", "b">>, <<"a", "b", "c">>, <<"a", "x", "c">>}
MCContents == {"a", "b", "c", "x"}
MCRequired == {2}
MCUntracked == {<<"a">>, <<"a", "b">>, <<"a", "b", "c">>}

\* Of connections too, nothing tells the members of any set apart: a row is
\* chosen by its id, and ids are stored once.
MCSymmetry ==
  Permutations(Callers) \cup Permutations(Ids) \cup Permutations(Slots)
    \cup Permutations(Secrets) \cup Permutations(Keys)

MCInit ==
  /\ focus \in {"migrations", "connections", "forecasts"}
  /\ MigrationsInit /\ ConnectionsInit /\ ForecastsInit
  /\ focus # "migrations" => schema = <<>>
  /\ focus # "forecasts" => closed = 0 /\ candle = [n \in Candles |-> NoCandle]

MCNext ==
  \/ focus = "migrations" /\ MigrationsNext /\ UNCHANGED <<xvars, fvars, focus>>
  \/ focus = "connections" /\ ConnectionsNext /\ UNCHANGED <<mvars, fvars, focus>>
  \/ focus = "forecasts" /\ ForecastsNext /\ UNCHANGED <<mvars, xvars, focus>>

MCSpec == MCInit /\ [][MCNext]_<<mvars, xvars, fvars, focus>>
===============================================================================
