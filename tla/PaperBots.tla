------------------------------ MODULE PaperBots ------------------------------
(***************************************************************************)
(* Bots that trade on a paper portfolio beside its user: the paper half of *)
(* backend/app/trading/worker.py, engine.py, executor.py and service.py on *)
(* the tables of database/postgres/006_trading.sql.                        *)
(*                                                                         *)
(* A worker reads a due bot's row, then fetches a quote and a prediction   *)
(* without any lock, and at last calls tick(), one transaction that locks  *)
(* the portfolio and then the bot.  A bot's order is reserved and filled   *)
(* in that transaction.  In between, the user trades on the portfolio and  *)
(* controls the bot, and another worker may have picked the same row.      *)
(*                                                                         *)
(* The configuration is constant here: an update() only raises the         *)
(* revision, which is what makes work in flight void.                      *)
(***************************************************************************)
EXTENDS PaperPortfolio

CONSTANTS
  Bots,          \* one per symbol of the portfolio
  BotSymbol,     \* config.symbol, by bot
  BotAmount,     \* config.order_amount
  BotTrades,     \* config.max_open_trades
  BotStopPct,    \* config.stop_loss_pct, 0 for None
  BotTakePct,    \* config.take_profit_pct, 0 for None
  Workers,
  FailureLimit,  \* 5 in the code (engine.py:117)
  MaxCandle, MaxRevision  \* bounds of the model

\* event_key: one per prediction candle, and one exit per entry.  A bot's order
\* has the id that is derived from the bot and the key (orders.py), so the entry
\* order of a position is told by the candle of its key.
Keys == {"candle", "exit"} \X (1 .. MaxCandle)
BotIds == Bots \X Keys

ASSUME BotAssumption ==
  /\ IsFiniteSet(Bots) /\ IsFiniteSet(Workers)
  /\ BotSymbol \in [Bots -> Symbols]
  /\ \A a, b \in Bots : BotSymbol[a] = BotSymbol[b] => a = b
  /\ BotIds \subseteq ClientIds
  /\ BotAmount \in Nat \ {0} /\ BotTrades \in Nat \ {0}
  /\ BotStopPct \in 0 .. 99 /\ BotTakePct \in Nat
  /\ FailureLimit \in Nat \ {0} /\ MaxCandle \in Nat \ {0} /\ MaxRevision \in Nat \ {0}

VARIABLES
  bots,       \* trading_bots: state, revision, failures; due: next_run_at <= now()
  positions,  \* trading_positions, by bot
  decisions,  \* trading_decisions: the event keys of a bot
  candle,     \* the last closed candle
  job         \* what each worker is doing

bvars == <<bots, positions, decisions, candle, job>>
vars == <<pvars, bvars>>

NoPosition == [quantity |-> 0, stop |-> 0, take |-> 0, entry |-> 0]
Idle == [pc |-> "idle"]

BotTypeOK ==
  /\ TypeOK
  /\ bots \in [Bots -> [state: {"stopped", "running", "error"},
                        revision: 1 .. MaxRevision, failures: 0 .. FailureLimit,
                        due: BOOLEAN]]
  /\ positions \in [Bots -> [quantity: {0, BotAmount}, stop: Nat, take: Nat,
                             entry: 0 .. MaxCandle]]
  /\ decisions \in [Bots -> SUBSET Keys]
  /\ candle \in 1 .. MaxCandle
  /\ \A w \in Workers : job[w].pc \in {"idle", "quote", "tick", "failing"}

-----------------------------------------------------------------------------

Held(b) == positions[b].quantity > 0

\* What the bots' positions hold of a symbol (service.py:85-87).
Managed(s) == Total({b \in Bots : BotSymbol[b] = s}, [b \in Bots |-> positions[b].quantity])

\* An exit level is reached at this price (engine.py:45-48, worker.py:54-56).
ExitDue(b, price) ==
  /\ Held(b)
  /\ \/ positions[b].stop # 0 /\ price <= positions[b].stop
     \/ positions[b].take # 0 /\ price >= positions[b].take

\* Mutant of ExitKey: the exits of a bot share one key.
SharedKey(b) == <<"exit", 1>>

ExitKey(b) == <<"exit", positions[b].entry>>

\* _success()
Success(bot) == [bot EXCEPT !.failures = 0, !.due = FALSE]

\* failure(), of a bot that runs and is due.
Strike(bot) ==
  [bot EXCEPT !.failures = @ + 1, !.due = FALSE,
              !.state = IF bot.failures + 1 >= FailureLimit THEN "error" ELSE @]

-----------------------------------------------------------------------------
(***************************************************************************)
(* A bot's order: executor.py fill, in the transaction of tick().          *)
(***************************************************************************)
BotRequest(b, side, price) ==
  [symbol |-> BotSymbol[b], side |-> side,
   quantity |-> IF side = "buy" THEN BotAmount ELSE positions[b].quantity,
   price |-> price, fee |-> 0]

\* The bot's own percentage, or else the threshold of its order.
BotStop(req) == IF BotStopPct # 0 THEN Threshold(req.price, -1, BotStopPct) ELSE StopPrice(req)
BotTake(req) == IF BotTakePct # 0 THEN Threshold(req.price, 1, BotTakePct) ELSE TakePrice(req)

BotThresholdsAllowed(req) ==
  req.side = "buy" =>
    /\ BotStopPct # 0 => 0 < BotStop(req) /\ BotStop(req) < req.price
    /\ BotTakePct # 0 => req.price < BotTake(req)

BotMayOrder(req) ==
  /\ Cardinality(Pending) < BotTrades
  /\ OrderAllowed(req)
  /\ BotThresholdsAllowed(req)

\* Mutant of PositionAfter: the position outlives the sale that closed it.
PositionKept(b, req) ==
  IF req.side = "sell" THEN positions[b]
  ELSE [quantity |-> req.quantity, stop |-> BotStop(req), take |-> BotTake(req), entry |-> candle]

PositionAfter(b, req) ==
  IF req.side = "sell" THEN NoPosition
  ELSE [quantity |-> req.quantity, stop |-> BotStop(req), take |-> BotTake(req), entry |-> candle]

FillBotOrder(b, key, req) ==
  /\ orders' = [orders EXCEPT ![<<b, key>>] = NewOrder(req, "filled")]
  /\ BookFill(<<b, key>>, NewOrder(req, "filled"))
  /\ positions' = [positions EXCEPT ![b] = PositionAfter(b, req)]
  /\ UNCHANGED <<initial, settings>>

Decide(b, key) ==
  /\ decisions' = [decisions EXCEPT ![b] = @ \cup {key}]
  /\ bots' = [bots EXCEPT ![b] = Success(@)]

-----------------------------------------------------------------------------
(***************************************************************************)
(* A worker.                                                               *)
(***************************************************************************)
Done(w) == job' = [job EXCEPT ![w] = Idle]
Raise(w) ==
  job' = [job EXCEPT ![w] = [pc |-> "failing", bot |-> @.bot, revision |-> @.revision]]

Poll(w, b) ==
  /\ job[w].pc = "idle"
  /\ bots[b].state = "running" /\ bots[b].due
  /\ job' = [job EXCEPT ![w] = [pc |-> "quote", bot |-> b, revision |-> bots[b].revision]]
  /\ UNCHANGED <<pvars, bots, positions, decisions, candle>>

\* The quote is not usable: the bot's turn has failed.
NoQuote(w) ==
  /\ job[w].pc = "quote"
  /\ Raise(w)
  /\ UNCHANGED <<pvars, bots, positions, decisions, candle>>

\* The quote, the position and the prediction that tick() will be called with.
\* No model is asked when an exit is due; "none" is a prediction that failed.
Quote(w, price, signal) ==
  LET b == job[w].bot
  IN  /\ job[w].pc = "quote"
      /\ ExitDue(b, price) => signal = "none"
      /\ job' = [job EXCEPT ![w] =
                   [pc |-> "tick", bot |-> b, revision |-> @.revision,
                    price |-> price, signal |-> signal, candle |-> candle]]
      /\ UNCHANGED <<pvars, bots, positions, decisions, candle>>

\* Mutant of Fresh: a bot that went into error meanwhile is served.
SameRevision(w) == bots[job[w].bot].revision = job[w].revision

\* engine.py:31-34
Fresh(w) ==
  LET bot == bots[job[w].bot]
  IN  bot.revision = job[w].revision /\ bot.state = "running" /\ bot.due

\* The side and key that tick() arrives at; a prediction may be of no use.
Usable(w) == job[w].signal # "none" /\ job[w].candle = candle

Side(w) ==
  LET b == job[w].bot
  IN  IF ExitDue(b, job[w].price) THEN "sell"
      ELSE IF (job[w].signal = "buy" /\ Held(b)) \/ (job[w].signal = "sell" /\ ~Held(b))
      THEN "hold" ELSE job[w].signal

Key(w) ==
  IF ExitDue(job[w].bot, job[w].price) THEN ExitKey(job[w].bot) ELSE <<"candle", candle>>

Skip(w) ==
  /\ job[w].pc = "tick" /\ ~Fresh(w)
  /\ Done(w)
  /\ UNCHANGED <<pvars, bots, positions, decisions, candle>>

NoPrediction(w) ==
  /\ job[w].pc = "tick" /\ Fresh(w)
  /\ ~ExitDue(job[w].bot, job[w].price) /\ ~Usable(w)
  /\ Raise(w)
  /\ UNCHANGED <<pvars, bots, positions, decisions, candle>>

Ticks(w) ==
  /\ job[w].pc = "tick" /\ Fresh(w)
  /\ ExitDue(job[w].bot, job[w].price) \/ Usable(w)

AlreadyProcessed(w) ==
  LET b == job[w].bot
  IN  /\ Ticks(w) /\ Key(w) \in decisions[b]
      /\ bots' = [bots EXCEPT ![b] = Success(@)]
      /\ Done(w)
      /\ UNCHANGED <<pvars, positions, decisions, candle>>

\* Nothing to do, or a prediction whose order was refused; a refused exit raises.
DecideOnly(w) ==
  LET b == job[w].bot
  IN  /\ Ticks(w) /\ Key(w) \notin decisions[b]
      /\ \/ Side(w) = "hold"
         \/ Key(w)[1] = "candle" /\ ~BotMayOrder(BotRequest(b, Side(w), job[w].price))
      /\ Decide(b, Key(w))
      /\ Done(w)
      /\ UNCHANGED <<pvars, positions, candle>>

ExitRefused(w) ==
  LET b == job[w].bot
  IN  /\ Ticks(w) /\ Key(w) \notin decisions[b]
      /\ Key(w)[1] = "exit" /\ ~BotMayOrder(BotRequest(b, "sell", job[w].price))
      /\ Raise(w)
      /\ UNCHANGED <<pvars, bots, positions, decisions, candle>>

Trade(w) ==
  LET b == job[w].bot
      req == BotRequest(b, Side(w), job[w].price)
  IN  /\ Ticks(w) /\ Key(w) \notin decisions[b]
      /\ Side(w) # "hold" /\ BotMayOrder(req)
      /\ FillBotOrder(b, Key(w), req)
      /\ Decide(b, Key(w))
      /\ Done(w)
      /\ UNCHANGED candle

\* failure(): only for a bot that runs, is due and has the revision read first.
RecordFailure(w) ==
  LET b == job[w].bot
  IN  /\ job[w].pc = "failing"
      /\ bots' = IF Fresh(w) THEN [bots EXCEPT ![b] = Strike(@)] ELSE bots
      /\ Done(w)
      /\ UNCHANGED <<pvars, positions, decisions, candle>>

\* A worker dies; a transaction it had open is rolled back.
Crash(w) ==
  /\ job[w].pc # "idle"
  /\ Done(w)
  /\ UNCHANGED <<pvars, bots, positions, decisions, candle>>

-----------------------------------------------------------------------------
(***************************************************************************)
(* The API.                                                                *)
(***************************************************************************)
\* A call raises the revision and makes the bot due; a refused one, or one that
\* changes nothing, is a stutter.
Control(b, from, to) ==
  /\ initial # 0
  /\ bots[b].state = from /\ bots[b].revision < MaxRevision
  /\ bots' = [bots EXCEPT ![b] = [state |-> to, revision |-> @.revision + 1,
                                  failures |-> 0, due |-> TRUE]]
  /\ UNCHANGED <<pvars, positions, decisions, candle, job>>

Start(b) == Control(b, "stopped", "running")
Reset(b) == Control(b, "error", "stopped")

\* Nothing is outstanding under the portfolio's lock, so a stop is immediate.
Stop(b) == Control(b, "running", "stopped")

Update(b) ==
  /\ initial # 0
  /\ bots[b].state = "stopped" /\ bots[b].revision < MaxRevision
  /\ bots' = [bots EXCEPT ![b].revision = @ + 1]
  /\ UNCHANGED <<pvars, positions, decisions, candle, job>>

\* close-position: tick() with close, for a quote and the revision read before.
\* A different revision by then does nothing.
ClosePosition(b, price) ==
  LET req == BotRequest(b, "sell", price)
  IN  /\ bots[b].state \in {"stopped", "error"}
      /\ Held(b) /\ ExitKey(b) \notin decisions[b]
      /\ BotMayOrder(req)
      /\ FillBotOrder(b, ExitKey(b), req)
      /\ Decide(b, ExitKey(b))
      /\ UNCHANGED <<candle, job>>

\* The user's own orders and settings, next to the bots.
UserTrades ==
  /\ \/ \E amount \in InitialAmounts : Create(amount)
     \/ \E s \in SettingsChoices : ChangeSettings(s)
     \/ \E c \in ClientIds \ BotIds, req \in Request : Reserve(c, req, Managed(req.symbol))
     \/ \E c \in ClientIds \ BotIds : Fill(c) \/ Cancel(c)
  /\ UNCHANGED bvars

Elapse(b) ==
  /\ ~bots[b].due
  /\ bots' = [bots EXCEPT ![b].due = TRUE]
  /\ UNCHANGED <<pvars, positions, decisions, candle, job>>

NextCandle ==
  /\ candle < MaxCandle
  /\ candle' = candle + 1
  /\ UNCHANGED <<pvars, bots, positions, decisions, job>>

BotInit ==
  /\ Init
  /\ bots = [b \in Bots |-> [state |-> "stopped", revision |-> 1, failures |-> 0,
                             due |-> TRUE]]
  /\ positions = [b \in Bots |-> NoPosition]
  /\ decisions = [b \in Bots |-> {}]
  /\ candle = 1
  /\ job = [w \in Workers |-> Idle]

Serve(w) ==
  \/ NoQuote(w)
  \/ \E price \in Prices, signal \in {"buy", "sell", "hold", "none"} : Quote(w, price, signal)
  \/ Skip(w) \/ NoPrediction(w) \/ AlreadyProcessed(w) \/ DecideOnly(w)
  \/ ExitRefused(w) \/ Trade(w) \/ RecordFailure(w) \/ Crash(w)

BotNext ==
  \/ \E w \in Workers, b \in Bots : Poll(w, b)
  \/ \E w \in Workers : Serve(w)
  \/ \E b \in Bots : Start(b) \/ Reset(b) \/ Stop(b) \/ Update(b) \/ Elapse(b)
  \/ \E b \in Bots, price \in Prices : ClosePosition(b, price)
  \/ UserTrades
  \/ NextCandle

BotSpec == BotInit /\ [][BotNext]_vars

-----------------------------------------------------------------------------
(***************************************************************************)
(* The units of a bot's position are there for its exit: no sale of the    *)
(* user, pending or filled, before or after the bot's purchase, uses them, *)
(* although holdings are shared (service.py:84-91).  With the types of the *)
(* variables: cash never becomes negative.                                 *)
(***************************************************************************)
ManagedUnitsCovered ==
  /\ BotTypeOK
  /\ \A b \in Bots :
       positions[b].quantity + ReservedUnits(BotSymbol[b]) <= holdings[BotSymbol[b]].quantity

(***************************************************************************)
(* A bot's position is what its filled orders add up to, and its entry     *)
(* order is a filled purchase, whichever worker, exit or close request     *)
(* made the orders (engine.py:76-91).                                      *)
(***************************************************************************)
FilledBy(b, side) ==
  {i \in BotIds : i[1] = b /\ orders[i].status = "filled" /\ orders[i].side = side}

PositionMatchesOrders ==
  \A b \in Bots :
    /\ positions[b].quantity + Total(FilledBy(b, "sell"), Units) = Total(FilledBy(b, "buy"), Units)
    /\ Held(b) => <<b, <<"candle", positions[b].entry>>>> \in FilledBy(b, "buy")

(***************************************************************************)
(* A position that is held can still be closed: its exit was not decided   *)
(* before, or every tick and close request would end as already processed  *)
(* (engine.py:50 and 65-68).                                               *)
(***************************************************************************)
ExitStaysOpen == \A b \in Bots : Held(b) => ExitKey(b) \notin decisions[b]

(***************************************************************************)
(* A bot that is stopped or in error opens no position and decides nothing *)
(* but its exit, although a worker may be about to tick with a row that    *)
(* says it is running (engine.py:31-34, service.py:40-51).                 *)
(***************************************************************************)
OnlyRunningBotsTrade ==
  [][\A b \in Bots : bots[b].state # "running" =>
       /\ positions'[b] \in {positions[b], NoPosition}
       /\ decisions'[b] \subseteq decisions[b] \cup {ExitKey(b)}]_vars
=============================================================================
