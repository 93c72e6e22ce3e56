--------------------------- MODULE PaperBotsProofs ---------------------------
(***************************************************************************)
(* Theorems about bots on a paper portfolio, for any symbols, bots,        *)
(* workers, orders, prices, limits and thresholds.                         *)
(*                                                                         *)
(* A worker acts on a row that may be old, so nothing is known of what it  *)
(* holds but its types; what keeps the bots' books is the transaction of   *)
(* tick().  The invariant is the portfolio's, the four properties, and     *)
(* what ties them together: an order of a bot stands for a decision, an    *)
(* exit was decided after the purchase with the same candle, and nothing   *)
(* runs or is held before the portfolio is opened.                         *)
(***************************************************************************)
EXTENDS PaperBots, PaperPortfolioProofs

Signals == {"buy", "sell", "hold", "none"}

Job == {Idle} \cup [pc: {"quote", "failing"}, bot: Bots, revision: Nat]
         \cup [pc: {"tick"}, bot: Bots, revision: Nat, price: Prices,
               signal: Signals, candle: Nat]

BotTypes ==
  /\ bots \in [Bots -> [state: {"stopped", "running", "error"},
                        revision: 1 .. MaxRevision, failures: 0 .. FailureLimit,
                        due: BOOLEAN]]
  /\ \A b \in Bots : bots[b].state = "running" => bots[b].failures < FailureLimit
  /\ positions \in [Bots -> [quantity: {0, BotAmount}, stop: Nat, take: Nat,
                             entry: 0 .. MaxCandle]]
  /\ decisions \in [Bots -> SUBSET Keys]
  /\ candle \in 1 .. MaxCandle
  /\ job \in [Workers -> Job]

UnitsManaged ==
  \A b \in Bots :
    positions[b].quantity + ReservedUnits(BotSymbol[b]) <= holdings[BotSymbol[b]].quantity

OrdersDecided ==
  \A b \in Bots, k \in Keys : orders[<<b, k>>].status # "none" =>
    orders[<<b, k>>].status = "filled" /\ k \in decisions[b]

EntriesFirst ==
  \A b \in Bots, n \in 1 .. MaxCandle :
    <<"exit", n>> \in decisions[b] => <<"candle", n>> \in decisions[b]

NothingBeforeOpening ==
  initial = 0 => \A b \in Bots : bots[b].state = "stopped" /\ ~Held(b)

\* What a step of the bots' part can disturb by their decisions and orders.
BotBooks == PositionMatchesOrders /\ ExitStaysOpen /\ OrdersDecided /\ EntriesFirst

BotInv == IInv /\ BotTypes /\ UnitsManaged /\ BotBooks /\ NothingBeforeOpening

-----------------------------------------------------------------------------
LEMMA BotInit_Inv == BotInit => BotInv
<1> SUFFICES ASSUME BotInit PROVE BotInv
  OBVIOUS
<1>1. IInv /\ TypeOK
  BY InitIInv DEF BotInit, IInv
<1>2. BotTypes
  <2>1. NoPosition \in [quantity: {0, BotAmount}, stop: Nat, take: Nat, entry: 0 .. MaxCandle]
    BY BotAssumption DEF NoPosition
  <2> QED BY <2>1, BotAssumption DEF BotInit, BotTypes, Job
<1>3. \A b \in Bots : ~Held(b) /\ positions[b].quantity = 0
  BY DEF BotInit, Held, NoPosition
<1>4. UnitsManaged
  <2> SUFFICES ASSUME NEW b \in Bots
               PROVE  positions[b].quantity + ReservedUnits(BotSymbol[b])
                        <= holdings[BotSymbol[b]].quantity
    BY DEF UnitsManaged
  <2>1. BotSymbol[b] \in Symbols
    BY BotAssumption
  <2>2. /\ ReservedUnits(BotSymbol[b]) \in Nat
        /\ ReservedUnits(BotSymbol[b]) <= holdings[BotSymbol[b]].quantity
    BY <1>1, <2>1, ReservationsNat DEF IInv, UnitsCovered
  <2> QED BY <1>3, <2>2
<1>5. \A i \in BotIds : i \in ClientIds /\ orders[i].status = "none"
  BY BotAssumption DEF BotInit, Init, Absent
<1>6. \A b \in Bots : \A side : FilledBy(b, side) = {}
  BY <1>5 DEF FilledBy
<1>7. PositionMatchesOrders
  <2>1. \A b \in Bots : \A side : Total(FilledBy(b, side), Units) = 0
    BY <1>6, TotalEmpty
  <2> QED BY <1>3, <2>1 DEF PositionMatchesOrders
<1>8. ExitStaysOpen /\ EntriesFirst /\ OrdersDecided
  BY <1>3, <1>5 DEF ExitStaysOpen, EntriesFirst, OrdersDecided, BotInit, BotIds
<1>9. NothingBeforeOpening
  BY <1>3 DEF BotInit, NothingBeforeOpening
<1> QED BY <1>1, <1>2, <1>4, <1>7, <1>8, <1>9 DEF BotInv, BotBooks

-----------------------------------------------------------------------------
(***************************************************************************)
(* Steps that trade and decide nothing: a worker's before tick(), a tick() *)
(* that is skipped or refused, control, and time.                          *)
(***************************************************************************)
LEMMA QuietStep ==
  ASSUME BotInv, UNCHANGED <<pvars, positions, decisions>>, BotTypes',
         \A b \in Bots : bots'[b].state # "stopped" => bots[b].state # "stopped" \/ initial # 0
  PROVE  BotInv'
<1>1. IInv'
  BY NextIInv DEF BotInv, pvars
<1>2. \A s : ReservedUnits(s)' = ReservedUnits(s)
  BY OrdersStay DEF pvars
<1>3. UnitsManaged'
  BY <1>2 DEF BotInv, UnitsManaged, pvars
<1>4. \A b, side : FilledBy(b, side)' = FilledBy(b, side)
  BY DEF FilledBy, pvars
<1>5. Units' = Units
  BY DEF Units, pvars
<1>6. PositionMatchesOrders'
  BY <1>4, <1>5 DEF BotInv, BotBooks, PositionMatchesOrders, Held
<1>7. ExitStaysOpen' /\ OrdersDecided' /\ EntriesFirst'
  BY DEF BotInv, BotBooks, ExitStaysOpen, OrdersDecided, EntriesFirst, Held, ExitKey, pvars
<1>8. NothingBeforeOpening'
  BY DEF BotInv, NothingBeforeOpening, Held, pvars
<1> QED BY <1>1, <1>3, <1>6, <1>7, <1>8 DEF BotInv, BotBooks

\* A worker goes on with its bot.
LEMMA WorkerTypes ==
  ASSUME BotTypes, NEW w \in Workers, NEW j \in Job, job' = [job EXCEPT ![w] = j],
         UNCHANGED <<bots, positions, decisions, candle>>
  PROVE  BotTypes'
BY DEF BotTypes

LEMMA JobFields ==
  ASSUME BotTypes, NEW w \in Workers, job[w].pc # "idle"
  PROVE  /\ job[w].bot \in Bots /\ job[w].revision \in Nat
         /\ [pc |-> "failing", bot |-> job[w].bot, revision |-> job[w].revision] \in Job
         /\ job[w].pc = "tick" => /\ job[w].price \in Prices /\ job[w].signal \in Signals
                                  /\ job[w].candle \in Nat
<1>1. job[w] \in Job /\ job[w] # Idle
  BY DEF BotTypes, Idle
<1>2. job[w].bot \in Bots /\ job[w].revision \in Nat
  BY <1>1 DEF Job, Signals
<1>3. [pc |-> "failing", bot |-> job[w].bot, revision |-> job[w].revision] \in Job
  BY <1>2 DEF Job
<1>4. ASSUME job[w].pc = "tick"
      PROVE  job[w].price \in Prices /\ job[w].signal \in Signals /\ job[w].candle \in Nat
  <2>1. job[w] \in [pc: {"tick"}, bot: Bots, revision: Nat, price: Prices,
                    signal: Signals, candle: Nat]
    BY <1>1, <1>4 DEF Job, Idle
  <2> QED BY <2>1
<1> QED BY <1>2, <1>3, <1>4

LEMMA WorkerQuiet ==
  ASSUME BotInv, NEW w \in Workers,
         \/ \E b \in Bots : Poll(w, b)
         \/ NoQuote(w)
         \/ \E price \in Prices, signal \in Signals : Quote(w, price, signal)
         \/ Skip(w) \/ NoPrediction(w) \/ ExitRefused(w) \/ Crash(w)
  PROVE  BotInv'
<1>1. UNCHANGED <<pvars, bots, positions, decisions, candle>>
  BY DEF Poll, NoQuote, Quote, Skip, NoPrediction, ExitRefused, Crash
<1>2. BotTypes
  BY DEF BotInv
<1>3. \E j \in Job : job' = [job EXCEPT ![w] = j]
  <2>1. ASSUME NEW b \in Bots, Poll(w, b) PROVE \E j \in Job : job' = [job EXCEPT ![w] = j]
    <3>1. bots[b].revision \in Nat
      BY <1>2 DEF BotTypes
    <3>2. [pc |-> "quote", bot |-> b, revision |-> bots[b].revision] \in Job
      BY <3>1 DEF Job
    <3> QED BY <2>1, <3>2 DEF Poll
  <2>2. ASSUME NEW price \in Prices, NEW signal \in Signals, Quote(w, price, signal)
        PROVE  \E j \in Job : job' = [job EXCEPT ![w] = j]
    <3>1. job[w].bot \in Bots /\ job[w].revision \in Nat
      BY <1>2, <2>2, JobFields DEF Quote
    <3>2. candle \in Nat
      BY <1>2 DEF BotTypes
    <3>3. [pc |-> "tick", bot |-> job[w].bot, revision |-> job[w].revision,
           price |-> price, signal |-> signal, candle |-> candle] \in Job
      BY <3>1, <3>2 DEF Job
    <3> QED BY <2>2, <3>3 DEF Quote
  <2>3. CASE NoQuote(w) \/ NoPrediction(w) \/ ExitRefused(w)
    <3>1. job[w].pc # "idle" /\ Raise(w)
      BY <2>3 DEF NoQuote, NoPrediction, ExitRefused, Ticks
    <3> QED BY <1>2, <3>1, JobFields DEF Raise
  <2>4. CASE Skip(w) \/ Crash(w)
    BY <2>4 DEF Skip, Crash, Done, Job
  <2> QED BY <2>1, <2>2, <2>3, <2>4
<1>4. BotTypes'
  BY <1>1, <1>2, <1>3, WorkerTypes
<1> QED BY <1>1, <1>4, QuietStep

LEMMA BotRowTypes ==
  ASSUME BotTypes, NEW b \in Bots,
         NEW bot \in [state: {"stopped", "running", "error"}, revision: 1 .. MaxRevision,
                      failures: 0 .. FailureLimit, due: BOOLEAN],
         bot.state = "running" => bot.failures < FailureLimit,
         bots' = [bots EXCEPT ![b] = bot],
         UNCHANGED <<positions, decisions, candle>>, job' \in [Workers -> Job]
  PROVE  BotTypes'
BY DEF BotTypes

LEMMA DoneTypes ==
  ASSUME BotTypes, NEW w \in Workers, Done(w)
  PROVE  job' \in [Workers -> Job]
BY DEF BotTypes, Done, Job

LEMMA SuccessTypes ==
  ASSUME BotTypes, NEW b \in Bots
  PROVE  /\ Success(bots[b]) \in [state: {"stopped", "running", "error"},
                                  revision: 1 .. MaxRevision,
                                  failures: 0 .. FailureLimit, due: BOOLEAN]
         /\ Success(bots[b]).state = bots[b].state
         /\ Success(bots[b]).failures < FailureLimit
<1>1. 0 \in 0 .. FailureLimit /\ 0 < FailureLimit
  BY BotAssumption
<1> QED BY <1>1 DEF BotTypes, Success

LEMMA ProcessedQuiet ==
  ASSUME BotInv, NEW w \in Workers, AlreadyProcessed(w)
  PROVE  BotInv'
<1> DEFINE b == job[w].bot
<1>1. b \in Bots /\ BotTypes
  BY JobFields DEF BotInv, AlreadyProcessed, Ticks
<1>2. /\ bots' = [bots EXCEPT ![b] = Success(bots[b])] /\ Done(w)
      /\ UNCHANGED <<pvars, positions, decisions, candle>>
  BY DEF AlreadyProcessed
<1> HIDE DEF b
<1>3. BotTypes'
  BY <1>1, <1>2, SuccessTypes, DoneTypes, BotRowTypes
<1>4. \A a \in Bots : bots'[a].state = bots[a].state
  BY <1>1, <1>2, SuccessTypes DEF BotTypes
<1> QED BY <1>2, <1>3, <1>4, QuietStep

LEMMA FailureQuiet ==
  ASSUME BotInv, NEW w \in Workers, RecordFailure(w)
  PROVE  BotInv'
<1> DEFINE b == job[w].bot
<1>1. b \in Bots /\ BotTypes
  BY JobFields DEF BotInv, RecordFailure
<1>2. Done(w) /\ UNCHANGED <<pvars, positions, decisions, candle>>
  BY DEF RecordFailure
<1>3. CASE Fresh(w)
  <2>1. bots' = [bots EXCEPT ![b] = Strike(bots[b])] /\ bots[b].state = "running"
    BY <1>3 DEF RecordFailure, Fresh
  <2>2. bots[b].failures \in Nat /\ bots[b].failures < FailureLimit /\ FailureLimit \in Nat
    BY <1>1, <2>1, BotAssumption DEF BotTypes
  <2>3. /\ Strike(bots[b]) \in [state: {"stopped", "running", "error"},
                                revision: 1 .. MaxRevision,
                                failures: 0 .. FailureLimit, due: BOOLEAN]
        /\ Strike(bots[b]).state = "running" => Strike(bots[b]).failures < FailureLimit
    <3>1. bots[b].failures + 1 \in 0 .. FailureLimit
      BY <2>2
    <3>2. bots[b] \in [state: {"stopped", "running", "error"}, revision: 1 .. MaxRevision,
                       failures: 0 .. FailureLimit, due: BOOLEAN]
      BY <1>1 DEF BotTypes
    <3> DEFINE st == IF bots[b].failures + 1 >= FailureLimit THEN "error" ELSE bots[b].state
    <3>3. Strike(bots[b]) = [bots[b] EXCEPT !.failures = @ + 1, !.due = FALSE, !.state = st]
      BY DEF Strike
    <3>4. st \in {"stopped", "running", "error"}
          /\ (st = "running" => bots[b].failures + 1 < FailureLimit)
      BY <2>1, <2>2
    <3> HIDE DEF b, st
    <3> QED BY <3>1, <3>2, <3>3, <3>4
  <2> HIDE DEF b
  <2>4. BotTypes'
    BY <1>1, <1>2, <2>1, <2>3, DoneTypes, BotRowTypes
  <2>5. \A a \in Bots : bots'[a].state # "stopped" => bots[a].state # "stopped"
    BY <1>1, <2>1 DEF BotTypes
  <2> QED BY <1>2, <2>4, <2>5, QuietStep
<1>4. CASE ~Fresh(w)
  <2>1. bots' = bots
    BY <1>4 DEF RecordFailure
  <2>2. BotTypes'
    BY <1>1, <1>2, <2>1, DoneTypes DEF BotTypes
  <2> QED BY <1>2, <2>1, <2>2, QuietStep
<1> QED BY <1>3, <1>4

LEMMA ControlQuiet ==
  ASSUME BotInv, NEW b \in Bots, Start(b) \/ Reset(b) \/ Stop(b) \/ Update(b) \/ Elapse(b)
  PROVE  BotInv'
<1>1. BotTypes /\ 0 \in 0 .. FailureLimit /\ 0 < FailureLimit
      /\ job \in [Workers -> Job] /\ MaxRevision \in Nat
  BY BotAssumption DEF BotInv, BotTypes
<1>2. bots[b] \in [state: {"stopped", "running", "error"}, revision: 1 .. MaxRevision,
                   failures: 0 .. FailureLimit, due: BOOLEAN]
  BY <1>1 DEF BotTypes
<1>3. UNCHANGED <<pvars, positions, decisions, candle, job>>
  BY DEF Start, Reset, Stop, Control, Update, Elapse
<1>4. ASSUME NEW from, NEW to \in {"stopped", "running"}, Control(b, from, to) PROVE BotInv'
  <2> DEFINE bot == [state |-> to, revision |-> bots[b].revision + 1, failures |-> 0,
                     due |-> TRUE]
  <2>1. bots' = [bots EXCEPT ![b] = bot] /\ bots[b].revision < MaxRevision /\ initial # 0
    BY <1>4 DEF Control
  <2>2. bot \in [state: {"stopped", "running", "error"}, revision: 1 .. MaxRevision,
                 failures: 0 .. FailureLimit, due: BOOLEAN]
        /\ bot.failures < FailureLimit
    BY <1>1, <1>2, <2>1
  <2> HIDE DEF bot
  <2>3. BotTypes'
    BY <1>1, <1>3, <2>1, <2>2, BotRowTypes
  <2> QED BY <1>3, <2>1, <2>3, QuietStep
<1>5. CASE Update(b)
  <2> DEFINE bot == [bots[b] EXCEPT !.revision = @ + 1]
  <2>1. bots' = [bots EXCEPT ![b] = bot] /\ bots[b].revision < MaxRevision /\ initial # 0
        /\ bots[b].state = "stopped"
    BY <1>5 DEF Update
  <2>2. bot \in [state: {"stopped", "running", "error"}, revision: 1 .. MaxRevision,
                 failures: 0 .. FailureLimit, due: BOOLEAN]
        /\ bot.state # "running"
    BY <1>1, <1>2, <2>1
  <2> HIDE DEF bot
  <2>3. BotTypes'
    BY <1>1, <1>3, <2>1, <2>2, BotRowTypes
  <2> QED BY <1>3, <2>1, <2>3, QuietStep
<1>6. CASE Elapse(b)
  <2> DEFINE bot == [bots[b] EXCEPT !.due = TRUE]
  <2>1. bots' = [bots EXCEPT ![b] = bot]
    BY <1>6 DEF Elapse
  <2>2. bot \in [state: {"stopped", "running", "error"}, revision: 1 .. MaxRevision,
                 failures: 0 .. FailureLimit, due: BOOLEAN]
        /\ bot.state = bots[b].state /\ bot.failures = bots[b].failures
    BY <1>2
  <2> HIDE DEF bot
  <2>3. bot.state = "running" => bot.failures < FailureLimit
    BY <1>1, <2>2 DEF BotTypes
  <2>4. BotTypes'
    BY <1>1, <1>3, <2>1, <2>2, <2>3, BotRowTypes
  <2>5. \A a \in Bots : bots'[a].state = bots[a].state
    BY <1>1, <2>1, <2>2 DEF BotTypes
  <2> QED BY <1>3, <2>4, <2>5, QuietStep
<1> QED BY <1>4, <1>5, <1>6 DEF Start, Reset, Stop

LEMMA CandleQuiet ==
  ASSUME BotInv, NextCandle
  PROVE  BotInv'
<1>1. BotTypes'
  BY BotAssumption DEF BotInv, BotTypes, NextCandle
<1> QED BY <1>1, QuietStep DEF NextCandle

-----------------------------------------------------------------------------
(***************************************************************************)
(* An order that is filled as it is placed: it is never pending, and what  *)
(* it needs is left by the reservations of the user's pending orders.      *)
(***************************************************************************)
LEMMA NotPending ==
  ASSUME TypeOK, NEW c \in ClientIds, c \notin Pending,
         NEW o \in Order, o.status # "pending", orders' = [orders EXCEPT ![c] = o]
  PROVE  /\ Pending' = Pending /\ \A d \in Pending : orders'[d] = orders[d]
         /\ ReservedCash' = ReservedCash
         /\ \A s : ReservedUnits(s)' = ReservedUnits(s)
<1>1. orders'[c] = o /\ \A d \in ClientIds : d # c => orders'[d] = orders[d]
  BY DEF TypeOK
<1>2. Pending' = Pending /\ \A d \in Pending : d \in ClientIds /\ orders'[d] = orders[d]
  BY <1>1 DEF Pending, WithStatus
<1>3. Buys(Pending)' = Buys(Pending) /\ \A s : SellsOf(Pending, s)' = SellsOf(Pending, s)
  BY <1>2 DEF Buys, SellsOf
<1>4. \A d \in Pending : Cost'[d] = Cost[d] /\ Units'[d] = Units[d]
  BY <1>2 DEF Cost, Units
<1>5. ReservedCash' = ReservedCash
  <2>1. Total(Buys(Pending), Cost') = Total(Buys(Pending), Cost)
    BY <1>4, TotalSame DEF Buys
  <2> QED BY <1>3, <2>1 DEF ReservedCash
<1>6. ASSUME NEW s PROVE ReservedUnits(s)' = ReservedUnits(s)
  <2>1. Total(SellsOf(Pending, s), Units') = Total(SellsOf(Pending, s), Units)
    BY <1>4, TotalSame DEF SellsOf
  <2> QED BY <1>3, <2>1 DEF ReservedUnits
<1> QED BY <1>2, <1>5, <1>6

LEMMA DirectFill ==
  ASSUME IInv, initial # 0, NEW c \in ClientIds, orders[c].status = "none",
         NEW o \in Order, o.status = "filled", o.fee < o.notional,
         o.side = "buy" => o.notional + o.fee <= cash - ReservedCash,
         o.side = "sell" => o.quantity <= holdings[o.symbol].quantity - ReservedUnits(o.symbol),
         orders' = [orders EXCEPT ![c] = o], BookFill(c, o),
         UNCHANGED <<initial, settings>>
  PROVE  /\ IInv'
         /\ \A s : ReservedUnits(s)' = ReservedUnits(s)
         /\ \A s \in Symbols : holdings'[s].quantity =
              IF s # o.symbol THEN holdings[s].quantity
              ELSE IF o.side = "buy" THEN holdings[s].quantity + o.quantity
              ELSE holdings[s].quantity - o.quantity
<1> USE DEF IInv
<1> DEFINE h == holdings[o.symbol]
           change == CashChange(o.side, o.notional, o.fee)
<1>1. /\ holdings' = [holdings EXCEPT ![o.symbol] = Filled(h, o)]
      /\ cash' = cash + change
      /\ trades' = trades \cup {[order |-> c, realized |-> Filled(h, o).realized - h.realized]}
  BY DEF BookFill
<1>2. /\ o.symbol \in Symbols /\ o.side \in {"buy", "sell"}
      /\ o.quantity \in Nat /\ o.notional \in Nat /\ o.fee \in Nat
  BY DEF Order
<1>3. h \in [quantity: Nat, basis: Nat, realized: Int] /\ cash \in Nat
  BY <1>2 DEF TypeOK
<1>4. ReservedCash \in Nat /\ \A s : ReservedUnits(s) \in Nat
  BY ReservationsNat
<1>5. /\ o.side = "buy" => o.notional + o.fee <= cash
      /\ o.side = "sell" => o.quantity <= h.quantity
  BY <1>2, <1>3, <1>4
<1>6. /\ Filled(h, o) \in [quantity: Nat, basis: Nat, realized: Int]
      /\ Filled(h, o).quantity = IF o.side = "buy" THEN h.quantity + o.quantity
                                 ELSE h.quantity - o.quantity
      /\ change = IF o.side = "buy" THEN -(o.notional + o.fee) ELSE o.notional - o.fee
      /\ cash + change \in Nat
  BY <1>5, OrderFits
<1>7. /\ ReservedCash' = ReservedCash /\ \A s : ReservedUnits(s)' = ReservedUnits(s)
  <2>1. c \notin Pending
    BY DEF Pending, WithStatus
  <2> QED BY <2>1, NotPending
<1>8. \A s \in Symbols : holdings'[s] = IF s # o.symbol THEN holdings[s] ELSE Filled(h, o)
  BY <1>1 DEF TypeOK
<1>9. \A s \in Symbols : holdings'[s].quantity =
              IF s # o.symbol THEN holdings[s].quantity
              ELSE IF o.side = "buy" THEN holdings[s].quantity + o.quantity
              ELSE holdings[s].quantity - o.quantity
  BY <1>6, <1>8
<1> HIDE DEF h, change
<1>10. TypeOK'
  <2>1. cash' \in Nat
    BY <1>1, <1>6
  <2>2. holdings' \in [Symbols -> [quantity: Nat, basis: Nat, realized: Int]]
    BY <1>1, <1>6 DEF TypeOK
  <2>3. Filled(h, o).realized - h.realized \in Int
    BY <1>3, <1>6
  <2>4. trades' \subseteq [order: ClientIds, realized: Int]
    BY <1>1, <2>3 DEF TypeOK
  <2>5. orders' \in [ClientIds -> Order \cup {Absent}]
    BY DEF TypeOK
  <2> QED BY <2>1, <2>2, <2>4, <2>5 DEF TypeOK
<1>11. CashCovered'
  <2>1. ReservedCash <= cash
    BY DEF CashCovered
  <2> QED BY <1>1, <1>2, <1>3, <1>4, <1>6, <1>7, <2>1 DEF CashCovered
<1>12. UnitsCovered'
  <2> SUFFICES ASSUME NEW s \in Symbols PROVE (ReservedUnits(s) <= holdings[s].quantity)'
    BY DEF UnitsCovered
  <2>1. /\ ReservedUnits(s) <= holdings[s].quantity /\ holdings[s].quantity \in Nat
        /\ ReservedUnits(s) \in Nat
    BY <1>4 DEF UnitsCovered, TypeOK
  <2> QED BY <1>2, <1>7, <1>9, <2>1
<1>13. FeesBelowValue' /\ UnopenedIsEmpty'
  BY DEF FeesBelowValue, UnopenedIsEmpty, TypeOK
<1> QED BY <1>7, <1>9, <1>10, <1>11, <1>12, <1>13

-----------------------------------------------------------------------------
(***************************************************************************)
(* A bot's order (executor.py fill), from a tick or a close request.       *)
(***************************************************************************)
LEMMA BotOrder ==
  ASSUME BotInv, NEW b \in Bots, NEW side \in {"buy", "sell"}, NEW price \in Prices,
         side = "sell" => Held(b), BotMayOrder(BotRequest(b, side, price))
  PROVE  LET req == BotRequest(b, side, price)
             o == NewOrder(req, "filled")
         IN  /\ o \in Order /\ o.status = "filled" /\ o.fee < o.notional
             /\ o.side = side /\ o.symbol = BotSymbol[b] /\ o.quantity = req.quantity
             /\ req.quantity = IF side = "buy" THEN BotAmount ELSE positions[b].quantity
             /\ o.side = "buy" => o.notional + o.fee <= cash - ReservedCash
             /\ o.side = "sell" =>
                  o.quantity <= holdings[o.symbol].quantity - ReservedUnits(o.symbol)
             /\ PositionAfter(b, req)
                  \in [quantity: {0, BotAmount}, stop: Nat, take: Nat, entry: 0 .. MaxCandle]
             /\ PositionAfter(b, req).quantity = IF side = "buy" THEN BotAmount ELSE 0
<1> DEFINE req == BotRequest(b, side, price)
           o == NewOrder(req, "filled")
<1>1. /\ positions[b] \in [quantity: {0, BotAmount}, stop: Nat, take: Nat, entry: 0 .. MaxCandle]
      /\ positions[b].quantity \in {0, BotAmount} /\ candle \in 1 .. MaxCandle
  BY DEF BotInv, BotTypes
<1>2. /\ req.symbol = BotSymbol[b] /\ req.side = side /\ req.price = price /\ req.fee = 0
      /\ req.quantity = IF side = "buy" THEN BotAmount ELSE positions[b].quantity
  BY DEF BotRequest
<1>3. req \in AnyRequest
  <2>1. req.quantity \in Nat \ {0}
    BY <1>1, <1>2, BotAssumption DEF Held
  <2>2. BotSymbol[b] \in Symbols /\ price \in Nat \ {0}
    BY BotAssumption, InputAssumption
  <2> QED BY <1>2, <2>1, <2>2 DEF BotRequest, AnyRequest
<1>4. OrderAllowed(req)
  BY DEF BotMayOrder
<1>5. TypeOK
  BY DEF BotInv, IInv
<1> HIDE DEF req
<1>6. o \in Order /\ req.fee < Gross(req)
  BY <1>3, <1>4, <1>5, AcceptedOrder DEF OrderAllowed
<1>7. /\ o.status = "filled" /\ o.side = req.side /\ o.symbol = req.symbol /\ o.fee = req.fee
      /\ o.quantity = req.quantity /\ o.notional = Gross(req)
      /\ o.stop = StopPrice(req) /\ o.take = TakePrice(req)
  BY DEF NewOrder
<1> HIDE DEF o
<1>8. o.side = "buy" => o.notional + o.fee <= cash - ReservedCash
  BY <1>4, <1>7 DEF OrderAllowed, BuyAllowed, CashAvailable
<1>9. o.side = "sell" => o.quantity <= holdings[o.symbol].quantity - ReservedUnits(o.symbol)
  BY <1>4, <1>7 DEF OrderAllowed, SellAllowed
<1>10. BotStop(req) \in Nat /\ BotTake(req) \in Nat
  <2>1. req.price \in Nat
    BY <1>3 DEF AnyRequest
  <2>2. /\ BotStopPct \in Nat /\ BotStopPct <= 100 /\ BotTakePct \in Nat
    BY BotAssumption
  <2>3. Threshold(req.price, -1, BotStopPct) \in Nat /\ Threshold(req.price, 1, BotTakePct) \in Nat
    BY <2>1, <2>2, ThresholdDownNat, ThresholdUpNat
  <2>4. StopPrice(req) \in Nat /\ TakePrice(req) \in Nat
    BY <1>6, <1>7 DEF Order
  <2> QED BY <2>3, <2>4 DEF BotStop, BotTake
<1>11. /\ PositionAfter(b, req)
            \in [quantity: {0, BotAmount}, stop: Nat, take: Nat, entry: 0 .. MaxCandle]
       /\ PositionAfter(b, req).quantity = IF side = "buy" THEN BotAmount ELSE 0
  <2>1. CASE side = "buy"
    <3>1. PositionAfter(b, req) = [quantity |-> BotAmount, stop |-> BotStop(req),
                                   take |-> BotTake(req), entry |-> candle]
      BY <1>2, <2>1 DEF PositionAfter
    <3>2. candle \in 0 .. MaxCandle
      BY <1>1, BotAssumption
    <3> QED BY <1>10, <2>1, <3>1, <3>2
  <2>2. CASE side = "sell"
    <3>1. PositionAfter(b, req) = NoPosition /\ 0 \in 0 .. MaxCandle
      BY <1>2, <2>2, BotAssumption DEF PositionAfter
    <3> QED BY <2>2, <3>1 DEF NoPosition
  <2> QED BY <2>1, <2>2
<1> QED BY <1>2, <1>6, <1>7, <1>8, <1>9, <1>11 DEF o, req

\* The bot's order is counted once, with its own bot and side.
LEMMA FilledByGrows ==
  ASSUME IInv, NEW b \in Bots, NEW key \in Keys, orders[<<b, key>>].status = "none",
         NEW o \in Order, o.status = "filled", orders' = [orders EXCEPT ![<<b, key>>] = o]
  PROVE  \A a \in Bots, side \in {"buy", "sell"} :
           /\ FilledBy(a, side)' = IF a = b /\ side = o.side
                                   THEN FilledBy(a, side) \cup {<<b, key>>}
                                   ELSE FilledBy(a, side)
           /\ Total(FilledBy(a, side), Units)' =
                IF a = b /\ side = o.side THEN Total(FilledBy(a, side), Units) + o.quantity
                ELSE Total(FilledBy(a, side), Units)
           /\ Total(FilledBy(a, side), Units) \in Nat
<1> DEFINE id == <<b, key>>
<1>1. id \in BotIds /\ id \in ClientIds /\ id[1] = b
  BY BotAssumption DEF BotIds
<1>2. BotIds \subseteq ClientIds
  BY BotAssumption
<1> HIDE DEF id
<1>3. orders'[id] = o /\ \A i \in BotIds : i # id => orders'[i] = orders[i]
  BY <1>1, <1>2 DEF id, IInv, TypeOK
<1>4. orders[id].status = "none"
  BY DEF id
<1> SUFFICES ASSUME NEW a \in Bots, NEW side \in {"buy", "sell"}
             PROVE  /\ FilledBy(a, side)' = IF a = b /\ side = o.side
                                            THEN FilledBy(a, side) \cup {id}
                                            ELSE FilledBy(a, side)
                    /\ Total(FilledBy(a, side), Units)' =
                         IF a = b /\ side = o.side
                         THEN Total(FilledBy(a, side), Units) + o.quantity
                         ELSE Total(FilledBy(a, side), Units)
                    /\ Total(FilledBy(a, side), Units) \in Nat
  BY DEF id
<1>5. id \notin FilledBy(a, side)
  BY <1>4 DEF FilledBy
<1>6. FilledBy(a, side)' = IF a = b /\ side = o.side
                           THEN FilledBy(a, side) \cup {id} ELSE FilledBy(a, side)
  BY <1>1, <1>3, <1>4 DEF FilledBy
<1>7. FilledBy(a, side) \subseteq Booked
  BY <1>2 DEF FilledBy, Booked, WithStatus
<1>8. IsFiniteSet(FilledBy(a, side)) /\ \A i \in FilledBy(a, side) : Units[i] \in Nat
  BY <1>7, BookedFinite, BookedOrder
<1>9. \A i \in FilledBy(a, side) : Units'[i] = Units[i]
  <2>1. \A i \in FilledBy(a, side) : i \in ClientIds /\ i \in BotIds /\ i # id
    BY <1>2, <1>5 DEF FilledBy
  <2> QED BY <1>3, <2>1 DEF Units
<1>10. Units'[id] = o.quantity /\ Units'[id] \in Nat
  BY <1>1, <1>3 DEF Units, Order
<1>11. Total(FilledBy(a, side), Units') = Total(FilledBy(a, side), Units)
  BY <1>9, TotalSame
<1>12. Total(FilledBy(a, side) \cup {id}, Units') = Total(FilledBy(a, side), Units) + o.quantity
  BY <1>5, <1>8, <1>9, <1>10, TotalGrow
<1>13. Total(FilledBy(a, side), Units) \in Nat
  BY <1>8, TotalNat
<1> QED BY <1>6, <1>11, <1>12, <1>13

LEMMA BotFillInv ==
  ASSUME BotInv, initial # 0, NEW b \in Bots, NEW side \in {"buy", "sell"},
         NEW price \in Prices, NEW key \in Keys, key \notin decisions[b],
         side = "buy" => ~Held(b) /\ key = <<"candle", candle>>,
         side = "sell" => Held(b),
         key[1] = "exit" => key = ExitKey(b) /\ side = "sell",
         BotMayOrder(BotRequest(b, side, price)),
         FillBotOrder(b, key, BotRequest(b, side, price)), Decide(b, key),
         candle' = candle, job' \in [Workers -> Job]
  PROVE  BotInv'
<1> DEFINE req == BotRequest(b, side, price)
           o == NewOrder(req, "filled")
           id == <<b, key>>
           pos == PositionAfter(b, req)
<1>1. /\ orders' = [orders EXCEPT ![id] = o] /\ BookFill(id, o)
      /\ positions' = [positions EXCEPT ![b] = pos]
      /\ UNCHANGED <<initial, settings>>
      /\ decisions' = [decisions EXCEPT ![b] = decisions[b] \cup {key}]
      /\ bots' = [bots EXCEPT ![b] = Success(bots[b])]
  BY DEF FillBotOrder, Decide
<1>2. /\ o \in Order /\ o.status = "filled" /\ o.fee < o.notional
      /\ o.side = side /\ o.symbol = BotSymbol[b]
      /\ o.quantity = IF side = "buy" THEN BotAmount ELSE positions[b].quantity
      /\ o.side = "buy" => o.notional + o.fee <= cash - ReservedCash
      /\ o.side = "sell" => o.quantity <= holdings[o.symbol].quantity - ReservedUnits(o.symbol)
      /\ pos \in [quantity: {0, BotAmount}, stop: Nat, take: Nat, entry: 0 .. MaxCandle]
      /\ pos.quantity = IF side = "buy" THEN BotAmount ELSE 0
  BY BotOrder
<1>3. side = "buy" => pos.entry = candle
  BY DEF PositionAfter, BotRequest
<1>4. IInv /\ BotTypes /\ TypeOK
  BY DEF BotInv, IInv
<1>5. /\ positions \in [Bots -> [quantity: {0, BotAmount}, stop: Nat, take: Nat,
                                 entry: 0 .. MaxCandle]]
      /\ positions[b].quantity \in Nat /\ BotAmount \in Nat \ {0}
      /\ decisions \in [Bots -> SUBSET Keys]
      /\ candle \in 1 .. MaxCandle
  BY <1>4, BotAssumption DEF BotTypes
<1> HIDE DEF req, o, pos, id
<1>6. /\ id \in BotIds /\ id \in ClientIds /\ BotIds \subseteq ClientIds
      /\ \A a \in Bots, k \in Keys : <<a, k>> = id <=> a = b /\ k = key
  BY BotAssumption DEF BotIds, id
<1>7. orders[id].status = "none"
  BY DEF BotInv, BotBooks, OrdersDecided, id
<1>8. positions'[b] = pos /\ \A a \in Bots : a # b => positions'[a] = positions[a]
  BY <1>1, <1>5
<1>9. /\ decisions'[b] = decisions[b] \cup {key}
      /\ \A a \in Bots : a # b => decisions'[a] = decisions[a]
  BY <1>1, <1>5
<1>10. orders'[id] = o /\ \A i \in ClientIds : i # id => orders'[i] = orders[i]
  BY <1>1, <1>4, <1>6 DEF TypeOK
<1>11. /\ IInv'
       /\ \A s : ReservedUnits(s)' = ReservedUnits(s)
       /\ \A s \in Symbols : holdings'[s].quantity =
            IF s # o.symbol THEN holdings[s].quantity
            ELSE IF o.side = "buy" THEN holdings[s].quantity + o.quantity
            ELSE holdings[s].quantity - o.quantity
  BY <1>1, <1>2, <1>4, <1>6, <1>7, DirectFill
<1>12. BotTypes'
  <2>1. positions' \in [Bots -> [quantity: {0, BotAmount}, stop: Nat, take: Nat,
                                 entry: 0 .. MaxCandle]]
    BY <1>1, <1>2, <1>5
  <2>2. decisions' \in [Bots -> SUBSET Keys]
    BY <1>1, <1>5
  <2>3. /\ bots' \in [Bots -> [state: {"stopped", "running", "error"},
                               revision: 1 .. MaxRevision, failures: 0 .. FailureLimit,
                               due: BOOLEAN]]
        /\ \A a \in Bots : bots'[a].state = "running" => bots'[a].failures < FailureLimit
    BY <1>1, <1>4, SuccessTypes DEF BotTypes
  <2> QED BY <1>5, <2>1, <2>2, <2>3 DEF BotTypes
<1>13. UnitsManaged'
  <2> SUFFICES ASSUME NEW a \in Bots
               PROVE  positions'[a].quantity + ReservedUnits(BotSymbol[a])'
                        <= holdings'[BotSymbol[a]].quantity
    BY DEF UnitsManaged
  <2>1. /\ positions[a].quantity + ReservedUnits(BotSymbol[a])
             <= holdings[BotSymbol[a]].quantity
        /\ BotSymbol[a] \in Symbols /\ BotSymbol[b] \in Symbols
        /\ a # b => BotSymbol[a] # BotSymbol[b]
    BY BotAssumption DEF BotInv, UnitsManaged
  <2>2. ReservedUnits(BotSymbol[a]) \in Nat /\ holdings[BotSymbol[a]].quantity \in Nat
    BY <1>4, <2>1, ReservationsNat DEF TypeOK
  <2>3. ReservedUnits(BotSymbol[a])' = ReservedUnits(BotSymbol[a])
    BY <1>11
  <2>4. CASE a # b
    <3>1. /\ positions'[a] = positions[a]
          /\ holdings'[BotSymbol[a]].quantity = holdings[BotSymbol[a]].quantity
      BY <1>2, <1>8, <1>11, <2>1, <2>4
    <3> QED BY <2>1, <2>3, <3>1
  <2>5. CASE a = b /\ side = "buy"
    <3>1. positions[b].quantity = 0
      BY <1>5, <2>5 DEF Held
    <3>2. holdings'[BotSymbol[a]].quantity = holdings[BotSymbol[a]].quantity + BotAmount
      BY <1>2, <1>11, <2>1, <2>5
    <3>3. positions'[a].quantity = BotAmount
      BY <1>2, <1>8, <2>5
    <3> QED BY <1>5, <2>1, <2>2, <2>3, <2>5, <3>1, <3>2, <3>3
  <2>6. CASE a = b /\ side = "sell"
    <3>1. holdings'[BotSymbol[a]].quantity
            = holdings[BotSymbol[a]].quantity - positions[b].quantity
      BY <1>2, <1>11, <2>1, <2>6
    <3>2. positions'[a].quantity = 0
      BY <1>2, <1>8, <2>6
    <3> QED BY <1>5, <2>1, <2>2, <2>3, <2>6, <3>1, <3>2
  <2> QED BY <2>4, <2>5, <2>6
<1>14. Held(b)' <=> side = "buy"
  BY <1>2, <1>5, <1>8 DEF Held
<1>15. PositionMatchesOrders'
  <2> SUFFICES ASSUME NEW a \in Bots
               PROVE  /\ positions'[a].quantity + Total(FilledBy(a, "sell"), Units)'
                           = Total(FilledBy(a, "buy"), Units)'
                      /\ Held(a)' => <<a, <<"candle", positions'[a].entry>>>>
                                      \in FilledBy(a, "buy")'
    BY DEF PositionMatchesOrders
  <2>1. \A sd \in {"buy", "sell"} :
           /\ FilledBy(a, sd)' = IF a = b /\ sd = side THEN FilledBy(a, sd) \cup {id}
                                 ELSE FilledBy(a, sd)
           /\ Total(FilledBy(a, sd), Units)' =
                IF a = b /\ sd = side THEN Total(FilledBy(a, sd), Units) + o.quantity
                ELSE Total(FilledBy(a, sd), Units)
           /\ Total(FilledBy(a, sd), Units) \in Nat
    <3>1. /\ orders[<<b, key>>].status = "none" /\ id = <<b, key>>
          /\ orders' = [orders EXCEPT ![<<b, key>>] = o]
      BY <1>1, <1>7 DEF id
    <3>2. \A sd \in {"buy", "sell"} :
             /\ FilledBy(a, sd)' = IF a = b /\ sd = o.side
                                   THEN FilledBy(a, sd) \cup {<<b, key>>}
                                   ELSE FilledBy(a, sd)
             /\ Total(FilledBy(a, sd), Units)' =
                  IF a = b /\ sd = o.side THEN Total(FilledBy(a, sd), Units) + o.quantity
                  ELSE Total(FilledBy(a, sd), Units)
             /\ Total(FilledBy(a, sd), Units) \in Nat
      BY <1>2, <1>4, <3>1, FilledByGrows
    <3> QED BY <1>2, <3>1, <3>2
  <2>2. /\ positions[a].quantity + Total(FilledBy(a, "sell"), Units)
             = Total(FilledBy(a, "buy"), Units)
        /\ Held(a) => <<a, <<"candle", positions[a].entry>>>> \in FilledBy(a, "buy")
    BY DEF BotInv, BotBooks, PositionMatchesOrders
  <2>3. CASE a # b
    BY <1>8, <2>1, <2>2, <2>3 DEF Held
  <2>4. CASE a = b /\ side = "buy"
    <3>1. positions[b].quantity = 0 /\ positions'[a].quantity = BotAmount
      BY <1>2, <1>5, <1>8, <2>4 DEF Held
    <3>2. positions'[a].quantity + Total(FilledBy(a, "sell"), Units)'
            = Total(FilledBy(a, "buy"), Units)'
      BY <1>2, <1>5, <2>1, <2>2, <2>4, <3>1
    <3>3. <<a, <<"candle", positions'[a].entry>>>> = id
      BY <1>3, <1>8, <2>4 DEF id
    <3> QED BY <2>1, <2>4, <3>2, <3>3
  <2>5. CASE a = b /\ side = "sell"
    <3>1. positions'[a].quantity = 0
      BY <1>2, <1>8, <2>5
    <3>2. positions'[a].quantity + Total(FilledBy(a, "sell"), Units)'
            = Total(FilledBy(a, "buy"), Units)'
      BY <1>2, <1>5, <2>1, <2>2, <2>5, <3>1
    <3> QED BY <1>14, <2>5, <3>2
  <2> QED BY <2>3, <2>4, <2>5
<1>16. ExitStaysOpen'
  <2> SUFFICES ASSUME NEW a \in Bots, Held(a)' PROVE ExitKey(a)' \notin decisions'[a]
    BY DEF ExitStaysOpen
  <2>1. CASE a # b
    BY <1>8, <1>9, <2>1 DEF BotInv, BotBooks, ExitStaysOpen, ExitKey, Held
  <2>2. CASE a = b
    <3>1. side = "buy" /\ key = <<"candle", candle>> /\ <<"candle", candle>> \notin decisions[b]
      BY <1>14, <2>2
    <3>2. <<"exit", candle>> \notin decisions[b]
      BY <1>5, <3>1 DEF BotInv, BotBooks, EntriesFirst
    <3>3. ExitKey(a)' = <<"exit", candle>>
      BY <1>3, <1>8, <2>2, <3>1 DEF ExitKey
    <3> QED BY <1>9, <2>2, <3>1, <3>2, <3>3
  <2> QED BY <2>1, <2>2
<1>17. OrdersDecided'
  <2> SUFFICES ASSUME NEW a \in Bots, NEW k \in Keys, orders'[<<a, k>>].status # "none"
               PROVE  orders'[<<a, k>>].status = "filled" /\ k \in decisions'[a]
    BY DEF OrdersDecided
  <2>1. CASE <<a, k>> = id
    BY <1>2, <1>6, <1>9, <1>10, <2>1
  <2>2. CASE <<a, k>> # id
    <3>1. orders'[<<a, k>>] = orders[<<a, k>>]
      BY <1>6, <1>10, <2>2 DEF BotIds
    <3>2. orders[<<a, k>>].status = "filled" /\ k \in decisions[a]
      BY <3>1 DEF BotInv, BotBooks, OrdersDecided
    <3> QED BY <1>9, <3>1, <3>2
  <2> QED BY <2>1, <2>2
<1>18. EntriesFirst'
  <2> SUFFICES ASSUME NEW a \in Bots, NEW n \in 1 .. MaxCandle, <<"exit", n>> \in decisions'[a]
               PROVE  <<"candle", n>> \in decisions'[a]
    BY DEF EntriesFirst
  <2>1. CASE <<"exit", n>> \in decisions[a]
    BY <1>9, <2>1 DEF BotInv, BotBooks, EntriesFirst
  <2>2. CASE <<"exit", n>> \notin decisions[a]
    <3>1. a = b /\ key = <<"exit", n>>
      BY <1>9, <2>2
    <3>2. key = ExitKey(b) /\ Held(b)
      BY <3>1
    <3>3. positions[b].entry = n
      BY <3>1, <3>2 DEF ExitKey
    <3>4. <<b, <<"candle", n>>>> \in FilledBy(b, "buy")
      BY <3>2, <3>3 DEF BotInv, BotBooks, PositionMatchesOrders
    <3>5. <<"candle", n>> \in Keys /\ orders[<<b, <<"candle", n>>>>].status = "filled"
      BY <3>4 DEF FilledBy, Keys
    <3>6. <<"candle", n>> \in decisions[b]
      BY <3>5 DEF BotInv, BotBooks, OrdersDecided
    <3> QED BY <1>9, <3>1, <3>6
  <2> QED BY <2>1, <2>2
<1>19. NothingBeforeOpening'
  BY <1>1 DEF NothingBeforeOpening
<1> QED BY <1>11, <1>12, <1>13, <1>15, <1>16, <1>17, <1>18, <1>19 DEF BotInv, BotBooks

-----------------------------------------------------------------------------
(***************************************************************************)
(* A worker's tick and a close request.                                    *)
(***************************************************************************)
LEMMA TickSide ==
  ASSUME BotInv, NEW w \in Workers, Ticks(w), Key(w) \notin decisions[job[w].bot]
  PROVE  LET b == job[w].bot
         IN  /\ b \in Bots /\ job[w].price \in Prices /\ bots[b].state = "running"
             /\ Side(w) \in {"buy", "sell", "hold"} /\ Key(w) \in Keys
             /\ Key(w)[1] = "candle" => Key(w) = <<"candle", candle>>
             /\ Key(w)[1] = "exit" => Key(w) = ExitKey(b) /\ Side(w) = "sell"
             /\ Side(w) = "sell" => Held(b)
             /\ Side(w) = "buy" => ~Held(b) /\ Key(w) = <<"candle", candle>>
<1> DEFINE b == job[w].bot
<1>1. /\ b \in Bots /\ job[w].price \in Prices /\ job[w].signal \in Signals
      /\ bots[b].state = "running"
  BY JobFields DEF BotInv, Ticks, Fresh
<1>2. candle \in 1 .. MaxCandle
  BY DEF BotInv, BotTypes
<1>3. CASE ExitDue(b, job[w].price)
  <2>1. Side(w) = "sell" /\ Key(w) = ExitKey(b) /\ Held(b)
    BY <1>3 DEF Side, Key, ExitDue
  <2>2. <<b, <<"candle", positions[b].entry>>>> \in BotIds
    BY <1>1, <2>1 DEF BotInv, BotBooks, PositionMatchesOrders, FilledBy
  <2>3. positions[b].entry \in 1 .. MaxCandle
    BY <2>2 DEF BotIds, Keys
  <2>4. ExitKey(b) \in Keys /\ ExitKey(b)[1] = "exit"
    BY <2>3 DEF ExitKey, Keys
  <2> QED BY <1>1, <2>1, <2>4
<1>4. CASE ~ExitDue(b, job[w].price)
  <2>1. Key(w) = <<"candle", candle>> /\ Key(w) \in Keys /\ Key(w)[1] = "candle"
    BY <1>2, <1>4 DEF Key, Keys
  <2>2. job[w].signal # "none"
    BY <1>4 DEF Ticks, Usable
  <2>3. Side(w) = IF (job[w].signal = "buy" /\ Held(b)) \/ (job[w].signal = "sell" /\ ~Held(b))
                  THEN "hold" ELSE job[w].signal
    BY <1>4 DEF Side
  <2>4. job[w].signal \in {"buy", "sell", "hold"}
    BY <1>1, <2>2 DEF Signals
  <2>5. /\ Side(w) \in {"buy", "sell", "hold"}
        /\ Side(w) = "sell" => Held(b)
        /\ Side(w) = "buy" => ~Held(b)
    BY <2>3, <2>4
  <2> QED BY <1>1, <2>1, <2>5
<1> QED BY <1>3, <1>4

\* Nothing runs or is held before the portfolio is opened.
LEMMA OpenedFirst ==
  ASSUME BotInv, NEW b \in Bots, bots[b].state = "running" \/ Held(b)
  PROVE  initial # 0
BY DEF BotInv, NothingBeforeOpening

LEMMA TradeInv ==
  ASSUME BotInv, NEW w \in Workers, Trade(w)
  PROVE  BotInv'
<1> DEFINE b == job[w].bot
           side == Side(w)
           key == Key(w)
           price == job[w].price
<1>1. /\ Ticks(w) /\ key \notin decisions[b] /\ side # "hold"
      /\ BotMayOrder(BotRequest(b, side, price))
      /\ FillBotOrder(b, key, BotRequest(b, side, price)) /\ Decide(b, key)
      /\ Done(w) /\ candle' = candle
  BY DEF Trade
<1>2. /\ b \in Bots /\ price \in Prices /\ bots[b].state = "running"
      /\ side \in {"buy", "sell"} /\ key \in Keys
      /\ key[1] = "exit" => key = ExitKey(b) /\ side = "sell"
      /\ side = "sell" => Held(b)
      /\ side = "buy" => ~Held(b) /\ key = <<"candle", candle>>
  BY <1>1, TickSide
<1>3. initial # 0
  BY <1>2, OpenedFirst
<1>4. job' \in [Workers -> Job]
  BY <1>1, DoneTypes DEF BotInv
<1> HIDE DEF b, side, key, price
<1> QED BY <1>1, <1>2, <1>3, <1>4, BotFillInv

LEMMA CloseInv ==
  ASSUME BotInv, NEW b \in Bots, NEW price \in Prices, ClosePosition(b, price)
  PROVE  BotInv'
<1> DEFINE key == ExitKey(b)
<1>1. /\ Held(b) /\ key \notin decisions[b]
      /\ BotMayOrder(BotRequest(b, "sell", price))
      /\ FillBotOrder(b, key, BotRequest(b, "sell", price)) /\ Decide(b, key)
      /\ UNCHANGED <<candle, job>>
  BY DEF ClosePosition
<1>2. <<b, <<"candle", positions[b].entry>>>> \in BotIds
  BY <1>1 DEF BotInv, BotBooks, PositionMatchesOrders, FilledBy
<1>3. key \in Keys
  BY <1>2 DEF ExitKey, Keys, BotIds
<1>4. initial # 0
  BY <1>1, OpenedFirst
<1>5. job' \in [Workers -> Job]
  BY <1>1 DEF BotInv, BotTypes
<1>6. key = ExitKey(b)
  OBVIOUS
<1> HIDE DEF key
<1>7. "sell" \in {"buy", "sell"} /\ candle' = candle
  BY <1>1
<1> QED BY <1>1, <1>3, <1>4, <1>5, <1>6, <1>7, BotFillInv

LEMMA DecideOnlyInv ==
  ASSUME BotInv, NEW w \in Workers, DecideOnly(w)
  PROVE  BotInv'
<1> DEFINE b == job[w].bot
           key == Key(w)
<1>1. /\ Ticks(w) /\ key \notin decisions[b]
      /\ decisions' = [decisions EXCEPT ![b] = decisions[b] \cup {key}]
      /\ bots' = [bots EXCEPT ![b] = Success(bots[b])]
      /\ Done(w) /\ UNCHANGED <<pvars, positions, candle>>
      /\ Side(w) = "hold" \/ key[1] = "candle"
  BY DEF DecideOnly, Decide
<1>2. b \in Bots /\ key \in Keys /\ (Side(w) = "hold" => key[1] # "exit")
  BY <1>1, TickSide
<1>3. key[1] = "candle"
  BY <1>1, <1>2 DEF Keys
<1> HIDE DEF b, key
<1>4. BotTypes /\ IInv
  BY DEF BotInv
<1>5. BotTypes'
  <2>1. job' \in [Workers -> Job]
    BY <1>1, <1>4, DoneTypes
  <2>2. decisions' \in [Bots -> SUBSET Keys]
    BY <1>1, <1>2, <1>4 DEF BotTypes
  <2>3. /\ bots' \in [Bots -> [state: {"stopped", "running", "error"},
                               revision: 1 .. MaxRevision, failures: 0 .. FailureLimit,
                               due: BOOLEAN]]
        /\ \A a \in Bots : bots'[a].state = "running" => bots'[a].failures < FailureLimit
    BY <1>1, <1>2, <1>4, SuccessTypes DEF BotTypes
  <2> QED BY <1>1, <1>4, <2>1, <2>2, <2>3 DEF BotTypes
<1>6. IInv'
  BY <1>1, <1>4, NextIInv DEF pvars
<1>7. UnitsManaged'
  BY <1>1, OrdersStay DEF BotInv, UnitsManaged, pvars
<1>8. /\ \A a \in Bots : decisions[a] \subseteq decisions'[a]
      /\ \A a \in Bots : \A k \in decisions'[a] : k \in decisions[a] \/ k[1] = "candle"
  BY <1>1, <1>3, <1>4 DEF BotTypes
<1>9. PositionMatchesOrders'
  <2>1. \A a, side : FilledBy(a, side)' = FilledBy(a, side)
    BY <1>1 DEF FilledBy, pvars
  <2>2. Units' = Units
    BY <1>1 DEF Units, pvars
  <2> QED BY <1>1, <2>1, <2>2 DEF BotInv, BotBooks, PositionMatchesOrders, Held
<1>10. ExitStaysOpen'
  <2> SUFFICES ASSUME NEW a \in Bots, Held(a)' PROVE ExitKey(a)' \notin decisions'[a]
    BY DEF ExitStaysOpen
  <2>1. ExitKey(a)' = ExitKey(a) /\ Held(a) /\ ExitKey(a)[1] = "exit"
    BY <1>1 DEF ExitKey, Held
  <2>2. ExitKey(a) \notin decisions[a]
    BY <2>1 DEF BotInv, BotBooks, ExitStaysOpen
  <2> QED BY <1>8, <2>1, <2>2
<1>11. OrdersDecided'
  BY <1>1, <1>8 DEF BotInv, BotBooks, OrdersDecided, pvars
<1>12. EntriesFirst'
  <2> SUFFICES ASSUME NEW a \in Bots, NEW n \in 1 .. MaxCandle, <<"exit", n>> \in decisions'[a]
               PROVE  <<"candle", n>> \in decisions'[a]
    BY DEF EntriesFirst
  <2>1. <<"exit", n>> \in decisions[a]
    BY <1>8
  <2> QED BY <1>8, <2>1 DEF BotInv, BotBooks, EntriesFirst
<1>13. NothingBeforeOpening'
  <2>1. \A a \in Bots : bots'[a].state = bots[a].state
    BY <1>1, <1>2, <1>4, SuccessTypes DEF BotTypes
  <2> QED BY <1>1, <2>1 DEF BotInv, NothingBeforeOpening, Held, pvars
<1> QED BY <1>5, <1>6, <1>7, <1>9, <1>10, <1>11, <1>12, <1>13 DEF BotInv, BotBooks

-----------------------------------------------------------------------------
(***************************************************************************)
(* The user's own orders.  They have other ids than the bots' orders, and  *)
(* a sale leaves the units of the bot of its symbol.                       *)
(***************************************************************************)
LEMMA ManagedUnits ==
  ASSUME BotTypes, NEW b \in Bots
  PROVE  Managed(BotSymbol[b]) = positions[b].quantity /\ positions[b].quantity \in Nat
<1> DEFINE f == [a \in Bots |-> positions[a].quantity]
<1>1. {a \in Bots : BotSymbol[a] = BotSymbol[b]} = {} \cup {b}
  BY BotAssumption
<1>2. positions[b].quantity \in Nat /\ f[b] = positions[b].quantity
  BY BotAssumption DEF BotTypes
<1> HIDE DEF f
<1>3. Total({} \cup {b}, f) = Total({}, f) + f[b]
  BY <1>2, FS_EmptySet, TotalAdd
<1>4. Total({}, f) = 0
  BY TotalEmpty
<1> QED BY <1>1, <1>2, <1>3, <1>4 DEF Managed, f

LEMMA UserQuiet ==
  ASSUME BotInv, IInv', UnitsManaged', UNCHANGED bvars, initial' = 0 => initial = 0,
         \A i \in BotIds : orders'[i] = orders[i]
  PROVE  BotInv'
<1>1. BotTypes'
  BY DEF BotInv, BotTypes, bvars
<1>2. \A b, side : FilledBy(b, side)' = FilledBy(b, side)
  BY DEF FilledBy
<1>3. ASSUME NEW b \in Bots, NEW side
      PROVE  Total(FilledBy(b, side), Units)' = Total(FilledBy(b, side), Units)
  <2>1. \A i \in FilledBy(b, side) : Units'[i] = Units[i]
    BY BotAssumption DEF FilledBy, Units
  <2> QED BY <1>2, <2>1, TotalSame
<1>4. PositionMatchesOrders'
  BY <1>2, <1>3 DEF BotInv, BotBooks, PositionMatchesOrders, Held, bvars
<1>5. ExitStaysOpen' /\ EntriesFirst'
  BY DEF BotInv, BotBooks, ExitStaysOpen, EntriesFirst, Held, ExitKey, bvars
<1>6. OrdersDecided'
  BY DEF BotInv, BotBooks, OrdersDecided, BotIds, bvars
<1>7. NothingBeforeOpening'
  BY DEF BotInv, NothingBeforeOpening, Held, bvars
<1> QED BY <1>1, <1>4, <1>5, <1>6, <1>7 DEF BotInv, BotBooks

\* What the units of the bots need: no more is taken from a holding than from its reserve.
LEMMA UnitsStayManaged ==
  ASSUME BotInv, UNCHANGED positions, TypeOK', \A s : ReservedUnits(s)' \in Int,
         \A b \in Bots : holdings[BotSymbol[b]].quantity - ReservedUnits(BotSymbol[b])
                           <= holdings'[BotSymbol[b]].quantity - ReservedUnits(BotSymbol[b])'
  PROVE  UnitsManaged'
<1> SUFFICES ASSUME NEW b \in Bots
             PROVE  positions[b].quantity + ReservedUnits(BotSymbol[b])'
                      <= holdings'[BotSymbol[b]].quantity
  BY DEF UnitsManaged
<1>1. BotSymbol[b] \in Symbols /\ positions[b].quantity \in Nat
  BY BotAssumption, ManagedUnits DEF BotInv
<1>2. /\ holdings[BotSymbol[b]].quantity \in Nat /\ holdings'[BotSymbol[b]].quantity \in Nat
      /\ ReservedUnits(BotSymbol[b]) \in Nat
  BY <1>1, ReservationsNat DEF BotInv, IInv, TypeOK
<1>3. ReservedUnits(BotSymbol[b])' \in Int
  OBVIOUS
<1>4. positions[b].quantity + ReservedUnits(BotSymbol[b]) <= holdings[BotSymbol[b]].quantity
  BY DEF BotInv, UnitsManaged
<1> QED BY <1>1, <1>2, <1>3, <1>4

LEMMA UserReserveInv ==
  ASSUME BotInv, NEW c \in ClientIds \ BotIds, NEW req \in Request,
         Reserve(c, req, Managed(req.symbol)), UNCHANGED bvars
  PROVE  BotInv'
<1> DEFINE o == NewOrder(req, "pending")
<1>1. /\ orders[c].status = "none" /\ OrderAllowed(req)
      /\ req.side = "sell" => UnmanagedAvailable(req, Managed(req.symbol))
      /\ orders' = [orders EXCEPT ![c] = o]
      /\ UNCHANGED <<initial, cash, settings, holdings, trades>>
  BY DEF Reserve
<1>2. IInv' /\ TypeOK
  BY ReserveIInv DEF BotInv, IInv
<1>3. /\ o \in Order /\ o.status = "pending" /\ o.side = req.side /\ o.symbol = req.symbol
      /\ o.quantity = req.quantity
  BY <1>1, <1>2, UserRequest, AcceptedOrder DEF OrderAllowed, NewOrder
<1> HIDE DEF o
<1>4. \A i \in BotIds : orders'[i] = orders[i]
  BY <1>1, <1>2, BotAssumption DEF TypeOK
<1>5. UnitsManaged'
  <2> SUFFICES ASSUME NEW b \in Bots
               PROVE  positions[b].quantity + ReservedUnits(BotSymbol[b])'
                        <= holdings[BotSymbol[b]].quantity
    BY <1>1 DEF UnitsManaged, bvars
  <2>1. /\ BotSymbol[b] \in Symbols
        /\ Managed(BotSymbol[b]) = positions[b].quantity /\ positions[b].quantity \in Nat
    BY BotAssumption, ManagedUnits DEF BotInv
  <2>2. /\ holdings[BotSymbol[b]].quantity \in Nat /\ ReservedUnits(BotSymbol[b]) \in Nat
        /\ o.quantity \in Nat
    BY <1>2, <1>3, <2>1, ReservationsNat DEF TypeOK, Order
  <2>3. ReservedUnits(BotSymbol[b])' = IF o.side = "sell" /\ o.symbol = BotSymbol[b]
                                       THEN ReservedUnits(BotSymbol[b]) + o.quantity
                                       ELSE ReservedUnits(BotSymbol[b])
    BY <1>1, <1>2, <1>3, Joined
  <2>4. positions[b].quantity + ReservedUnits(BotSymbol[b]) <= holdings[BotSymbol[b]].quantity
    BY DEF BotInv, UnitsManaged
  <2>5. CASE o.side = "sell" /\ o.symbol = BotSymbol[b]
    <3>1. positions[b].quantity > 0 =>
            o.quantity <= holdings[BotSymbol[b]].quantity - positions[b].quantity
                            - ReservedUnits(BotSymbol[b])
      BY <1>1, <1>3, <2>1, <2>5 DEF UnmanagedAvailable
    <3>2. o.quantity <= holdings[BotSymbol[b]].quantity - ReservedUnits(BotSymbol[b])
      BY <1>1, <1>3, <2>5 DEF OrderAllowed, SellAllowed
    <3> QED BY <2>1, <2>2, <2>3, <2>5, <3>1, <3>2
  <2>6. CASE ~(o.side = "sell" /\ o.symbol = BotSymbol[b])
    BY <2>3, <2>4, <2>6
  <2> QED BY <2>5, <2>6
<1> QED BY <1>1, <1>2, <1>4, <1>5, UserQuiet

LEMMA UserCompletionInv ==
  ASSUME BotInv, NEW c \in ClientIds \ BotIds, Fill(c) \/ Cancel(c), UNCHANGED bvars
  PROVE  BotInv'
<1> DEFINE o == orders[c]
<1>1. PICK st \in {"filled", "cancelled"} : orders' = [orders EXCEPT ![c].status = st]
  BY DEF Fill, Cancel
<1>2. o.status = "pending" /\ c \in Pending /\ initial' = initial
  BY DEF Fill, Cancel, Completable, Pending, WithStatus
<1>3. IInv /\ IInv' /\ TypeOK /\ TypeOK'
  BY FillIInv, CancelIInv DEF BotInv, IInv
<1>4. \A i \in BotIds : orders'[i] = orders[i]
  BY <1>1, <1>3, BotAssumption DEF TypeOK
<1>5. o \in Order /\ o.quantity \in Nat
  BY <1>2, <1>3, PlacedOrder DEF Order
<1>6. \A s : ReservedUnits(s)' = IF o.side = "sell" /\ o.symbol = s
                                 THEN ReservedUnits(s) - o.quantity ELSE ReservedUnits(s)
  BY <1>1, <1>2, <1>3, Released
<1>7. ASSUME NEW s \in Symbols
      PROVE  holdings[s].quantity - ReservedUnits(s)
               <= holdings'[s].quantity - ReservedUnits(s)'
  <2>1. holdings[s].quantity \in Nat /\ ReservedUnits(s) \in Nat
    BY <1>3, ReservationsNat DEF TypeOK
  <2>2. CASE Cancel(c)
    <3>1. holdings' = holdings
      BY <2>2 DEF Cancel
    <3> QED BY <1>5, <1>6, <2>1, <3>1
  <2>3. CASE Fill(c)
    <3>1. /\ holdings' = [holdings EXCEPT ![o.symbol] = Filled(holdings[o.symbol], o)]
          /\ Filled(holdings[o.symbol], o).quantity =
               IF o.side = "buy" THEN holdings[o.symbol].quantity + o.quantity
               ELSE holdings[o.symbol].quantity - o.quantity
      BY <1>2, <1>3, <2>3, FillFits DEF Fill, BookFill
    <3>2. holdings'[s] = IF s = o.symbol THEN Filled(holdings[o.symbol], o) ELSE holdings[s]
      BY <1>3, <3>1 DEF TypeOK
    <3>3. o.side \in {"buy", "sell"}
      BY <1>5 DEF Order
    <3> HIDE DEF o
    <3>4. CASE s = o.symbol
      BY <1>5, <1>6, <2>1, <3>1, <3>2, <3>3, <3>4
    <3>5. CASE s # o.symbol
      BY <1>6, <2>1, <3>2, <3>5
    <3> QED BY <3>4, <3>5
  <2> QED BY <2>2, <2>3
<1>8. UnitsManaged'
  <2>1. \A b \in Bots : BotSymbol[b] \in Symbols
    BY BotAssumption
  <2>2. \A s : ReservedUnits(s)' \in Int
    BY <1>3, <1>5, <1>6, ReservationsNat
  <2> QED BY <1>3, <1>7, <2>1, <2>2, UnitsStayManaged DEF bvars
<1> QED BY <1>2, <1>3, <1>4, <1>8, UserQuiet

LEMMA UserInv ==
  ASSUME BotInv, UserTrades
  PROVE  BotInv'
<1>1. UNCHANGED bvars /\ IInv
  BY DEF UserTrades, BotInv
<1>2. ASSUME NEW amount \in InitialAmounts, Create(amount) PROVE BotInv'
  <2>1. IInv' /\ amount # 0
    BY <1>1, <1>2, CreateIInv, InputAssumption
  <2>2. UnitsManaged'
    BY <1>1, <1>2, OrdersStay DEF Create, BotInv, UnitsManaged, bvars
  <2> QED BY <1>1, <1>2, <2>1, <2>2, UserQuiet DEF Create
<1>3. ASSUME NEW s \in SettingsChoices, ChangeSettings(s) PROVE BotInv'
  <2>1. IInv'
    BY <1>1, <1>3, ChangeSettingsIInv
  <2>2. UnitsManaged'
    BY <1>1, <1>3, OrdersStay DEF ChangeSettings, BotInv, UnitsManaged, bvars
  <2> QED BY <1>1, <1>3, <2>1, <2>2, UserQuiet DEF ChangeSettings
<1> QED BY <1>1, <1>2, <1>3, UserReserveInv, UserCompletionInv DEF UserTrades

-----------------------------------------------------------------------------
LEMMA StutterInv ==
  ASSUME BotInv, UNCHANGED vars
  PROVE  BotInv'
<1>1. BotTypes'
  BY DEF BotInv, BotTypes, vars, bvars
<1> QED BY <1>1, QuietStep DEF vars, bvars

LEMMA BotStep == BotInv /\ [BotNext]_vars => BotInv'
<1> SUFFICES ASSUME BotInv, [BotNext]_vars PROVE BotInv'
  OBVIOUS
<1>1. ASSUME NEW w \in Workers, NEW b \in Bots, Poll(w, b) PROVE BotInv'
  BY <1>1, WorkerQuiet
<1>2. ASSUME NEW w \in Workers, Serve(w) PROVE BotInv'
  BY <1>2, WorkerQuiet, ProcessedQuiet, DecideOnlyInv, TradeInv, FailureQuiet
     DEF Serve, Signals
<1>3. ASSUME NEW b \in Bots, Start(b) \/ Reset(b) \/ Stop(b) \/ Update(b) \/ Elapse(b)
      PROVE  BotInv'
  BY <1>3, ControlQuiet
<1>4. ASSUME NEW b \in Bots, NEW price \in Prices, ClosePosition(b, price) PROVE BotInv'
  BY <1>4, CloseInv
<1>5. CASE UserTrades
  BY <1>5, UserInv
<1>6. CASE NextCandle
  BY <1>6, CandleQuiet
<1>7. CASE UNCHANGED vars
  BY <1>7, StutterInv
<1> QED BY <1>1, <1>2, <1>3, <1>4, <1>5, <1>6, <1>7 DEF BotNext

\* BotInv holds of every state of every run.
THEOREM BotInvariance == BotSpec => []BotInv
BY BotInit_Inv, BotStep, PTL DEF BotSpec

(***************************************************************************)
(* The units of a bot's position stay in the holding beside every pending  *)
(* sale, so its exit is never short of units, for any number of bots and   *)
(* of the user's orders (service.py:84-91).                                *)
(***************************************************************************)
THEOREM ManagedUnitsAreCovered == BotSpec => []ManagedUnitsCovered
<1>1. BotInv => ManagedUnitsCovered
  <2> SUFFICES ASSUME BotInv PROVE ManagedUnitsCovered
    OBVIOUS
  <2>1. \A w \in Workers : job[w].pc \in {"idle", "quote", "tick", "failing"}
    <3> SUFFICES ASSUME NEW w \in Workers
                 PROVE  job[w].pc \in {"idle", "quote", "tick", "failing"}
      OBVIOUS
    <3>1. job[w] \in Job
      BY DEF BotInv, BotTypes
    <3> QED BY <3>1 DEF Job, Idle
  <2>2. BotTypeOK
    BY <2>1 DEF BotInv, BotTypes, BotTypeOK, IInv
  <2> QED BY <2>2 DEF BotInv, UnitsManaged, ManagedUnitsCovered
<1> QED BY <1>1, BotInvariance, PTL

(***************************************************************************)
(* A position is the difference of the bot's filled purchases and sales,   *)
(* and the entry it names is one of the purchases, whichever workers,      *)
(* ticks and close requests made them (engine.py:76-91).                   *)
(***************************************************************************)
THEOREM PositionsMatch == BotSpec => []PositionMatchesOrders
<1>1. BotInv => PositionMatchesOrders
  BY DEF BotInv, BotBooks
<1> QED BY <1>1, BotInvariance, PTL

(***************************************************************************)
(* The exit of a position that is held was never decided before, so the    *)
(* next tick or close request can still make it (engine.py:50, 65-68).     *)
(***************************************************************************)
THEOREM ExitsStayOpen == BotSpec => []ExitStaysOpen
<1>1. BotInv => ExitStaysOpen
  BY DEF BotInv, BotBooks
<1> QED BY <1>1, BotInvariance, PTL

(***************************************************************************)
(* No step, of whatever worker with whatever old row, gives a bot that     *)
(* does not run a position or a decision but its exit (engine.py:31-34,    *)
(* service.py:40-51).                                                      *)
(***************************************************************************)
THEOREM OnlyRunning == BotSpec => OnlyRunningBotsTrade
<1>1. ASSUME BotInv, [BotNext]_vars, NEW b \in Bots, bots[b].state # "running"
      PROVE  /\ positions'[b] \in {positions[b], NoPosition}
             /\ decisions'[b] \subseteq decisions[b] \cup {ExitKey(b)}
  <2> DEFINE Goal == /\ positions'[b] \in {positions[b], NoPosition}
                     /\ decisions'[b] \subseteq decisions[b] \cup {ExitKey(b)}
  <2>1. ASSUME UNCHANGED <<positions, decisions>> PROVE Goal
    BY <2>1
  <2>2. ASSUME NEW a \in Bots, a # b, NEW pos, NEW keys,
               positions' = [positions EXCEPT ![a] = pos] \/ positions' = positions,
               decisions' = [decisions EXCEPT ![a] = keys]
        PROVE  Goal
    BY <1>1, <2>2 DEF BotInv, BotTypes
  <2>3. ASSUME NEW w \in Workers, Trade(w) \/ DecideOnly(w) PROVE Goal
    <3> DEFINE a == job[w].bot
    <3>1. Ticks(w) /\ Key(w) \notin decisions[a]
      BY <2>3 DEF Trade, DecideOnly
    <3>2. a \in Bots /\ a # b
      BY <1>1, <3>1, TickSide
    <3>3. decisions' = [decisions EXCEPT ![a] = decisions[a] \cup {Key(w)}]
      BY <2>3 DEF Trade, DecideOnly, Decide
    <3>4. \/ positions' = positions
          \/ positions' = [positions EXCEPT
               ![a] = PositionAfter(a, BotRequest(a, Side(w), job[w].price))]
      BY <2>3 DEF Trade, DecideOnly, FillBotOrder
    <3> HIDE DEF a
    <3> QED BY <2>2, <3>2, <3>3, <3>4
  <2>4. ASSUME NEW a \in Bots, NEW price \in Prices, ClosePosition(a, price) PROVE Goal
    <3>1. /\ positions' = [positions EXCEPT ![a] = NoPosition]
          /\ decisions' = [decisions EXCEPT ![a] = decisions[a] \cup {ExitKey(a)}]
      BY <2>4 DEF ClosePosition, FillBotOrder, Decide, PositionAfter, BotRequest
    <3>2. CASE a = b
      BY <1>1, <3>1, <3>2 DEF BotInv, BotTypes
    <3> QED BY <2>2, <3>1, <3>2
  <2> HIDE DEF Goal
  <2>5. ASSUME NEW w \in Workers, NEW a \in Bots, Poll(w, a) PROVE Goal
    BY <2>1, <2>5 DEF Poll
  <2>6. ASSUME NEW w \in Workers, Serve(w) PROVE Goal
    BY <2>1, <2>3, <2>6
       DEF Serve, NoQuote, Quote, Skip, NoPrediction, AlreadyProcessed, ExitRefused,
           RecordFailure, Crash
  <2>7. ASSUME NEW a \in Bots, Start(a) \/ Reset(a) \/ Stop(a) \/ Update(a) \/ Elapse(a)
        PROVE  Goal
    BY <2>1, <2>7 DEF Start, Reset, Stop, Control, Update, Elapse
  <2>8. ASSUME UserTrades \/ NextCandle \/ UNCHANGED vars PROVE Goal
    BY <2>1, <2>8 DEF UserTrades, NextCandle, vars, bvars
  <2>9. Goal
    BY <1>1, <2>4, <2>5, <2>6, <2>7, <2>8 DEF BotNext
  <2> QED BY <2>9 DEF Goal
<1>2. BotInv /\ [BotNext]_vars =>
        \A b \in Bots : bots[b].state # "running" =>
          /\ positions'[b] \in {positions[b], NoPosition}
          /\ decisions'[b] \subseteq decisions[b] \cup {ExitKey(b)}
  BY <1>1
<1> QED BY <1>2, BotInvariance, PTL DEF BotSpec, OnlyRunningBotsTrade

-----------------------------------------------------------------------------
(***************************************************************************)
(* The portfolio's own properties survive its bots.                        *)
(***************************************************************************)
LEMMA BotFillKeeps ==
  ASSUME BotInv, BInv, LimitsRespected, NEW b \in Bots, NEW side \in {"buy", "sell"},
         NEW price \in Prices, NEW key \in Keys, key \notin decisions[b],
         side = "sell" => Held(b), BotMayOrder(BotRequest(b, side, price)),
         FillBotOrder(b, key, BotRequest(b, side, price))
  PROVE  BInv' /\ LimitsRespected'
<1> DEFINE req == BotRequest(b, side, price)
           o == NewOrder(req, "filled")
           id == <<b, key>>
<1>1. /\ orders' = [orders EXCEPT ![id] = o] /\ BookFill(id, o)
      /\ holdings' = [holdings EXCEPT ![o.symbol] = Filled(holdings[o.symbol], o)]
      /\ UNCHANGED <<initial, settings>>
  BY DEF FillBotOrder, BookFill
<1>2. /\ o \in Order /\ o.status = "filled" /\ o.fee < o.notional
      /\ o.side = side /\ o.symbol = BotSymbol[b]
      /\ o.side = "buy" => o.notional + o.fee <= cash - ReservedCash
      /\ o.side = "sell" => o.quantity <= holdings[o.symbol].quantity - ReservedUnits(o.symbol)
  BY BotOrder
<1>3. req.symbol = BotSymbol[b] /\ req.side = side /\ OrderAllowed(req)
  BY DEF BotRequest, BotMayOrder
<1> HIDE DEF req, o, id
<1>4. IInv /\ TypeOK
  BY DEF BotInv, IInv
<1>5. id \in ClientIds /\ orders[id].status = "none" /\ id \notin Booked /\ id \notin Pending
  <2>1. id \in ClientIds
    BY BotAssumption DEF BotIds, id
  <2>2. orders[id].status = "none"
    BY DEF BotInv, BotBooks, OrdersDecided, id
  <2> QED BY <2>1, <2>2 DEF Booked, Pending, WithStatus
<1>6. /\ o.symbol \in Symbols /\ o.side \in {"buy", "sell"}
      /\ o.quantity \in Nat /\ o.notional \in Nat /\ o.fee \in Nat
  BY <1>2 DEF Order
<1>7. /\ o.side = "buy" => o.notional + o.fee <= cash
      /\ o.side = "sell" => o.quantity <= holdings[o.symbol].quantity
  <2>1. cash \in Nat /\ holdings[o.symbol].quantity \in Nat
    BY <1>4, <1>6 DEF TypeOK
  <2>2. ReservedCash \in Nat /\ ReservedUnits(o.symbol) \in Nat
    BY <1>4, ReservationsNat
  <2> QED BY <1>2, <1>6, <2>1, <2>2
<1>8. BInv'
  BY <1>1, <1>2, <1>4, <1>5, <1>7, FillBooks
<1>9. Pending' = Pending /\ \A d \in Pending : orders'[d] = orders[d]
  BY <1>1, <1>2, <1>4, <1>5, NotPending
<1>10. {orders'[d].symbol : d \in Buys(Pending)'} = {orders[d].symbol : d \in Buys(Pending)}
  BY <1>9 DEF Buys
<1>11. \A s \in Symbols : holdings'[s] = IF s # o.symbol THEN holdings[s]
                                         ELSE Filled(holdings[o.symbol], o)
  BY <1>1, <1>4 DEF TypeOK
<1>12. CASE side = "buy"
  <2>1. PositionSymbols' \subseteq PositionSymbols \cup {req.symbol}
    BY <1>2, <1>3, <1>10, <1>11 DEF PositionSymbols
  <2>2. /\ Cardinality(PositionSymbols \cup {req.symbol}) <= settings.maxPositions
    BY <1>3, <1>12 DEF OrderAllowed, BuyAllowed
  <2>3. IsFiniteSet(PositionSymbols \cup {req.symbol})
    BY <1>4, OpenFinite, FS_AddElement
  <2>4. /\ Cardinality(PositionSymbols') <= Cardinality(PositionSymbols \cup {req.symbol})
        /\ Cardinality(PositionSymbols') \in Nat
        /\ Cardinality(PositionSymbols \cup {req.symbol}) \in Nat
    BY <2>1, <2>3, FS_Subset, FS_CardinalityType
  <2>5. settings.maxPositions \in Nat
    BY <1>4 DEF TypeOK, Setting
  <2>6. Cardinality(PositionSymbols') <= settings'.maxPositions
    BY <1>1, <2>2, <2>4, <2>5
  <2>7. Cardinality(Pending') <= settings'.maxTrades
    BY <1>1, <1>9 DEF LimitsRespected
  <2> QED BY <1>8, <2>6, <2>7 DEF LimitsRespected
<1>13. CASE side = "sell"
  <2>1. Filled(holdings[o.symbol], o).quantity = holdings[o.symbol].quantity - o.quantity
    BY <1>2, <1>4, <1>7, <1>13, OrderFits
  <2>2. holdings[o.symbol].quantity \in Nat
    BY <1>4, <1>6 DEF TypeOK
  <2>3. Filled(holdings[o.symbol], o).quantity > 0 => holdings[o.symbol].quantity > 0
    BY <1>6, <2>1, <2>2
  <2>4. PositionSymbols' \subseteq PositionSymbols
    BY <1>10, <1>11, <2>3 DEF PositionSymbols
  <2>5. LimitsRespected'
    BY <1>1, <1>4, <1>9, <2>4, LimitsAfter
  <2> QED BY <1>8, <2>5
<1> QED BY <1>12, <1>13

LEMMA BotKeeps ==
  ASSUME BotInv, BInv, LimitsRespected, [BotNext]_vars
  PROVE  BInv' /\ LimitsRespected'
<1> DEFINE Kept == BInv' /\ LimitsRespected'
<1>1. IInv /\ TypeOK
  BY DEF BotInv, IInv
<1>2. ASSUME UNCHANGED pvars PROVE Kept
  <2>1. Booked' = Booked /\ \A c \in Booked : orders'[c] = orders[c]
    BY <1>2 DEF pvars, Booked, WithStatus
  <2>2. Pending' = Pending /\ PositionSymbols' = PositionSymbols
    BY <1>2 DEF pvars, Pending, WithStatus, PositionSymbols, Buys
  <2> QED BY <1>1, <1>2, <2>1, <2>2, NothingBooked, LimitsAfter DEF pvars
<1>3. ASSUME NEW w \in Workers, Trade(w) PROVE Kept
  <2> DEFINE b == job[w].bot
             side == Side(w)
             key == Key(w)
             price == job[w].price
  <2>1. /\ Ticks(w) /\ key \notin decisions[b] /\ side # "hold"
        /\ BotMayOrder(BotRequest(b, side, price))
        /\ FillBotOrder(b, key, BotRequest(b, side, price))
    BY <1>3 DEF Trade
  <2>2. /\ b \in Bots /\ price \in Prices /\ key \in Keys
        /\ side \in {"buy", "sell"} /\ (side = "sell" => Held(b))
    BY <2>1, TickSide
  <2> HIDE DEF b, side, key, price
  <2> QED BY <2>1, <2>2, BotFillKeeps
<1>4. ASSUME NEW b \in Bots, NEW price \in Prices, ClosePosition(b, price) PROVE Kept
  <2> DEFINE key == ExitKey(b)
  <2>1. /\ Held(b) /\ key \notin decisions[b]
        /\ BotMayOrder(BotRequest(b, "sell", price))
        /\ FillBotOrder(b, key, BotRequest(b, "sell", price))
    BY <1>4 DEF ClosePosition
  <2>2. <<b, <<"candle", positions[b].entry>>>> \in BotIds
    BY <2>1 DEF BotInv, BotBooks, PositionMatchesOrders, FilledBy
  <2>3. key \in Keys /\ "sell" \in {"buy", "sell"}
    BY <2>2 DEF ExitKey, Keys, BotIds
  <2> HIDE DEF key
  <2> QED BY <2>1, <2>3, BotFillKeeps
<1>5. ASSUME UserTrades PROVE Kept
  <2>1. ASSUME NEW amount \in InitialAmounts, Create(amount) PROVE Kept
    BY <1>1, <2>1, CreateBooks, CreateLimits
  <2>2. ASSUME NEW s \in SettingsChoices, ChangeSettings(s) PROVE Kept
    <3>1. BInv'
      BY <2>2, NothingBooked DEF ChangeSettings, Booked, WithStatus
    <3> QED BY <2>2, <3>1, ChangeSettingsLimits
  <2>3. ASSUME NEW c \in ClientIds, NEW req \in Request, Reserve(c, req, Managed(req.symbol))
        PROVE  Kept
    BY <1>1, <2>3, ReserveBooks, ReserveLimits
  <2>4. ASSUME NEW c \in ClientIds, Fill(c) \/ Cancel(c) PROVE Kept
    BY <1>1, <2>4, FillStepBooks, CancelBooks, CompletionLimits
  <2> HIDE DEF Kept
  <2> QED BY <1>5, <2>1, <2>2, <2>3, <2>4 DEF UserTrades
<1> HIDE DEF Kept
<1>6. ASSUME NEW w \in Workers, Serve(w) PROVE Kept
  BY <1>2, <1>3, <1>6
     DEF Serve, NoQuote, Quote, Skip, NoPrediction, AlreadyProcessed, DecideOnly,
         ExitRefused, RecordFailure, Crash
<1>7. ASSUME NEW b \in Bots, Start(b) \/ Reset(b) \/ Stop(b) \/ Update(b) \/ Elapse(b)
      PROVE  Kept
  BY <1>2, <1>7 DEF Start, Reset, Stop, Control, Update, Elapse
<1>8. ASSUME NEW w \in Workers, NEW b \in Bots, Poll(w, b) PROVE Kept
  BY <1>2, <1>8 DEF Poll
<1>9. ASSUME NextCandle \/ UNCHANGED vars PROVE Kept
  BY <1>2, <1>9 DEF NextCandle, vars
<1>10. Kept
  BY <1>4, <1>5, <1>6, <1>7, <1>8, <1>9 DEF BotNext
<1> QED BY <1>10 DEF Kept

(***************************************************************************)
(* With bots beside the user: cash, units and basis are still the sums     *)
(* over the filled orders, each booked once, and the saved limits hold of  *)
(* what is open, bots' positions included (executor.py fill goes through   *)
(* the same validation and accounting, service.py:84-127).                 *)
(***************************************************************************)
THEOREM BotsKeepBooksAndLimits == BotSpec => [](BooksBalance /\ LimitsRespected)
<1>1. BotInit => BInv /\ LimitsRespected
  BY InitBooks, InitLimits DEF BotInit
<1>2. BotInv /\ BInv /\ LimitsRespected /\ [BotNext]_vars => BInv' /\ LimitsRespected'
  BY BotKeeps
<1>3. BInv => BooksBalance
  BY DEF BInv
<1> QED BY <1>1, <1>2, <1>3, BotInvariance, PTL DEF BotSpec
-----------------------------------------------------------------------------
(***************************************************************************)
(* What a step of the bots is to the portfolio: nothing, a step of the     *)
(* user, or a bot's order that is filled as it is placed.                  *)
(***************************************************************************)
DirectOrder(c, o) ==
  /\ orders[c].status = "none"
  /\ o.status = "filled" /\ o.fee < o.notional
  /\ o.side = "buy" => o.notional + o.fee <= cash - ReservedCash
  /\ o.side = "sell" => o.quantity <= holdings[o.symbol].quantity - ReservedUnits(o.symbol)
  /\ orders' = [orders EXCEPT ![c] = o]
  /\ BookFill(c, o)

PortfolioStep ==
  \/ UNCHANGED pvars
  \/ \E amount \in InitialAmounts : Create(amount)
  \/ \E s \in SettingsChoices : ChangeSettings(s)
  \/ \E c \in ClientIds, req \in Request : \E managed : Reserve(c, req, managed)
  \/ \E c \in ClientIds : Fill(c) \/ Cancel(c)
  \/ \E c \in ClientIds, o \in Order : DirectOrder(c, o)

LEMMA BotFillIsDirect ==
  ASSUME BotInv, NEW b \in Bots, NEW side \in {"buy", "sell"}, NEW price \in Prices,
         NEW key \in Keys, key \notin decisions[b],
         side = "sell" => Held(b), BotMayOrder(BotRequest(b, side, price)),
         FillBotOrder(b, key, BotRequest(b, side, price))
  PROVE  PortfolioStep
<1> DEFINE o == NewOrder(BotRequest(b, side, price), "filled")
           id == <<b, key>>
<1>1. orders' = [orders EXCEPT ![id] = o] /\ BookFill(id, o)
  BY DEF FillBotOrder
<1>2. /\ o \in Order /\ o.status = "filled" /\ o.fee < o.notional
      /\ o.side = "buy" => o.notional + o.fee <= cash - ReservedCash
      /\ o.side = "sell" => o.quantity <= holdings[o.symbol].quantity - ReservedUnits(o.symbol)
  BY BotOrder
<1> HIDE DEF o
<1>3. id \in ClientIds
  BY BotAssumption DEF BotIds
<1>4. orders[id].status = "none"
  BY DEF BotInv, BotBooks, OrdersDecided
<1> HIDE DEF id
<1>5. DirectOrder(id, o)
  BY <1>1, <1>2, <1>4 DEF DirectOrder
<1> QED BY <1>2, <1>3, <1>5 DEF PortfolioStep

LEMMA BotsOnPortfolio ==
  ASSUME BotInv, [BotNext]_vars
  PROVE  PortfolioStep
<1>1. ASSUME UNCHANGED pvars PROVE PortfolioStep
  BY <1>1 DEF PortfolioStep
<1>2. ASSUME NEW w \in Workers, Trade(w) PROVE PortfolioStep
  <2> DEFINE b == job[w].bot
             side == Side(w)
             key == Key(w)
             price == job[w].price
  <2>1. /\ Ticks(w) /\ key \notin decisions[b] /\ side # "hold"
        /\ BotMayOrder(BotRequest(b, side, price))
        /\ FillBotOrder(b, key, BotRequest(b, side, price))
    BY <1>2 DEF Trade
  <2>2. /\ b \in Bots /\ price \in Prices /\ key \in Keys
        /\ side \in {"buy", "sell"} /\ (side = "sell" => Held(b))
    BY <2>1, TickSide
  <2> HIDE DEF b, side, key, price
  <2> QED BY <2>1, <2>2, BotFillIsDirect
<1>3. ASSUME NEW b \in Bots, NEW price \in Prices, ClosePosition(b, price)
      PROVE  PortfolioStep
  <2> DEFINE key == ExitKey(b)
  <2>1. /\ Held(b) /\ key \notin decisions[b]
        /\ BotMayOrder(BotRequest(b, "sell", price))
        /\ FillBotOrder(b, key, BotRequest(b, "sell", price))
    BY <1>3 DEF ClosePosition
  <2>2. <<b, <<"candle", positions[b].entry>>>> \in BotIds
    BY <2>1 DEF BotInv, BotBooks, PositionMatchesOrders, FilledBy
  <2>3. key \in Keys /\ "sell" \in {"buy", "sell"}
    BY <2>2 DEF ExitKey, Keys, BotIds
  <2> HIDE DEF key
  <2> QED BY <2>1, <2>3, BotFillIsDirect
<1>4. ASSUME UserTrades PROVE PortfolioStep
  BY <1>4 DEF UserTrades, PortfolioStep
<1>5. ASSUME NEW w \in Workers, Serve(w) PROVE PortfolioStep
  BY <1>1, <1>2, <1>5
     DEF Serve, NoQuote, Quote, Skip, NoPrediction, AlreadyProcessed, DecideOnly,
         ExitRefused, RecordFailure, Crash
<1>6. ASSUME NEW b \in Bots, Start(b) \/ Reset(b) \/ Stop(b) \/ Update(b) \/ Elapse(b)
      PROVE  PortfolioStep
  BY <1>1, <1>6 DEF Start, Reset, Stop, Control, Update, Elapse
<1>7. ASSUME NEW w \in Workers, NEW b \in Bots, Poll(w, b) PROVE PortfolioStep
  BY <1>1, <1>7 DEF Poll
<1>8. ASSUME NextCandle \/ UNCHANGED vars PROVE PortfolioStep
  BY <1>1, <1>8 DEF NextCandle, vars
<1> QED BY <1>3, <1>4, <1>5, <1>6, <1>7, <1>8 DEF BotNext

\* What a bot's order takes is there, reserved or not.
LEMMA DirectFits ==
  ASSUME IInv, NEW c \in ClientIds, NEW o \in Order, DirectOrder(c, o)
  PROVE  /\ o.side = "buy" => o.notional + o.fee <= cash
         /\ o.side = "sell" => o.quantity <= holdings[o.symbol].quantity
<1>1. /\ o.symbol \in Symbols /\ o.quantity \in Nat /\ o.notional \in Nat /\ o.fee \in Nat
  BY DEF Order
<1>2. cash \in Nat /\ holdings[o.symbol].quantity \in Nat
  BY <1>1 DEF IInv, TypeOK
<1>3. ReservedCash \in Nat /\ ReservedUnits(o.symbol) \in Nat
  BY ReservationsNat DEF IInv
<1> QED BY <1>1, <1>2, <1>3 DEF DirectOrder

(***************************************************************************)
(* The reservations of the user's pending orders are covered with bots     *)
(* beside them, whose orders fill without one (executor.py fill,           *)
(* service.py:84-127).                                                     *)
(***************************************************************************)
THEOREM BotsLeaveReservations == BotSpec => []ReservationsCovered
<1>1. BotInv => ReservationsCovered
  BY DEF BotInv, IInv, ReservationsCovered
<1> QED BY <1>1, BotInvariance, PTL

(***************************************************************************)
(* Nor do the bots leave a cost on a sold-out holding (accounting.py:31).  *)
(***************************************************************************)
THEOREM BotsStrandNoBasis == BotSpec => []NoStrandedBasis
<1>1. BotInit => NoStrandedBasis
  BY DEF BotInit, Init, NoStrandedBasis, EmptyHolding
<1>2. ASSUME BotInv, NoStrandedBasis, [BotNext]_vars
      PROVE  NoStrandedBasis'
  <2>1. IInv /\ PortfolioStep
    BY <1>2, BotsOnPortfolio DEF BotInv
  <2>2. holdings \in [Symbols -> [quantity: Nat, basis: Nat, realized: Int]]
    BY <2>1 DEF IInv, TypeOK
  <2>3. ASSUME NEW c, NEW o \in Order, BookFill(c, o),
               LET f == Filled(holdings[o.symbol], o) IN f.quantity = 0 => f.basis = 0
        PROVE  NoStrandedBasis'
    BY <1>2, <2>2, <2>3 DEF BookFill, NoStrandedBasis
  <2>4. ASSUME NEW c \in ClientIds, Fill(c) PROVE NoStrandedBasis'
    <3>1. orders[c].status = "pending" /\ BookFill(c, orders[c])
      BY <2>4 DEF Fill, Completable
    <3>2. orders[c] \in Order
      BY <2>1, <3>1, PlacedOrder DEF IInv
    <3> QED BY <2>1, <2>3, <3>1, <3>2, FillFits
  <2>5. ASSUME NEW c \in ClientIds, NEW o \in Order, DirectOrder(c, o) PROVE NoStrandedBasis'
    <3>1. BookFill(c, o) /\ o.fee < o.notional
      BY <2>5 DEF DirectOrder
    <3>2. LET f == Filled(holdings[o.symbol], o) IN f.quantity = 0 => f.basis = 0
      BY <2>1, <2>5, <3>1, DirectFits, OrderFits DEF IInv
    <3> QED BY <2>3, <3>1, <3>2
  <2>6. ASSUME UNCHANGED holdings PROVE NoStrandedBasis'
    BY <1>2, <2>6 DEF NoStrandedBasis
  <2> QED BY <2>1, <2>4, <2>5, <2>6
          DEF PortfolioStep, Create, ChangeSettings, Reserve, Cancel, pvars
<1> QED BY <1>1, <1>2, BotInvariance, PTL DEF BotSpec

(***************************************************************************)
(* A completed order, a bot's included, is never changed: a bot's event    *)
(* key is decided once, so its order id is used once (engine.py:65-68,     *)
(* service.py:78-82).                                                      *)
(***************************************************************************)
THEOREM BotsKeepHistory == BotSpec => HistoryStays
<1>1. ASSUME BotInv, [BotNext]_vars, NEW c \in ClientIds,
             orders[c].status \in {"filled", "cancelled"}
      PROVE  orders'[c] = orders[c]
  <2>1. PortfolioStep /\ TypeOK
    BY <1>1, BotsOnPortfolio DEF BotInv, IInv
  <2>2. ASSUME NEW d \in ClientIds, orders[d].status = "none",
               NEW o, orders' = [orders EXCEPT ![d] = o]
        PROVE  orders'[c] = orders[c]
    BY <1>1, <2>1, <2>2 DEF TypeOK
  <2>3. ASSUME NEW d \in ClientIds, NEW req \in Request, NEW managed, Reserve(d, req, managed)
        PROVE  orders'[c] = orders[c]
    BY <2>2, <2>3 DEF Reserve
  <2>4. ASSUME NEW d \in ClientIds, NEW o \in Order, DirectOrder(d, o)
        PROVE  orders'[c] = orders[c]
    BY <2>2, <2>4 DEF DirectOrder
  <2>5. ASSUME NEW d \in ClientIds, Fill(d) \/ Cancel(d)
        PROVE  orders'[c] = orders[c]
    BY <1>1, <2>1, <2>5 DEF Fill, Cancel, Completable, TypeOK
  <2>6. ASSUME UNCHANGED orders PROVE orders'[c] = orders[c]
    BY <2>6
  <2> QED BY <2>1, <2>3, <2>4, <2>5, <2>6 DEF PortfolioStep, Create, ChangeSettings, pvars
<1>2. BotInv /\ [BotNext]_vars =>
        [\A c \in ClientIds :
           orders[c].status \in {"filled", "cancelled"} => orders'[c] = orders[c]]_pvars
  BY <1>1
<1> QED BY <1>2, BotInvariance, PTL DEF BotSpec, HistoryStays

LEMMA DirectInLedger ==
  ASSUME IInv, NEW c \in ClientIds, NEW o \in Order, DirectOrder(c, o)
  PROVE  LedgerStep
<1>1. /\ orders[c].status = "none" /\ o.status = "filled" /\ o.fee < o.notional
      /\ orders' = [orders EXCEPT ![c] = o] /\ BookFill(c, o)
      /\ o.side = "buy" => o.notional + o.fee <= cash - ReservedCash
      /\ o.side = "sell" => o.quantity <= holdings[o.symbol].quantity - ReservedUnits(o.symbol)
  BY DEF DirectOrder
<1>2. /\ Ledger!Agree(c) /\ Agreed'[c] = TermsOf(o)
      /\ Statuses' = [Statuses EXCEPT ![c] = "filled"]
  BY <1>1, OrderAgrees
<1>3. Ledger!Exchange(TermsOf(o))
  BY <1>1, DirectFits, FillExchanges
<1>4. Ledger!Trade(c)
  BY <1>2, <1>3 DEF Ledger!Trade
<1> QED BY <1>4 DEF LedgerStep, Ledger!Next

(***************************************************************************)
(* User and bots together implement the ledger: whichever worker trades    *)
(* with whatever old row, an order takes only what no other order has set  *)
(* aside, once (executor.py fill, service.py:70-129).                      *)
(***************************************************************************)
THEOREM BotsImplementLedger == BotSpec => ImplementsPaperLedger
<1>1. BotInit => Ledger!Init
  BY InitInLedger DEF BotInit
<1>2. BotInv /\ [BotNext]_vars => [Ledger!Next]_(Ledger!lvars)
  <2> SUFFICES ASSUME BotInv, [BotNext]_vars PROVE LedgerStep
    BY DEF LedgerStep, Ledger!lvars
  <2>1. IInv /\ PortfolioStep
    BY BotsOnPortfolio DEF BotInv
  <2> QED BY <2>1, CreateInLedger, ReserveInLedger, FillInLedger, CancelInLedger, DirectInLedger,
             LedgerRests
          DEF PortfolioStep, ChangeSettings, pvars
<1> QED BY <1>1, <1>2, BotInvariance, PTL DEF BotSpec, ImplementsPaperLedger, Ledger!Spec
=============================================================================
