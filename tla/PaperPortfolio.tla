--------------------------- MODULE PaperPortfolio ---------------------------
(***************************************************************************)
(* One user's paper portfolio: backend/app/portfolio/service.py on the     *)
(* tables of database/postgres/004_portfolio.sql.                          *)
(*                                                                         *)
(* Every write is one transaction that first locks the portfolio's row     *)
(* (repository.py `owned`, FOR UPDATE), so every operation of the service  *)
(* is one action.  What is interleaved is the two halves of an order's     *)
(* life: a reservation, and its fill or cancellation at any later time.    *)
(***************************************************************************)
EXTENDS Accounting

CONSTANTS
  Symbols,          \* assets the user trades
  ClientIds,        \* client_order_id: UNIQUE in a portfolio, so it names an order
  InitialAmounts,   \* initial_cash of a PortfolioCreate
  Quantities,       \* amounts of a PaperOrderCreate
  Prices,
  Fees,
  SettingsChoices,  \* RiskSettings a user may save; a percentage of 0 is None
  DefaultSettings,  \* risk_settings of a new row
  MaxNotional       \* 10^12 USD in the code

Setting == [minInvestment: Nat, maxInvestment: Nat,
            maxPositions: Nat \ {0}, maxTrades: Nat \ {0},
            stopPct: 0 .. 99, takePct: Nat]

ASSUME InputAssumption ==
  /\ IsFiniteSet(Symbols) /\ IsFiniteSet(ClientIds)
  /\ InitialAmounts \subseteq Nat \ {0}
  /\ Quantities \subseteq Nat \ {0}
  /\ Prices \subseteq Nat \ {0}
  /\ Fees \subseteq Nat
  /\ SettingsChoices \subseteq Setting
  /\ DefaultSettings \in Setting
  /\ MaxNotional \in Nat

VARIABLES
  initial,   \* portfolios.initial_cash; 0 while there is no portfolio
  cash,      \* portfolios.cash_balance
  settings,  \* portfolios.risk_settings
  holdings,  \* portfolio_holdings; an absent row is an EmptyHolding
  orders,    \* portfolio_orders, by client_order_id
  trades     \* portfolio_trades; order_id is UNIQUE

pvars == <<initial, cash, settings, holdings, orders, trades>>

Request == [symbol: Symbols, side: {"buy", "sell"},
            quantity: Quantities, price: Prices, fee: Fees]

Absent == [status |-> "none"]

Order == [status: {"pending", "filled", "cancelled"},
          symbol: Symbols, side: {"buy", "sell"},
          quantity: Nat \ {0}, price: Nat \ {0}, fee: Nat,
          notional: Nat \ {0}, stop: Nat, take: Nat]

TypeOK ==
  /\ initial \in Nat
  /\ cash \in Nat
  /\ settings \in Setting
  /\ holdings \in [Symbols -> [quantity: Nat, basis: Nat, realized: Int]]
  /\ orders \in [ClientIds -> Order \cup {Absent}]
  /\ trades \subseteq [order: ClientIds, realized: Int]

(***************************************************************************)
(* Reservations: what the pending orders will need when they fill.         *)
(***************************************************************************)
WithStatus(st) == {c \in ClientIds : orders[c].status = st}
Pending == WithStatus("pending")

Buys(S) == {c \in S : orders[c].side = "buy"}
SellsOf(S, s) == {c \in S : orders[c].side = "sell" /\ orders[c].symbol = s}

Cost == [c \in ClientIds |-> orders[c].notional + orders[c].fee]
Units == [c \in ClientIds |-> orders[c].quantity]

ReservedCash == Total(Buys(Pending), Cost)
ReservedUnits(s) == Total(SellsOf(Pending, s), Units)

PositionSymbols ==
  {s \in Symbols : holdings[s].quantity > 0}
    \cup {orders[c].symbol : c \in Buys(Pending)}

(***************************************************************************)
(* validate_order (risk.py), one operator per reason to refuse.            *)
(***************************************************************************)
Gross(req) == Notional(req.quantity, req.price)

GrossAllowed(req) ==
  /\ 0 < Gross(req) /\ Gross(req) <= MaxNotional
  /\ req.fee < Gross(req)

TradeSlotFree == Cardinality(Pending) < settings.maxTrades

\* Mutant of CashAvailable: reservations are not taken off the balance.
CashBalanceOnly(req) == Gross(req) + req.fee <= cash

CashAvailable(req) == Gross(req) + req.fee <= cash - ReservedCash

BuyAllowed(req) ==
  /\ settings.minInvestment <= Gross(req) + req.fee
  /\ Gross(req) + req.fee <= settings.maxInvestment
  /\ CashAvailable(req)
  /\ Cardinality(PositionSymbols \cup {req.symbol}) <= settings.maxPositions

StopPrice(req) ==
  IF req.side = "buy" /\ settings.stopPct # 0
  THEN Threshold(req.price, -1, settings.stopPct) ELSE 0

TakePrice(req) ==
  IF req.side = "buy" /\ settings.takePct # 0
  THEN Threshold(req.price, 1, settings.takePct) ELSE 0

\* A threshold must stay on its side of the price after rounding; 0 is None.
ThresholdsAllowed(req) ==
  req.side = "buy" =>
    /\ settings.stopPct # 0 => 0 < StopPrice(req) /\ StopPrice(req) < req.price
    /\ settings.takePct # 0 => req.price < TakePrice(req)

SellAllowed(req) ==
  req.quantity <= holdings[req.symbol].quantity - ReservedUnits(req.symbol)

OrderAllowed(req) ==
  /\ GrossAllowed(req)
  /\ TradeSlotFree
  /\ req.side = "buy" => BuyAllowed(req)
  /\ req.side = "sell" => SellAllowed(req)
  /\ ThresholdsAllowed(req)

NewOrder(req, st) ==
  [status |-> st, symbol |-> req.symbol, side |-> req.side,
   quantity |-> req.quantity, price |-> req.price, fee |-> req.fee,
   notional |-> Gross(req), stop |-> StopPrice(req), take |-> TakePrice(req)]

(***************************************************************************)
(* Units a bot manages are sold by the bot only.  `managed` is the         *)
(* quantity of the bots' open positions in the symbol.                     *)
(***************************************************************************)
\* Mutant of UnmanagedAvailable: the units that pending sales hold are ignored.
UnmanagedHeld(req, managed) ==
  managed > 0 => req.quantity <= holdings[req.symbol].quantity - managed

UnmanagedAvailable(req, managed) ==
  managed > 0 =>
    req.quantity <= holdings[req.symbol].quantity - managed - ReservedUnits(req.symbol)

(***************************************************************************)
(* complete_in_transaction, the accounting of a fill.                      *)
(***************************************************************************)
Filled(h, o) ==
  IF o.side = "buy" THEN BuyFill(h, o.quantity, o.notional, o.fee)
  ELSE SellFill(h, o.quantity, o.notional, o.fee)

BookFill(c, o) ==
  LET h == holdings[o.symbol]
  IN  /\ holdings' = [holdings EXCEPT ![o.symbol] = Filled(h, o)]
      /\ cash' = cash + CashChange(o.side, o.notional, o.fee)
      /\ trades' = trades \cup
           {[order |-> c, realized |-> Filled(h, o).realized - h.realized]}

-----------------------------------------------------------------------------

Init ==
  /\ initial = 0 /\ cash = 0
  /\ settings = DefaultSettings
  /\ holdings = [s \in Symbols |-> EmptyHolding]
  /\ orders = [c \in ClientIds |-> Absent]
  /\ trades = {}

\* create: one paper portfolio per user; asking again changes nothing.
Create(amount) ==
  /\ initial = 0
  /\ initial' = amount /\ cash' = amount
  /\ UNCHANGED <<settings, holdings, orders, trades>>

\* Mutant of LimitsFit: only the trade limit is compared with what is open.
TradesFit(s) == Cardinality(Pending) <= s.maxTrades

LimitsFit(s) ==
  /\ Cardinality(Pending) <= s.maxTrades
  /\ Cardinality(PositionSymbols) <= s.maxPositions

\* settings: limits cannot be lowered below what is already open.
ChangeSettings(s) ==
  /\ initial # 0
  /\ LimitsFit(s)
  /\ settings' = s
  /\ UNCHANGED <<initial, cash, holdings, orders, trades>>

(***************************************************************************)
(* reserve_in_transaction for a user's own order.  A used client id        *)
(* returns the stored order or is refused: it changes nothing.             *)
(***************************************************************************)
Reserve(c, req, managed) ==
  /\ initial # 0
  /\ orders[c].status = "none"
  /\ req.side = "sell" => UnmanagedAvailable(req, managed)
  /\ OrderAllowed(req)
  /\ orders' = [orders EXCEPT ![c] = NewOrder(req, "pending")]
  /\ UNCHANGED <<initial, cash, settings, holdings, trades>>

\* Mutant of Completable: a filled order is completed again.
NotCancelled(c) == orders[c].status \in {"pending", "filled"}

\* A completed order is returned as it is, or refused with 409.
Completable(c) == orders[c].status = "pending"

Fill(c) ==
  /\ Completable(c)
  /\ BookFill(c, orders[c])
  /\ orders' = [orders EXCEPT ![c].status = "filled"]
  /\ UNCHANGED <<initial, settings>>

Cancel(c) ==
  /\ Completable(c)
  /\ orders' = [orders EXCEPT ![c].status = "cancelled"]
  /\ UNCHANGED <<initial, cash, settings, holdings, trades>>

\* Without bots nothing is managed.
Next ==
  \/ \E amount \in InitialAmounts : Create(amount)
  \/ \E s \in SettingsChoices : ChangeSettings(s)
  \/ \E c \in ClientIds : \E req \in Request : Reserve(c, req, 0)
  \/ \E c \in ClientIds : Fill(c)
  \/ \E c \in ClientIds : Cancel(c)

Spec == Init /\ [][Next]_pvars

-----------------------------------------------------------------------------

(***************************************************************************)
(* Every reservation is backed: whatever order the pending orders are      *)
(* filled in, a fill never finds too little cash or too few units          *)
(* (service.py:115-127 checks neither; it relies on the reservation).      *)
(***************************************************************************)
CashCovered == ReservedCash <= cash
UnitsCovered == \A s \in Symbols : ReservedUnits(s) <= holdings[s].quantity
ReservationsCovered == CashCovered /\ UnitsCovered

(***************************************************************************)
(* The limits the user saved hold of what is open now, although limits,    *)
(* reservations, fills and cancellations come in any order                 *)
(* (service.py:54-62, risk.py:21-34).                                      *)
(***************************************************************************)
LimitsRespected ==
  /\ Cardinality(Pending) <= settings.maxTrades
  /\ Cardinality(PositionSymbols) <= settings.maxPositions

(***************************************************************************)
(* A sold-out holding carries no cost: the CHECK of 004_portfolio.sql:15   *)
(* never refuses the UPDATE of a fill, although every partial sale rounds. *)
(***************************************************************************)
NoStrandedBasis ==
  \A s \in Symbols : holdings[s].quantity = 0 => holdings[s].basis = 0

(***************************************************************************)
(* Double entry.  Cash, units and cost basis less realized profit are      *)
(* exactly what the filled orders add up to, so no fill is lost, booked    *)
(* twice or charged with another fee, and no unit of money is lost in      *)
(* rounding (service.py:115-127, accounting.py:20-36).                     *)
(***************************************************************************)
FilledOf(s) == {c \in WithStatus("filled") : orders[c].symbol = s}
Proceeds == [c \in ClientIds |-> orders[c].notional - orders[c].fee]
Sells(S) == S \ Buys(S)

BooksBalance ==
  /\ cash = initial - Total(Buys(WithStatus("filled")), Cost)
                    + Total(Sells(WithStatus("filled")), Proceeds)
  /\ \A s \in Symbols :
       /\ holdings[s].quantity = Total(Buys(FilledOf(s)), Units)
                                   - Total(Sells(FilledOf(s)), Units)
       /\ holdings[s].basis - holdings[s].realized
            = Total(Buys(FilledOf(s)), Cost) - Total(Sells(FilledOf(s)), Proceeds)
  /\ {t.order : t \in trades} = WithStatus("filled")
  /\ Cardinality(trades) = Cardinality(WithStatus("filled"))

(***************************************************************************)
(* A filled or cancelled order is history: no later call changes it        *)
(* (service.py:111-114), and its client id is never used again (78-82).    *)
(***************************************************************************)
HistoryStays ==
  [][\A c \in ClientIds :
       orders[c].status \in {"filled", "cancelled"} => orders'[c] = orders[c]]_pvars

-----------------------------------------------------------------------------
(***************************************************************************)
(* Refinement: the balances are cash and the units of each symbol, and an  *)
(* order's terms are fixed when it is placed.                              *)
(***************************************************************************)
CashAccount == <<"cash", "USD">>
UnitsAccount(s) == <<"units", s>>
Accounts == {CashAccount} \cup {UnitsAccount(s) : s \in Symbols}

TermsOf(o) ==
  IF o.side = "buy"
  THEN [from |-> CashAccount, amount |-> o.notional + o.fee,
        to |-> UnitsAccount(o.symbol), value |-> o.quantity]
  ELSE [from |-> UnitsAccount(o.symbol), amount |-> o.quantity,
        to |-> CashAccount, value |-> o.notional - o.fee]

Balances == [a \in Accounts |-> IF a = CashAccount THEN cash ELSE holdings[a[2]].quantity]
Statuses == [c \in ClientIds |-> orders[c].status]
Agreed == [c \in ClientIds |-> IF orders[c].status = "none" THEN Absent ELSE TermsOf(orders[c])]

Ledger ==
  INSTANCE PaperLedger WITH
    Money <- CashAccount, Orders <- ClientIds, NoTerms <- Absent,
    balance <- Balances, status <- Statuses, terms <- Agreed

(***************************************************************************)
(* Whoever places the orders, nothing moves but what an order reserved or  *)
(* found free, once, for what it was agreed to bring; with bots beside the *)
(* user too (service.py:70-129, executor.py fill).                         *)
(***************************************************************************)
ImplementsPaperLedger == Ledger!Spec
=============================================================================
