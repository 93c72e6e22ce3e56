------------------------- MODULE PaperPortfolioProofs -------------------------
(***************************************************************************)
(* Theorems about PaperPortfolio, for any symbols, orders, amounts, prices *)
(* and limits.                                                             *)
(*                                                                         *)
(* A fill checks no balance, so that cash and holdings stay natural rests  *)
(* on every pending order being covered by its reservation, and that in    *)
(* turn rests on the types: the invariant is the conjunction of the two,   *)
(* with what the code checks when an order is placed (its fee is less than *)
(* its value) and the fact that a portfolio that was never opened has no   *)
(* orders, cash or units.                                                  *)
(***************************************************************************)
EXTENDS PaperPortfolio, SumsProofs

-----------------------------------------------------------------------------
(***************************************************************************)
(* Rounding.                                                               *)
(***************************************************************************)

\* money() of a natural fraction is natural (accounting.py:8-11).
LEMMA HalfEvenNat ==
  ASSUME NEW n \in Nat, NEW d \in Nat \ {0}
  PROVE  HalfEven(n, d) \in Nat
  BY DEF HalfEven

\* Rounding does not pass a whole number: n/d <= b rounds to at most b.
LEMMA HalfEvenBound ==
  ASSUME NEW n \in Nat, NEW d \in Nat \ {0}, NEW b \in Nat, n <= b * d
  PROVE  HalfEven(n, d) <= b
<1> DEFINE f == n \div d
           r == n % d
<1>1. f \in Nat /\ r \in Nat /\ r < d /\ n = d * f + r
  OBVIOUS
<1>2. f <= b
  <2>1. SUFFICES ASSUME f >= b + 1 PROVE FALSE
    BY <1>1
  <2>2. PICK k \in Nat : f = b + 1 + k
    BY <2>1, <1>1
  <2>3. d * f = d * b + d + d * k
    BY <2>2
  <2>4. d * k \in Nat /\ d * b = b * d
    BY <2>2
  <2> QED BY <1>1, <2>3, <2>4
<1>3. CASE f = b
  <2>1. d * f = b * d
    BY <1>3
  <2>2. r = 0
    BY <1>1, <2>1
  <2> QED BY <2>2, <1>3 DEF HalfEven
<1>4. CASE f < b
  BY <1>4, <1>1 DEF HalfEven
<1> QED BY <1>1, <1>2, <1>3, <1>4

\* Notional amounts and thresholds are natural, so they fit their columns.
LEMMA NotionalNat ==
  ASSUME NEW q \in Nat, NEW p \in Nat
  PROVE  Notional(q, p) \in Nat
<1>1. q * p \in Nat
  OBVIOUS
<1> QED BY <1>1, HalfEvenNat, ScaleAssumption DEF Notional

LEMMA ThresholdUpNat ==
  ASSUME NEW p \in Nat, NEW pct \in Nat
  PROVE  Threshold(p, 1, pct) \in Nat
<1>1. p * (100 + 1 * pct) \in Nat
  OBVIOUS
<1> QED BY <1>1, HalfEvenNat DEF Threshold

LEMMA ThresholdDownNat ==
  ASSUME NEW p \in Nat, NEW pct \in Nat, pct <= 100
  PROVE  Threshold(p, -1, pct) \in Nat
<1>1. 100 + -1 * pct \in Nat
  OBVIOUS
<1>2. p * (100 + -1 * pct) \in Nat
  BY <1>1
<1> QED BY <1>2, HalfEvenNat DEF Threshold

LEMMA ProductGrows ==
  ASSUME NEW b \in Nat, NEW q \in Nat, NEW m \in Nat, q <= m
  PROVE  b * q <= b * m
<1>1. m - q \in Nat
  OBVIOUS
<1>2. b * m = b * q + b * (m - q) /\ b * (m - q) \in Nat /\ b * q \in Nat
  BY <1>1
<1> QED BY <1>2

\* A sale never takes more than the whole basis out of it (accounting.py:31-32).
LEMMA BasisSoldBound ==
  ASSUME NEW h, h.quantity \in Nat, h.basis \in Nat,
         NEW q \in Nat \ {0}, q <= h.quantity
  PROVE  BasisSold(h, q) \in Nat /\ BasisSold(h, q) <= h.basis
<1>1. CASE q = h.quantity
  BY <1>1 DEF BasisSold
<1>2. CASE q # h.quantity
  <2>1. h.basis * q \in Nat /\ h.quantity \in Nat \ {0}
    BY <1>2
  <2>2. h.basis * q <= h.basis * h.quantity
    BY ProductGrows
  <2> QED BY <1>2, <2>1, <2>2, HalfEvenNat, HalfEvenBound DEF BasisSold
<1> QED BY <1>1, <1>2

-----------------------------------------------------------------------------
(***************************************************************************)
(* The invariant.                                                          *)
(***************************************************************************)

FeesBelowValue ==
  \A c \in ClientIds : orders[c].status # "none" => orders[c].fee < orders[c].notional

UnopenedIsEmpty ==
  initial = 0 => /\ \A c \in ClientIds : orders[c] = Absent
                 /\ cash = 0 /\ \A s \in Symbols : holdings[s].quantity = 0

IInv == TypeOK /\ FeesBelowValue /\ UnopenedIsEmpty /\ CashCovered /\ UnitsCovered

-----------------------------------------------------------------------------
(***************************************************************************)
(* Orders and requests.                                                    *)
(***************************************************************************)

LEMMA PlacedOrder ==
  ASSUME TypeOK, NEW c \in ClientIds, orders[c].status # "none"
  PROVE  orders[c] \in Order
  BY DEF TypeOK, Absent

\* What is asked for, by a user or by a bot.
AnyRequest == [symbol: Symbols, side: {"buy", "sell"},
               quantity: Nat \ {0}, price: Nat \ {0}, fee: Nat]

LEMMA RequestFields ==
  ASSUME NEW req \in AnyRequest
  PROVE  /\ req.symbol \in Symbols /\ req.side \in {"buy", "sell"}
         /\ req.quantity \in Nat \ {0} /\ req.price \in Nat \ {0} /\ req.fee \in Nat
         /\ Gross(req) \in Nat
<1>1. /\ req.symbol \in Symbols /\ req.side \in {"buy", "sell"}
      /\ req.quantity \in Nat \ {0} /\ req.price \in Nat \ {0} /\ req.fee \in Nat
  BY DEF AnyRequest
<1> QED BY <1>1, NotionalNat DEF Gross

LEMMA UserRequest == Request \subseteq AnyRequest
BY InputAssumption DEF Request, AnyRequest

\* An order validate_order accepts fits the columns of portfolio_orders.
LEMMA AcceptedOrder ==
  ASSUME TypeOK, NEW req \in AnyRequest, GrossAllowed(req),
         NEW st \in {"pending", "filled"}
  PROVE  /\ NewOrder(req, st) \in Order
         /\ req.fee < Gross(req) /\ Gross(req) \in Nat \ {0}
<1>1. Gross(req) \in Nat \ {0} /\ req.fee < Gross(req)
  BY RequestFields DEF GrossAllowed
<1>2. settings.stopPct \in 0 .. 99 /\ settings.takePct \in Nat
  BY DEF TypeOK, Setting
<1>3. StopPrice(req) \in Nat
  <2>1. req.price \in Nat /\ settings.stopPct \in Nat /\ settings.stopPct <= 100
    BY <1>2, RequestFields
  <2>2. Threshold(req.price, -1, settings.stopPct) \in Nat
    BY <2>1, ThresholdDownNat
  <2> QED BY <2>2 DEF StopPrice
<1>4. TakePrice(req) \in Nat
  <2>1. req.price \in Nat /\ settings.takePct \in Nat
    BY <1>2, RequestFields
  <2>2. Threshold(req.price, 1, settings.takePct) \in Nat
    BY <2>1, ThresholdUpNat
  <2> QED BY <2>2 DEF TakePrice
<1> QED BY <1>1, <1>3, <1>4, RequestFields DEF NewOrder, Order

-----------------------------------------------------------------------------
(***************************************************************************)
(* Reservations are finite sums of naturals.                               *)
(***************************************************************************)

LEMMA PendingFinite ==
  ASSUME TypeOK
  PROVE  /\ IsFiniteSet(Pending)
         /\ IsFiniteSet(Buys(Pending))
         /\ \A s : IsFiniteSet(SellsOf(Pending, s))
<1>1. IsFiniteSet(ClientIds)
  BY InputAssumption
<1>2. /\ Pending \subseteq ClientIds
      /\ Buys(Pending) \subseteq ClientIds
      /\ \A s : SellsOf(Pending, s) \subseteq ClientIds
  BY DEF Pending, WithStatus, Buys, SellsOf
<1> QED BY <1>1, <1>2, FS_Subset

LEMMA ReservationsNat ==
  ASSUME TypeOK
  PROVE  /\ \A c \in Pending : Cost[c] \in Nat /\ Units[c] \in Nat
         /\ \A c \in Pending : Cost[c] = orders[c].notional + orders[c].fee
         /\ \A c \in Pending : Units[c] = orders[c].quantity
         /\ ReservedCash \in Nat
         /\ \A s : ReservedUnits(s) \in Nat
<1>1. \A c \in Pending : c \in ClientIds /\ orders[c] \in Order
  BY PlacedOrder DEF Pending, WithStatus
<1>2. \A c \in Pending : /\ Cost[c] \in Nat /\ Cost[c] = orders[c].notional + orders[c].fee
                         /\ Units[c] \in Nat /\ Units[c] = orders[c].quantity
  BY <1>1 DEF Cost, Units, Order
<1>3. Buys(Pending) \subseteq Pending /\ \A s : SellsOf(Pending, s) \subseteq Pending
  BY DEF Buys, SellsOf
<1>4. ReservedCash \in Nat
  BY <1>2, <1>3, PendingFinite, TotalNat DEF ReservedCash
<1>5. ASSUME NEW s PROVE ReservedUnits(s) \in Nat
  BY <1>2, <1>3, PendingFinite, TotalNat DEF ReservedUnits
<1> QED BY <1>2, <1>4, <1>5

\* What one pending order reserves is part of the sum.
LEMMA ReservedAtLeast ==
  ASSUME TypeOK, NEW c \in Pending
  PROVE  /\ orders[c].side = "buy" => orders[c].notional + orders[c].fee <= ReservedCash
         /\ orders[c].side = "sell" => orders[c].quantity <= ReservedUnits(orders[c].symbol)
<1>1. CASE orders[c].side = "buy"
  <2>1. c \in Buys(Pending) /\ \A d \in Buys(Pending) : Cost[d] \in Nat
    BY <1>1, ReservationsNat DEF Buys
  <2>2. Cost[c] <= ReservedCash
    BY <2>1, PendingFinite, TotalBound DEF ReservedCash
  <2> QED BY <1>1, <2>2, ReservationsNat
<1>2. CASE orders[c].side = "sell"
  <2> DEFINE s == orders[c].symbol
  <2>1. c \in SellsOf(Pending, s) /\ \A d \in SellsOf(Pending, s) : Units[d] \in Nat
    BY <1>2, ReservationsNat DEF SellsOf
  <2>2. Units[c] <= ReservedUnits(s)
    BY <2>1, PendingFinite, TotalBound DEF ReservedUnits
  <2> QED BY <1>2, <2>2, ReservationsNat
<1>3. orders[c] \in Order
  BY PlacedOrder DEF Pending, WithStatus
<1> QED BY <1>1, <1>2, <1>3 DEF Order
-----------------------------------------------------------------------------
(***************************************************************************)
(* How the reservations change when an order is placed, and when one is    *)
(* filled or cancelled.                                                    *)
(***************************************************************************)

LEMMA Joined ==
  ASSUME TypeOK, NEW c \in ClientIds, orders[c].status = "none",
         NEW o \in Order, o.status = "pending",
         orders' = [orders EXCEPT ![c] = o]
  PROVE  /\ c \notin Pending /\ Pending' = Pending \cup {c}
         /\ ReservedCash' =
              IF o.side = "buy" THEN ReservedCash + o.notional + o.fee ELSE ReservedCash
         /\ \A s : ReservedUnits(s)' =
              IF o.side = "sell" /\ o.symbol = s THEN ReservedUnits(s) + o.quantity
              ELSE ReservedUnits(s)
<1>1. /\ orders'[c] = o
      /\ \A d \in ClientIds : d # c => orders'[d] = orders[d]
  BY DEF TypeOK
<1>2. c \notin Pending /\ Pending' = Pending \cup {c}
  BY <1>1 DEF Pending, WithStatus
<1>3. /\ \A d \in Pending : /\ d \in ClientIds
                            /\ Cost'[d] = Cost[d] /\ Cost[d] \in Nat
                            /\ Units'[d] = Units[d] /\ Units[d] \in Nat
      /\ Cost'[c] = o.notional + o.fee /\ Cost'[c] \in Nat
      /\ Units'[c] = o.quantity /\ Units'[c] \in Nat
  <2>1. \A d \in Pending : d \in ClientIds /\ d # c
    BY <1>2 DEF Pending, WithStatus
  <2>2. o.notional \in Nat /\ o.fee \in Nat /\ o.quantity \in Nat
    BY DEF Order
  <2>3. \A d \in Pending : Cost'[d] = Cost[d] /\ Units'[d] = Units[d]
    BY <1>1, <2>1 DEF Cost, Units
  <2>4. Cost'[c] = o.notional + o.fee /\ Units'[c] = o.quantity
    BY <1>1 DEF Cost, Units
  <2> QED BY <2>1, <2>2, <2>3, <2>4, ReservationsNat
<1>4. ReservedCash' =
        IF o.side = "buy" THEN ReservedCash + o.notional + o.fee ELSE ReservedCash
  <2>1. Total(Buys(Pending), Cost') = ReservedCash
    BY <1>3, TotalSame DEF ReservedCash, Buys
  <2>2. CASE o.side = "buy"
    <3>1. Buys(Pending)' = Buys(Pending) \cup {c} /\ c \notin Buys(Pending)
      BY <1>1, <1>2, <1>3, <2>2 DEF Buys
    <3>2. \A d \in Buys(Pending) \cup {c} : Cost'[d] \in Nat
      BY <1>3 DEF Buys
    <3>3. Total(Buys(Pending) \cup {c}, Cost') = Total(Buys(Pending), Cost') + Cost'[c]
      BY <3>1, <3>2, PendingFinite, TotalAdd
    <3> QED BY <1>3, <2>1, <2>2, <3>1, <3>3, ReservationsNat DEF ReservedCash, Order
  <2>3. CASE o.side # "buy"
    <3>1. Buys(Pending)' = Buys(Pending)
      BY <1>1, <1>2, <1>3, <2>3 DEF Buys
    <3> QED BY <2>1, <2>3, <3>1 DEF ReservedCash
  <2> QED BY <2>2, <2>3
<1>5. ASSUME NEW s
      PROVE  ReservedUnits(s)' =
              IF o.side = "sell" /\ o.symbol = s THEN ReservedUnits(s) + o.quantity
              ELSE ReservedUnits(s)
  <2>1. Total(SellsOf(Pending, s), Units') = ReservedUnits(s)
    BY <1>3, TotalSame DEF ReservedUnits, SellsOf
  <2>2. CASE o.side = "sell" /\ o.symbol = s
    <3>1. SellsOf(Pending, s)' = SellsOf(Pending, s) \cup {c} /\ c \notin SellsOf(Pending, s)
      BY <1>1, <1>2, <1>3, <2>2 DEF SellsOf
    <3>2. \A d \in SellsOf(Pending, s) \cup {c} : Units'[d] \in Nat
      BY <1>3 DEF SellsOf
    <3>3. Total(SellsOf(Pending, s) \cup {c}, Units')
            = Total(SellsOf(Pending, s), Units') + Units'[c]
      BY <3>1, <3>2, PendingFinite, TotalAdd
    <3> QED BY <1>3, <2>1, <2>2, <3>1, <3>3 DEF ReservedUnits
  <2>3. CASE ~(o.side = "sell" /\ o.symbol = s)
    <3>1. SellsOf(Pending, s)' = SellsOf(Pending, s)
      BY <1>1, <1>2, <1>3, <2>3 DEF SellsOf
    <3> QED BY <2>1, <2>3, <3>1 DEF ReservedUnits
  <2> QED BY <2>2, <2>3
<1> QED BY <1>2, <1>4, <1>5

LEMMA Released ==
  ASSUME TypeOK, NEW c \in Pending, NEW st \in {"filled", "cancelled"},
         orders' = [orders EXCEPT ![c].status = st]
  PROVE  /\ Pending' = Pending \ {c}
         /\ ReservedCash' = IF orders[c].side = "buy"
                            THEN ReservedCash - (orders[c].notional + orders[c].fee)
                            ELSE ReservedCash
         /\ \A s : ReservedUnits(s)' =
                      IF orders[c].side = "sell" /\ orders[c].symbol = s
                      THEN ReservedUnits(s) - orders[c].quantity ELSE ReservedUnits(s)
<1>1. c \in ClientIds /\ orders[c] \in Order
  BY PlacedOrder DEF Pending, WithStatus
<1>2. /\ orders'[c].status = st
      /\ \A d \in ClientIds : d # c => orders'[d] = orders[d]
  BY <1>1 DEF TypeOK, Order
<1>3. Pending' = Pending \ {c}
  BY <1>2 DEF Pending, WithStatus
<1>4. \A d \in Pending \ {c} : /\ orders'[d] = orders[d] /\ d \in ClientIds
                               /\ Cost'[d] = Cost[d] /\ Units'[d] = Units[d]
  BY <1>2 DEF Pending, WithStatus, Cost, Units
<1>5. \A d \in Pending : Cost[d] \in Nat /\ Units[d] \in Nat
  BY ReservationsNat
<1>6. ReservedCash' = IF orders[c].side = "buy"
                      THEN ReservedCash - (orders[c].notional + orders[c].fee)
                      ELSE ReservedCash
  <2>1. Buys(Pending)' = Buys(Pending) \ {c}
    BY <1>3, <1>4 DEF Buys
  <2>2. Total(Buys(Pending) \ {c}, Cost') = Total(Buys(Pending) \ {c}, Cost)
    BY <1>4, TotalSame DEF Buys
  <2>3. CASE orders[c].side = "buy"
    <3>1. c \in Buys(Pending) /\ \A d \in Buys(Pending) : Cost[d] \in Nat
      BY <1>5, <2>3 DEF Buys
    <3>2. Total(Buys(Pending) \ {c}, Cost) = Total(Buys(Pending), Cost) - Cost[c]
      BY <3>1, PendingFinite, TotalRemove
    <3> QED BY <2>1, <2>2, <2>3, <3>2, ReservationsNat DEF ReservedCash
  <2>4. CASE orders[c].side # "buy"
    <3>1. Buys(Pending) \ {c} = Buys(Pending)
      BY <2>4 DEF Buys
    <3> QED BY <2>1, <2>2, <2>4, <3>1 DEF ReservedCash
  <2> QED BY <2>3, <2>4
<1>7. ASSUME NEW s
      PROVE  ReservedUnits(s)' =
               IF orders[c].side = "sell" /\ orders[c].symbol = s
               THEN ReservedUnits(s) - orders[c].quantity ELSE ReservedUnits(s)
  <2>1. SellsOf(Pending, s)' = SellsOf(Pending, s) \ {c}
    BY <1>3, <1>4 DEF SellsOf
  <2>2. Total(SellsOf(Pending, s) \ {c}, Units') = Total(SellsOf(Pending, s) \ {c}, Units)
    BY <1>4, TotalSame DEF SellsOf
  <2>3. CASE orders[c].side = "sell" /\ orders[c].symbol = s
    <3>1. c \in SellsOf(Pending, s) /\ \A d \in SellsOf(Pending, s) : Units[d] \in Nat
      BY <1>5, <2>3 DEF SellsOf
    <3>2. Total(SellsOf(Pending, s) \ {c}, Units) = Total(SellsOf(Pending, s), Units) - Units[c]
      BY <3>1, PendingFinite, TotalRemove
    <3> QED BY <2>1, <2>2, <2>3, <3>2, ReservationsNat DEF ReservedUnits
  <2>4. CASE ~(orders[c].side = "sell" /\ orders[c].symbol = s)
    <3>1. SellsOf(Pending, s) \ {c} = SellsOf(Pending, s)
      BY <2>4 DEF SellsOf
    <3> QED BY <2>1, <2>2, <2>4, <3>1 DEF ReservedUnits
  <2> QED BY <2>3, <2>4
<1> QED BY <1>3, <1>6, <1>7

-----------------------------------------------------------------------------
(***************************************************************************)
(* The invariant.                                                          *)
(***************************************************************************)

LEMMA InitIInv == Init => IInv
<1> SUFFICES ASSUME Init PROVE IInv
  OBVIOUS
<1>1. TypeOK
  BY InputAssumption DEF Init, TypeOK, EmptyHolding
<1>2. Pending = {}
  BY DEF Init, Pending, WithStatus, Absent
<1>3. Buys(Pending) = {} /\ \A s : SellsOf(Pending, s) = {}
  BY <1>2 DEF Buys, SellsOf
<1>4. ReservedCash = 0 /\ \A s : ReservedUnits(s) = 0
  BY <1>3, TotalEmpty DEF ReservedCash, ReservedUnits
<1>5. CashCovered /\ UnitsCovered
  BY <1>4 DEF CashCovered, UnitsCovered, Init, EmptyHolding
<1>6. FeesBelowValue /\ UnopenedIsEmpty
  BY DEF FeesBelowValue, UnopenedIsEmpty, Init, Absent, EmptyHolding
<1> QED BY <1>1, <1>5, <1>6 DEF IInv

\* What a state's reservations are is a matter of its orders.
LEMMA OrdersStay ==
  ASSUME orders' = orders
  PROVE  /\ Pending' = Pending
         /\ ReservedCash' = ReservedCash
         /\ \A s : ReservedUnits(s)' = ReservedUnits(s)
BY DEF Pending, WithStatus, ReservedCash, ReservedUnits, Buys, SellsOf, Cost, Units

LEMMA CreateIInv ==
  ASSUME IInv, NEW amount \in InitialAmounts, Create(amount)
  PROVE  IInv'
<1> USE DEF IInv
<1>1. TypeOK'
  BY InputAssumption DEF Create, TypeOK
<1>2. Pending = {}
  BY DEF Create, UnopenedIsEmpty, Pending, WithStatus, Absent
<1>3. Buys(Pending) = {} /\ \A s : SellsOf(Pending, s) = {}
  BY <1>2 DEF Buys, SellsOf
<1>4. ReservedCash' = 0
  BY <1>3, TotalEmpty, OrdersStay DEF ReservedCash, Create
<1>5. CashCovered'
  BY <1>1, <1>4 DEF CashCovered, TypeOK
<1>6. UnitsCovered'
  BY OrdersStay DEF UnitsCovered, Create
<1>7. FeesBelowValue' /\ UnopenedIsEmpty'
  BY InputAssumption DEF FeesBelowValue, UnopenedIsEmpty, Create
<1> QED BY <1>1, <1>5, <1>6, <1>7

LEMMA ChangeSettingsIInv ==
  ASSUME IInv, NEW s \in SettingsChoices, ChangeSettings(s)
  PROVE  IInv'
<1> USE DEF IInv
<1>1. TypeOK'
  BY InputAssumption DEF ChangeSettings, TypeOK
<1>2. CashCovered' /\ UnitsCovered'
  BY OrdersStay DEF CashCovered, UnitsCovered, ChangeSettings
<1>3. FeesBelowValue' /\ UnopenedIsEmpty'
  BY DEF FeesBelowValue, UnopenedIsEmpty, ChangeSettings
<1> QED BY <1>1, <1>2, <1>3

LEMMA ReserveIInv ==
  ASSUME IInv, NEW c \in ClientIds, NEW req \in Request, NEW managed, Reserve(c, req, managed)
  PROVE  IInv'
<1> USE DEF IInv
<1> DEFINE o == NewOrder(req, "pending")
<1>1. /\ initial # 0 /\ orders[c].status = "none" /\ OrderAllowed(req)
      /\ orders' = [orders EXCEPT ![c] = o]
      /\ UNCHANGED <<initial, cash, settings, holdings, trades>>
  BY DEF Reserve
<1>2. /\ o \in Order /\ o.status = "pending" /\ o.side = req.side /\ o.symbol = req.symbol
      /\ o.quantity = req.quantity /\ o.fee = req.fee /\ o.notional = Gross(req)
      /\ o.fee < o.notional
  BY <1>1, UserRequest, AcceptedOrder DEF OrderAllowed, NewOrder
<1> HIDE DEF o
<1>3. TypeOK'
  BY <1>1, <1>2 DEF TypeOK
<1>4. CashCovered'
  <2>1. ReservedCash' = IF o.side = "buy" THEN ReservedCash + o.notional + o.fee
                        ELSE ReservedCash
    BY <1>1, <1>2, Joined
  <2>2. o.side = "buy" => o.notional + o.fee <= cash - ReservedCash
    BY <1>1, <1>2 DEF OrderAllowed, BuyAllowed, CashAvailable
  <2>3. cash \in Nat /\ ReservedCash \in Nat /\ o.notional \in Nat /\ o.fee \in Nat
    BY <1>2, ReservationsNat DEF TypeOK, Order
  <2> QED BY <1>1, <2>1, <2>2, <2>3 DEF CashCovered
<1>5. UnitsCovered'
  <2> SUFFICES ASSUME NEW s \in Symbols PROVE (ReservedUnits(s) <= holdings[s].quantity)'
    BY DEF UnitsCovered
  <2>1. ReservedUnits(s)' = IF o.side = "sell" /\ o.symbol = s
                            THEN ReservedUnits(s) + o.quantity ELSE ReservedUnits(s)
    BY <1>1, <1>2, Joined
  <2>2. o.side = "sell" => o.quantity <= holdings[o.symbol].quantity - ReservedUnits(o.symbol)
    BY <1>1, <1>2 DEF OrderAllowed, SellAllowed
  <2>3. /\ ReservedUnits(s) \in Nat /\ holdings[s].quantity \in Nat /\ o.quantity \in Nat
        /\ ReservedUnits(s) <= holdings[s].quantity
    BY <1>2, ReservationsNat DEF TypeOK, Order, UnitsCovered
  <2> QED BY <1>1, <2>1, <2>2, <2>3
<1>6. FeesBelowValue' /\ UnopenedIsEmpty'
  BY <1>1, <1>2 DEF FeesBelowValue, UnopenedIsEmpty, TypeOK
<1> QED BY <1>3, <1>4, <1>5, <1>6

\* The holding an order leaves when it is filled, and the cash (accounting.py:20-36).
LEMMA OrderFits ==
  ASSUME TypeOK, NEW o \in Order, o.fee < o.notional,
         o.side = "buy" => o.notional + o.fee <= cash,
         o.side = "sell" => o.quantity <= holdings[o.symbol].quantity
  PROVE  LET h == holdings[o.symbol]
         IN  /\ o.symbol \in Symbols
             /\ Filled(h, o) \in [quantity: Nat, basis: Nat, realized: Int]
             /\ Filled(h, o).quantity = IF o.side = "buy" THEN h.quantity + o.quantity
                                        ELSE h.quantity - o.quantity
             /\ Filled(h, o).quantity = 0 => Filled(h, o).basis = 0
             /\ Filled(h, o).basis - Filled(h, o).realized =
                  IF o.side = "buy" THEN (h.basis - h.realized) + (o.notional + o.fee)
                  ELSE (h.basis - h.realized) - (o.notional - o.fee)
             /\ CashChange(o.side, o.notional, o.fee)
                  = IF o.side = "buy" THEN -(o.notional + o.fee) ELSE o.notional - o.fee
             /\ cash + CashChange(o.side, o.notional, o.fee) \in Nat
<1> DEFINE h == holdings[o.symbol]
<1>1. /\ o.symbol \in Symbols /\ o.side \in {"buy", "sell"}
      /\ o.quantity \in Nat \ {0} /\ o.notional \in Nat /\ o.fee \in Nat
  BY DEF Order
<1>2. h \in [quantity: Nat, basis: Nat, realized: Int] /\ cash \in Nat
  BY <1>1 DEF TypeOK
<1> HIDE DEF h
<1>5. CASE o.side = "buy"
  <2>2. Filled(h, o) = [quantity |-> h.quantity + o.quantity,
                        basis    |-> h.basis + o.notional + o.fee,
                        realized |-> h.realized]
    BY <1>2, <1>5 DEF Filled, BuyFill
  <2>3. /\ Filled(h, o) \in [quantity: Nat, basis: Nat, realized: Int]
        /\ Filled(h, o).quantity = h.quantity + o.quantity
        /\ Filled(h, o).quantity # 0
        /\ Filled(h, o).basis - Filled(h, o).realized
             = (h.basis - h.realized) + (o.notional + o.fee)
    BY <1>1, <1>2, <2>2
  <2> QED BY <1>1, <1>2, <1>5, <2>3 DEF CashChange, h
<1>6. CASE o.side = "sell"
  <2>1. o.quantity <= h.quantity
    BY <1>6 DEF h
  <2>2. BasisSold(h, o.quantity) \in Nat /\ BasisSold(h, o.quantity) <= h.basis
    BY <1>1, <1>2, <2>1, BasisSoldBound
  <2>3. Filled(h, o) =
          [quantity |-> h.quantity - o.quantity,
           basis    |-> h.basis - BasisSold(h, o.quantity),
           realized |-> h.realized + (o.notional - o.fee - BasisSold(h, o.quantity))]
    BY <1>6 DEF Filled, SellFill
  <2>4. /\ Filled(h, o) \in [quantity: Nat, basis: Nat, realized: Int]
        /\ Filled(h, o).quantity = h.quantity - o.quantity
        /\ Filled(h, o).basis - Filled(h, o).realized
             = (h.basis - h.realized) - (o.notional - o.fee)
    BY <1>1, <1>2, <2>1, <2>2, <2>3
  <2>5. ASSUME Filled(h, o).quantity = 0 PROVE Filled(h, o).basis = 0
    <3>1. o.quantity = h.quantity
      BY <1>1, <1>2, <2>4, <2>5
    <3>2. BasisSold(h, o.quantity) = h.basis
      BY <3>1 DEF BasisSold
    <3> QED BY <1>2, <2>3, <3>2
  <2>6. CashChange(o.side, o.notional, o.fee) = o.notional - o.fee
    BY <1>6 DEF CashChange
  <2> QED BY <1>1, <1>2, <1>6, <2>4, <2>5, <2>6 DEF h
<1> QED BY <1>1, <1>5, <1>6

\* A pending order is covered by its reservation when it is filled.
LEMMA PendingFits ==
  ASSUME IInv, NEW c \in ClientIds, orders[c].status = "pending"
  PROVE  LET o == orders[c]
         IN  /\ o \in Order /\ o.fee < o.notional
             /\ o.side = "buy" => o.notional + o.fee <= cash
             /\ o.side = "sell" => o.quantity <= holdings[o.symbol].quantity
<1> USE DEF IInv
<1> DEFINE o == orders[c]
<1>1. /\ o \in Order /\ o.symbol \in Symbols /\ o.quantity \in Nat
      /\ o.notional \in Nat /\ o.fee \in Nat /\ o.fee < o.notional
  BY PlacedOrder DEF Order, FeesBelowValue
<1>2. holdings[o.symbol].quantity \in Nat /\ cash \in Nat
  BY <1>1 DEF TypeOK
<1>3. c \in Pending
  BY DEF Pending, WithStatus
<1> HIDE DEF o
<1>4. o.side = "buy" => o.notional + o.fee <= cash
  <2>1. o.side = "buy" => o.notional + o.fee <= ReservedCash
    BY <1>3, ReservedAtLeast DEF o
  <2> QED BY <1>1, <1>2, <2>1, ReservationsNat DEF CashCovered
<1>5. o.side = "sell" => o.quantity <= holdings[o.symbol].quantity
  <2>1. o.side = "sell" => o.quantity <= ReservedUnits(o.symbol)
    BY <1>3, ReservedAtLeast DEF o
  <2>2. ReservedUnits(o.symbol) <= holdings[o.symbol].quantity
    BY <1>1 DEF UnitsCovered
  <2> QED BY <1>1, <1>2, <2>1, <2>2, ReservationsNat
<1> QED BY <1>1, <1>4, <1>5 DEF o

LEMMA FillFits ==
  ASSUME IInv, NEW c \in ClientIds, orders[c].status = "pending"
  PROVE  LET o == orders[c]
             h == holdings[o.symbol]
         IN  /\ o.symbol \in Symbols
             /\ Filled(h, o) \in [quantity: Nat, basis: Nat, realized: Int]
             /\ Filled(h, o).quantity = IF o.side = "buy" THEN h.quantity + o.quantity
                                        ELSE h.quantity - o.quantity
             /\ Filled(h, o).quantity = 0 => Filled(h, o).basis = 0
             /\ CashChange(o.side, o.notional, o.fee)
                  = IF o.side = "buy" THEN -(o.notional + o.fee) ELSE o.notional - o.fee
             /\ cash + CashChange(o.side, o.notional, o.fee) \in Nat
BY PendingFits, OrderFits DEF IInv

LEMMA FillIInv ==
  ASSUME IInv, NEW c \in ClientIds, Fill(c)
  PROVE  IInv'
<1> USE DEF IInv
<1> DEFINE o == orders[c]
           h == holdings[o.symbol]
           change == CashChange(o.side, o.notional, o.fee)
<1>1. /\ o.status = "pending" /\ c \in Pending
      /\ holdings' = [holdings EXCEPT ![o.symbol] = Filled(h, o)]
      /\ cash' = cash + change
      /\ trades' = trades \cup {[order |-> c, realized |-> Filled(h, o).realized - h.realized]}
      /\ orders' = [orders EXCEPT ![c].status = "filled"]
      /\ initial' = initial /\ settings' = settings
  BY DEF Fill, Completable, BookFill, Pending, WithStatus
<1>2. /\ o.symbol \in Symbols
      /\ Filled(h, o) \in [quantity: Nat, basis: Nat, realized: Int]
      /\ Filled(h, o).quantity = IF o.side = "buy" THEN h.quantity + o.quantity
                                 ELSE h.quantity - o.quantity
      /\ change = IF o.side = "buy" THEN -(o.notional + o.fee) ELSE o.notional - o.fee
      /\ cash + change \in Nat
  BY <1>1, FillFits
<1>3. /\ o \in Order /\ o.side \in {"buy", "sell"}
      /\ o.quantity \in Nat /\ o.notional \in Nat /\ o.fee \in Nat /\ o.fee < o.notional
  BY <1>1, PlacedOrder DEF Order, FeesBelowValue
<1>4. h \in [quantity: Nat, basis: Nat, realized: Int] /\ cash \in Nat
  BY <1>2 DEF TypeOK
<1>5. /\ [o EXCEPT !.status = "filled"] \in Order
      /\ orders' = [orders EXCEPT ![c] = [o EXCEPT !.status = "filled"]]
  BY <1>1, <1>3 DEF Order
<1>6. /\ ReservedCash' = IF o.side = "buy" THEN ReservedCash - (o.notional + o.fee)
                         ELSE ReservedCash
      /\ \A s : ReservedUnits(s)' = IF o.side = "sell" /\ o.symbol = s
                                    THEN ReservedUnits(s) - o.quantity ELSE ReservedUnits(s)
  BY <1>1, Released
<1> HIDE DEF o, h, change
<1>7. TypeOK'
  <2>1. initial' \in Nat /\ cash' \in Nat /\ settings' \in Setting
    BY <1>1, <1>2 DEF TypeOK
  <2>2. holdings' \in [Symbols -> [quantity: Nat, basis: Nat, realized: Int]]
    BY <1>1, <1>2 DEF TypeOK
  <2>3. orders' \in [ClientIds -> Order \cup {Absent}]
    BY <1>5 DEF TypeOK
  <2>4. trades' \subseteq [order: ClientIds, realized: Int]
    <3>1. Filled(h, o).realized - h.realized \in Int
      BY <1>2, <1>4
    <3> QED BY <1>1, <3>1 DEF TypeOK
  <2> QED BY <2>1, <2>2, <2>3, <2>4 DEF TypeOK
<1>8. CashCovered'
  BY <1>1, <1>2, <1>3, <1>4, <1>6, ReservationsNat DEF CashCovered
<1>9. UnitsCovered'
  <2> SUFFICES ASSUME NEW s \in Symbols PROVE ReservedUnits(s)' <= holdings'[s].quantity
    BY DEF UnitsCovered
  <2>1. /\ ReservedUnits(s) \in Nat /\ holdings[s].quantity \in Nat
        /\ ReservedUnits(s) <= holdings[s].quantity
    BY ReservationsNat DEF UnitsCovered, TypeOK
  <2>2. CASE s = o.symbol
    <3>1. holdings'[s] = Filled(h, o) /\ holdings[s] = h
      BY <1>1, <1>2, <2>2 DEF TypeOK, h
    <3> QED BY <1>2, <1>3, <1>6, <2>1, <2>2, <3>1
  <2>3. CASE s # o.symbol
    <3>1. holdings'[s] = holdings[s]
      BY <1>1, <2>3 DEF TypeOK
    <3> QED BY <1>6, <2>1, <2>3, <3>1
  <2> QED BY <2>2, <2>3
<1>10. FeesBelowValue' /\ UnopenedIsEmpty'
  <2>1. FeesBelowValue'
    BY <1>3, <1>5 DEF FeesBelowValue, TypeOK, Order
  <2>2. initial # 0
    BY <1>1 DEF UnopenedIsEmpty, Absent, o
  <2> QED BY <1>1, <2>1, <2>2 DEF UnopenedIsEmpty
<1> QED BY <1>7, <1>8, <1>9, <1>10

LEMMA CancelIInv ==
  ASSUME IInv, NEW c \in ClientIds, Cancel(c)
  PROVE  IInv'
<1> USE DEF IInv
<1> DEFINE o == orders[c]
<1>1. /\ o.status = "pending" /\ c \in Pending
      /\ orders' = [orders EXCEPT ![c].status = "cancelled"]
      /\ UNCHANGED <<initial, cash, settings, holdings, trades>>
  BY DEF Cancel, Completable, Pending, WithStatus
<1>2. /\ o \in Order /\ o.quantity \in Nat /\ o.notional \in Nat /\ o.fee \in Nat
      /\ o.fee < o.notional
  BY <1>1, PlacedOrder DEF Order, FeesBelowValue
<1>3. /\ [o EXCEPT !.status = "cancelled"] \in Order
      /\ orders' = [orders EXCEPT ![c] = [o EXCEPT !.status = "cancelled"]]
  BY <1>1, <1>2 DEF Order
<1>4. /\ ReservedCash' = IF o.side = "buy" THEN ReservedCash - (o.notional + o.fee)
                         ELSE ReservedCash
      /\ \A s : ReservedUnits(s)' = IF o.side = "sell" /\ o.symbol = s
                                    THEN ReservedUnits(s) - o.quantity ELSE ReservedUnits(s)
  BY <1>1, Released
<1> HIDE DEF o
<1>5. TypeOK'
  BY <1>1, <1>3 DEF TypeOK
<1>6. CashCovered'
  BY <1>1, <1>2, <1>4, ReservationsNat DEF CashCovered, TypeOK
<1>7. UnitsCovered'
  <2> SUFFICES ASSUME NEW s \in Symbols PROVE ReservedUnits(s)' <= holdings[s].quantity
    BY <1>1 DEF UnitsCovered
  <2>1. /\ ReservedUnits(s) \in Nat /\ holdings[s].quantity \in Nat
        /\ ReservedUnits(s) <= holdings[s].quantity
    BY ReservationsNat DEF UnitsCovered, TypeOK
  <2> QED BY <1>2, <1>4, <2>1
<1>8. FeesBelowValue' /\ UnopenedIsEmpty'
  <2>1. FeesBelowValue'
    BY <1>2, <1>3 DEF FeesBelowValue, TypeOK, Order
  <2>2. initial # 0
    BY <1>1 DEF UnopenedIsEmpty, Absent, o
  <2> QED BY <1>1, <2>1, <2>2 DEF UnopenedIsEmpty
<1> QED BY <1>5, <1>6, <1>7, <1>8

LEMMA NextIInv ==
  ASSUME IInv, [Next]_pvars
  PROVE  IInv'
<1>1. CASE \E amount \in InitialAmounts : Create(amount)
  BY <1>1, CreateIInv
<1>2. CASE \E s \in SettingsChoices : ChangeSettings(s)
  BY <1>2, ChangeSettingsIInv
<1>3. CASE \E c \in ClientIds : \E req \in Request : Reserve(c, req, 0)
  BY <1>3, ReserveIInv
<1>4. CASE \E c \in ClientIds : Fill(c)
  BY <1>4, FillIInv
<1>5. CASE \E c \in ClientIds : Cancel(c)
  BY <1>5, CancelIInv
<1>6. CASE UNCHANGED pvars
  BY <1>6, OrdersStay
     DEF pvars, IInv, TypeOK, FeesBelowValue, UnopenedIsEmpty, CashCovered, UnitsCovered
<1> QED BY <1>1, <1>2, <1>3, <1>4, <1>5, <1>6 DEF Next

\* IInv holds of every state of every run.
THEOREM Invariance == Spec => []IInv
<1>1. Init => IInv
  BY InitIInv
<1>2. IInv /\ [Next]_pvars => IInv'
  BY NextIInv
<1> QED BY <1>1, <1>2, PTL DEF Spec

(***************************************************************************)
(* Amounts stay in the range of their columns: cash, units and cost basis  *)
(* never become negative, so no CHECK of 004_portfolio.sql refuses a fill. *)
(***************************************************************************)
THEOREM TypeCorrect == Spec => []TypeOK
<1>1. IInv => TypeOK
  BY DEF IInv
<1> QED BY <1>1, Invariance, PTL

(***************************************************************************)
(* The cash and the units set aside for the pending orders are always      *)
(* there, whatever orders were placed, filled and cancelled before         *)
(* (service.py:70-129).                                                    *)
(***************************************************************************)
THEOREM ReservationsAreCovered == Spec => []ReservationsCovered
<1>1. IInv => ReservationsCovered
  BY DEF IInv, ReservationsCovered
<1> QED BY <1>1, Invariance, PTL

-----------------------------------------------------------------------------
(***************************************************************************)
(* A sold-out holding has no cost left, at any Scale and after any sales,  *)
(* since the last sale takes the rest and not a rounded share.             *)
(***************************************************************************)
THEOREM BasisNeverStranded == Spec => []NoStrandedBasis
<1>1. Init => NoStrandedBasis
  BY DEF Init, NoStrandedBasis, EmptyHolding
<1>2. ASSUME IInv, NoStrandedBasis, [Next]_pvars
      PROVE  NoStrandedBasis'
  <2>1. ASSUME NEW c \in ClientIds, Fill(c)
        PROVE  NoStrandedBasis'
    <3> DEFINE o == orders[c]
    <3>1. /\ o.status = "pending"
          /\ holdings' = [holdings EXCEPT ![o.symbol] = Filled(holdings[o.symbol], o)]
      BY <2>1 DEF Fill, Completable, BookFill
    <3>2. LET f == Filled(holdings[o.symbol], o) IN f.quantity = 0 => f.basis = 0
      BY <1>2, <3>1, FillFits
    <3>3. holdings \in [Symbols -> [quantity: Nat, basis: Nat, realized: Int]]
      BY <1>2 DEF IInv, TypeOK
    <3> QED BY <1>2, <3>1, <3>2, <3>3 DEF NoStrandedBasis
  <2>2. CASE UNCHANGED holdings
    BY <1>2, <2>2 DEF NoStrandedBasis
  <2> QED BY <1>2, <2>1, <2>2 DEF Next, Create, ChangeSettings, Reserve, Cancel, pvars
<1> QED BY <1>1, <1>2, Invariance, PTL DEF Spec

(***************************************************************************)
(* No call changes an order that is filled or cancelled.                   *)
(***************************************************************************)
THEOREM OrderHistoryStays == Spec => HistoryStays
<1>1. ASSUME TypeOK, [Next]_pvars, NEW c \in ClientIds,
             orders[c].status \in {"filled", "cancelled"}
      PROVE  orders'[c] = orders[c]
  <2>1. ASSUME NEW d \in ClientIds, orders[d].status \in {"none", "pending"},
               NEW o, orders' = [orders EXCEPT ![d] = o]
        PROVE  orders'[c] = orders[c]
    BY <1>1, <2>1 DEF TypeOK
  <2>2. ASSUME NEW d \in ClientIds, NEW req \in Request, Reserve(d, req, 0)
        PROVE  orders'[c] = orders[c]
    BY <2>1, <2>2 DEF Reserve
  <2>3. ASSUME NEW d \in ClientIds, Fill(d) \/ Cancel(d)
        PROVE  orders'[c] = orders[c]
    BY <1>1, <2>3 DEF Fill, Cancel, Completable, TypeOK
  <2>4. CASE UNCHANGED orders
    BY <2>4
  <2> QED BY <1>1, <2>2, <2>3, <2>4 DEF Next, Create, ChangeSettings, pvars
<1>2. TypeOK /\ [Next]_pvars =>
        \A c \in ClientIds :
          orders[c].status \in {"filled", "cancelled"} => orders'[c] = orders[c]
  BY <1>1
<1> QED BY <1>2, TypeCorrect, PTL DEF Spec, HistoryStays

-----------------------------------------------------------------------------
(***************************************************************************)
(* The limits of the risk settings hold of what is open, for any settings  *)
(* the user may save.                                                      *)
(***************************************************************************)
LEMMA OpenFinite ==
  ASSUME TypeOK
  PROVE  /\ PositionSymbols \subseteq Symbols
         /\ IsFiniteSet(PositionSymbols) /\ IsFiniteSet(Pending)
         /\ Cardinality(PositionSymbols) \in Nat /\ Cardinality(Pending) \in Nat
<1>1. \A c \in Buys(Pending) : orders[c].symbol \in Symbols
  BY PlacedOrder DEF Buys, Pending, WithStatus, Order
<1>2. PositionSymbols \subseteq Symbols
  BY <1>1 DEF PositionSymbols
<1>3. IsFiniteSet(PositionSymbols)
  BY <1>2, InputAssumption, FS_Subset
<1> QED BY <1>2, <1>3, PendingFinite, FS_CardinalityType

LEMMA LimitsAfter ==
  ASSUME TypeOK, LimitsRespected, settings' = settings,
         Pending' \subseteq Pending, PositionSymbols' \subseteq PositionSymbols
  PROVE  LimitsRespected'
<1>1. Cardinality(Pending') <= Cardinality(Pending) /\ Cardinality(Pending') \in Nat
  BY OpenFinite, FS_Subset, FS_CardinalityType
<1>2. /\ Cardinality(PositionSymbols') <= Cardinality(PositionSymbols)
      /\ Cardinality(PositionSymbols') \in Nat
  BY OpenFinite, FS_Subset, FS_CardinalityType
<1>3. settings.maxTrades \in Nat /\ settings.maxPositions \in Nat
  BY DEF TypeOK, Setting
<1> QED BY <1>1, <1>2, <1>3, OpenFinite DEF LimitsRespected

LEMMA ReserveLimits ==
  ASSUME IInv, LimitsRespected,
         NEW c \in ClientIds, NEW req \in Request, NEW managed, Reserve(c, req, managed)
  PROVE  LimitsRespected'
<1> USE DEF IInv
<1> DEFINE o == NewOrder(req, "pending")
<1>1. /\ orders[c].status = "none" /\ OrderAllowed(req)
      /\ orders' = [orders EXCEPT ![c] = o]
      /\ UNCHANGED <<holdings, settings>>
  BY DEF Reserve
<1>2. o \in Order /\ o.status = "pending" /\ o.side = req.side /\ o.symbol = req.symbol
  BY <1>1, UserRequest, AcceptedOrder DEF OrderAllowed, NewOrder
<1> HIDE DEF o
<1>3. c \notin Pending /\ Pending' = Pending \cup {c}
  BY <1>1, <1>2, Joined
<1>4. orders'[c] = o /\ \A d \in Pending : d # c /\ orders'[d] = orders[d]
  BY <1>1, <1>3 DEF TypeOK, Pending, WithStatus
<1>5. Cardinality(Pending)' <= settings'.maxTrades
  <2>1. Cardinality(Pending') = Cardinality(Pending) + 1
    BY <1>3, OpenFinite, FS_AddElement
  <2>2. Cardinality(Pending) < settings.maxTrades /\ settings.maxTrades \in Nat
    BY <1>1 DEF OrderAllowed, TradeSlotFree, TypeOK, Setting
  <2> QED BY <1>1, <2>1, <2>2, OpenFinite
<1>6. Cardinality(PositionSymbols)' <= settings'.maxPositions
  <2>1. CASE req.side = "buy"
    <3>1. Buys(Pending)' = Buys(Pending) \cup {c}
      BY <1>2, <1>3, <1>4, <2>1 DEF Buys
    <3>2. PositionSymbols' = PositionSymbols \cup {req.symbol}
      BY <1>1, <1>2, <1>4, <3>1 DEF PositionSymbols, Buys
    <3> QED BY <1>1, <2>1, <3>2 DEF OrderAllowed, BuyAllowed
  <2>2. CASE req.side # "buy"
    <3>1. Buys(Pending)' = Buys(Pending)
      BY <1>2, <1>3, <1>4, <2>2 DEF Buys
    <3>2. PositionSymbols' = PositionSymbols
      BY <1>1, <1>4, <3>1 DEF PositionSymbols, Buys
    <3> QED BY <1>1, <3>2 DEF LimitsRespected
  <2> QED BY <2>1, <2>2
<1> QED BY <1>5, <1>6 DEF LimitsRespected

\* Filled or cancelled, an order leaves the open ones and opens no position.
LEMMA CompletionOpensNothing ==
  ASSUME IInv, NEW c \in ClientIds, Fill(c) \/ Cancel(c)
  PROVE  Pending' \subseteq Pending /\ PositionSymbols' \subseteq PositionSymbols
<1> USE DEF IInv
<1> DEFINE o == orders[c]
<1>1. PICK st \in {"filled", "cancelled"} : orders' = [orders EXCEPT ![c].status = st]
  BY DEF Fill, Cancel
<1>2. o.status = "pending" /\ c \in Pending
  BY DEF Fill, Cancel, Completable, Pending, WithStatus
<1>3. Pending' = Pending \ {c}
  BY <1>1, <1>2, Released
<1>4. \A d \in Pending' : d \in Pending /\ orders'[d] = orders[d]
  BY <1>1, <1>3 DEF TypeOK, Pending, WithStatus
<1>5. {orders'[d].symbol : d \in Buys(Pending)'} \subseteq {orders[d].symbol : d \in Buys(Pending)}
  BY <1>4 DEF Buys
<1>6. ASSUME NEW s \in Symbols, holdings'[s].quantity > 0
      PROVE  s \in PositionSymbols
  <2>1. CASE holdings' = holdings
    BY <1>6, <2>1 DEF PositionSymbols
  <2>2. CASE Fill(c)
    <3>1. /\ holdings' = [holdings EXCEPT ![o.symbol] = Filled(holdings[o.symbol], o)]
          /\ Filled(holdings[o.symbol], o).quantity =
               IF o.side = "buy" THEN holdings[o.symbol].quantity + o.quantity
               ELSE holdings[o.symbol].quantity - o.quantity
          /\ o.symbol \in Symbols
      BY <1>2, <2>2, FillFits DEF Fill, BookFill
    <3>2. holdings \in [Symbols -> [quantity: Nat, basis: Nat, realized: Int]]
      BY DEF TypeOK
    <3>3. CASE s # o.symbol
      BY <1>6, <3>1, <3>2, <3>3 DEF PositionSymbols
    <3>4. CASE s = o.symbol /\ o.side = "buy"
      BY <1>2, <3>4 DEF PositionSymbols, Buys
    <3>5. CASE s = o.symbol /\ o.side # "buy"
      <4>1. o.quantity \in Nat
        BY <1>2, PlacedOrder DEF Order
      <4>2. holdings'[s].quantity = holdings[s].quantity - o.quantity
        BY <3>1, <3>2, <3>5
      <4>3. holdings[s].quantity > 0
        BY <1>6, <3>2, <4>1, <4>2
      <4> QED BY <4>3 DEF PositionSymbols
    <3> QED BY <3>3, <3>4, <3>5
  <2> QED BY <2>1, <2>2 DEF Cancel
<1> QED BY <1>3, <1>5, <1>6 DEF PositionSymbols

LEMMA InitLimits == Init => LimitsRespected
<1> SUFFICES ASSUME Init PROVE LimitsRespected
  OBVIOUS
<1>1. Pending = {} /\ PositionSymbols = {}
  BY DEF Init, Pending, WithStatus, Absent, PositionSymbols, Buys, EmptyHolding
<1>2. settings.maxTrades \in Nat /\ settings.maxPositions \in Nat
  BY InitIInv DEF IInv, TypeOK, Setting
<1> QED BY <1>1, <1>2, FS_EmptySet DEF LimitsRespected

\* A portfolio is opened, or its limits are changed, without touching what is open.
LEMMA CreateLimits ==
  ASSUME LimitsRespected, NEW amount \in InitialAmounts, Create(amount)
  PROVE  LimitsRespected'
BY DEF Create, LimitsRespected, Pending, WithStatus, PositionSymbols, Buys

LEMMA ChangeSettingsLimits ==
  ASSUME NEW s \in SettingsChoices, ChangeSettings(s)
  PROVE  LimitsRespected'
BY DEF ChangeSettings, LimitsFit, LimitsRespected, Pending, WithStatus, PositionSymbols, Buys

LEMMA CompletionLimits ==
  ASSUME IInv, LimitsRespected, NEW c \in ClientIds, Fill(c) \/ Cancel(c)
  PROVE  LimitsRespected'
<1>1. settings' = settings
  BY DEF Fill, Cancel
<1> QED BY <1>1, CompletionOpensNothing, LimitsAfter DEF IInv

(***************************************************************************)
(* The number of pending orders and of positions stays within the saved    *)
(* limits, although limits, reservations, fills and cancellations come in  *)
(* any order (service.py:54-62, risk.py:17-34).                            *)
(***************************************************************************)
THEOREM LimitsHold == Spec => []LimitsRespected
<1>1. Init => LimitsRespected
  BY InitLimits
<1>2. ASSUME IInv, LimitsRespected, [Next]_pvars
      PROVE  LimitsRespected'
  <2>1. ASSUME NEW amount \in InitialAmounts, Create(amount)
        PROVE  LimitsRespected'
    BY <1>2, <2>1, CreateLimits
  <2>2. ASSUME NEW s \in SettingsChoices, ChangeSettings(s)
        PROVE  LimitsRespected'
    BY <2>2, ChangeSettingsLimits
  <2>3. ASSUME NEW c \in ClientIds, NEW req \in Request, Reserve(c, req, 0)
        PROVE  LimitsRespected'
    BY <1>2, <2>3, ReserveLimits
  <2>4. ASSUME NEW c \in ClientIds, Fill(c) \/ Cancel(c)
        PROVE  LimitsRespected'
    BY <1>2, <2>4, CompletionLimits
  <2>5. CASE UNCHANGED pvars
    BY <1>2, <2>5 DEF pvars, LimitsRespected, Pending, WithStatus, PositionSymbols, Buys
  <2> QED BY <1>2, <2>1, <2>2, <2>3, <2>4, <2>5 DEF Next
<1> QED BY <1>1, <1>2, Invariance, PTL DEF Spec

-----------------------------------------------------------------------------
(***************************************************************************)
(* Double entry: cash, units and cost basis are what the filled orders add *)
(* up to, for any Scale, so rounding loses nothing in the long run.        *)
(***************************************************************************)
\* The sums BooksBalance compares the books with.
Booked == WithStatus("filled")

Paid == Total(Buys(Booked), Cost)
Received == Total(Sells(Booked), Proceeds)

UnitsBought(s) == Total(Buys(FilledOf(s)), Units)
UnitsSold(s) == Total(Sells(FilledOf(s)), Units)
PaidFor(s) == Total(Buys(FilledOf(s)), Cost)
ReceivedFor(s) == Total(Sells(FilledOf(s)), Proceeds)

\* BooksBalance counts the trades, which says little unless they are finite.
BInv == BooksBalance /\ IsFiniteSet(trades)

LEMMA BooksInSums ==
  BooksBalance <=>
    /\ cash = initial - Paid + Received
    /\ \A s \in Symbols :
         /\ holdings[s].quantity = UnitsBought(s) - UnitsSold(s)
         /\ holdings[s].basis - holdings[s].realized = PaidFor(s) - ReceivedFor(s)
    /\ {t.order : t \in trades} = Booked
    /\ Cardinality(trades) = Cardinality(Booked)
BY DEF BooksBalance, Paid, Received, UnitsBought, UnitsSold, PaidFor, ReceivedFor, Booked

LEMMA BookedOrder ==
  ASSUME IInv, NEW c \in Booked
  PROVE  /\ c \in ClientIds /\ orders[c] \in Order
         /\ Cost[c] \in Nat /\ Cost[c] = orders[c].notional + orders[c].fee
         /\ Units[c] \in Nat /\ Units[c] = orders[c].quantity
         /\ Proceeds[c] \in Nat /\ Proceeds[c] = orders[c].notional - orders[c].fee
<1>1. c \in ClientIds /\ orders[c].status = "filled"
  BY DEF Booked, WithStatus
<1>2. orders[c] \in Order /\ orders[c].fee < orders[c].notional
  BY <1>1, PlacedOrder DEF IInv, FeesBelowValue
<1>3. /\ orders[c].notional \in Nat /\ orders[c].fee \in Nat /\ orders[c].quantity \in Nat
  BY <1>2 DEF Order
<1> QED BY <1>1, <1>2, <1>3 DEF Cost, Units, Proceeds

LEMMA BookedFinite ==
  /\ IsFiniteSet(Booked)
  /\ \A S : S \subseteq Booked => IsFiniteSet(S)
  /\ Buys(Booked) \subseteq Booked /\ Sells(Booked) \subseteq Booked
  /\ \A s : Buys(FilledOf(s)) \subseteq Booked /\ Sells(FilledOf(s)) \subseteq Booked
<1>1. IsFiniteSet(Booked)
  BY InputAssumption, FS_Subset DEF Booked, WithStatus
<1> QED BY <1>1, FS_Subset DEF Buys, Sells, FilledOf, Booked

LEMMA SumsNat ==
  ASSUME IInv
  PROVE  /\ Paid \in Nat /\ Received \in Nat
         /\ \A s : /\ UnitsBought(s) \in Nat /\ UnitsSold(s) \in Nat
                   /\ PaidFor(s) \in Nat /\ ReceivedFor(s) \in Nat
<1>1. ASSUME NEW S, S \subseteq Booked
      PROVE  Total(S, Cost) \in Nat /\ Total(S, Units) \in Nat /\ Total(S, Proceeds) \in Nat
  BY <1>1, BookedFinite, BookedOrder, TotalNat
<1> QED BY <1>1, BookedFinite DEF Paid, Received, UnitsBought, UnitsSold, PaidFor, ReceivedFor

\* Steps that book nothing leave the sums alone.
LEMMA SumsStay ==
  ASSUME Booked' = Booked, \A c \in Booked : orders'[c] = orders[c]
  PROVE  /\ Paid' = Paid /\ Received' = Received
         /\ \A s : /\ UnitsBought(s)' = UnitsBought(s) /\ UnitsSold(s)' = UnitsSold(s)
                   /\ PaidFor(s)' = PaidFor(s) /\ ReceivedFor(s)' = ReceivedFor(s)
<1>1. /\ Buys(Booked)' = Buys(Booked) /\ Sells(Booked)' = Sells(Booked)
      /\ \A s : FilledOf(s)' = FilledOf(s)
  BY DEF Buys, Sells, FilledOf, Booked
<1>2. \A s : /\ Buys(FilledOf(s))' = Buys(FilledOf(s))
             /\ Sells(FilledOf(s))' = Sells(FilledOf(s))
  BY <1>1 DEF Buys, Sells, FilledOf, Booked
<1>3. \A c \in Booked : /\ c \in ClientIds
                        /\ Cost'[c] = Cost[c] /\ Units'[c] = Units[c]
                        /\ Proceeds'[c] = Proceeds[c]
  BY DEF Booked, WithStatus, Cost, Units, Proceeds
<1>4. ASSUME NEW S, S \subseteq Booked
      PROVE  /\ Total(S, Cost') = Total(S, Cost) /\ Total(S, Units') = Total(S, Units)
             /\ Total(S, Proceeds') = Total(S, Proceeds)
  BY <1>3, <1>4, TotalSame
<1> QED BY <1>1, <1>2, <1>4, BookedFinite
        DEF Paid, Received, UnitsBought, UnitsSold, PaidFor, ReceivedFor

\* A booked order adds its own amounts to the sums of its side and symbol.
LEMMA SumsGrow ==
  ASSUME IInv, NEW c \in ClientIds, c \notin Booked,
         NEW o \in Order, o.status = "filled", o.fee < o.notional,
         orders' = [orders EXCEPT ![c] = o]
  PROVE  /\ Booked' = Booked \cup {c}
         /\ Paid' = IF o.side = "buy" THEN Paid + (o.notional + o.fee) ELSE Paid
         /\ Received' = IF o.side = "buy" THEN Received
                        ELSE Received + (o.notional - o.fee)
         /\ \A s :
              /\ UnitsBought(s)' = IF o.symbol = s /\ o.side = "buy"
                                   THEN UnitsBought(s) + o.quantity ELSE UnitsBought(s)
              /\ UnitsSold(s)' = IF o.symbol = s /\ o.side # "buy"
                                 THEN UnitsSold(s) + o.quantity ELSE UnitsSold(s)
              /\ PaidFor(s)' = IF o.symbol = s /\ o.side = "buy"
                               THEN PaidFor(s) + (o.notional + o.fee) ELSE PaidFor(s)
              /\ ReceivedFor(s)' = IF o.symbol = s /\ o.side # "buy"
                                   THEN ReceivedFor(s) + (o.notional - o.fee)
                                   ELSE ReceivedFor(s)
<1>2. /\ o.notional \in Nat /\ o.fee \in Nat /\ o.quantity \in Nat
      /\ o.notional - o.fee \in Nat
  BY DEF Order
<1>3. orders'[c] = o /\ \A d \in ClientIds : d # c => orders'[d] = orders[d]
  BY DEF IInv, TypeOK
<1>4. c \notin Booked /\ Booked' = Booked \cup {c}
  BY <1>3 DEF Booked, WithStatus
<1>5. \A d \in Booked : d \in ClientIds /\ d # c /\ orders'[d] = orders[d]
  BY <1>3, <1>4 DEF Booked, WithStatus
<1>6. /\ \A d \in Booked : Cost'[d] = Cost[d] /\ Units'[d] = Units[d] /\ Proceeds'[d] = Proceeds[d]
      /\ Cost'[c] = o.notional + o.fee /\ Units'[c] = o.quantity
      /\ Proceeds'[c] = o.notional - o.fee
  BY <1>3, <1>5 DEF Cost, Units, Proceeds
<1>7. ASSUME NEW S, S \subseteq Booked
      PROVE  /\ Total(S, Cost') = Total(S, Cost)
             /\ Total(S, Units') = Total(S, Units)
             /\ Total(S, Proceeds') = Total(S, Proceeds)
             /\ Total(S \cup {c}, Cost') = Total(S, Cost) + (o.notional + o.fee)
             /\ Total(S \cup {c}, Units') = Total(S, Units) + o.quantity
             /\ Total(S \cup {c}, Proceeds') = Total(S, Proceeds) + (o.notional - o.fee)
  <2>1. IsFiniteSet(S) /\ c \notin S
    BY <1>4, <1>7, BookedFinite
  <2>2. \A d \in S : Cost[d] \in Nat /\ Cost'[d] = Cost[d]
    BY <1>6, <1>7, BookedOrder
  <2>3. \A d \in S : Units[d] \in Nat /\ Units'[d] = Units[d]
    BY <1>6, <1>7, BookedOrder
  <2>4. \A d \in S : Proceeds[d] \in Nat /\ Proceeds'[d] = Proceeds[d]
    BY <1>6, <1>7, BookedOrder
  <2>5. Total(S, Cost') = Total(S, Cost)
    BY <2>2, TotalSame
  <2>6. Total(S, Units') = Total(S, Units)
    BY <2>3, TotalSame
  <2>7. Total(S, Proceeds') = Total(S, Proceeds)
    BY <2>4, TotalSame
  <2>8. Total(S \cup {c}, Cost') = Total(S, Cost) + Cost'[c]
    <3>1. Cost'[c] \in Nat
      BY <1>2, <1>6
    <3> QED BY <2>1, <2>2, <3>1, TotalGrow
  <2>9. Total(S \cup {c}, Units') = Total(S, Units) + Units'[c]
    <3>1. Units'[c] \in Nat
      BY <1>2, <1>6
    <3> QED BY <2>1, <2>3, <3>1, TotalGrow
  <2>10. Total(S \cup {c}, Proceeds') = Total(S, Proceeds) + Proceeds'[c]
    <3>1. Proceeds'[c] \in Nat
      BY <1>2, <1>6
    <3> QED BY <2>1, <2>4, <3>1, TotalGrow
  <2> QED BY <1>6, <2>5, <2>6, <2>7, <2>8, <2>9, <2>10
<1>8. Buys(Booked)' = IF o.side = "buy" THEN Buys(Booked) \cup {c} ELSE Buys(Booked)
  BY <1>3, <1>4, <1>5 DEF Buys
<1>9. Sells(Booked)' = IF o.side = "buy" THEN Sells(Booked) ELSE Sells(Booked) \cup {c}
  BY <1>4, <1>8 DEF Sells, Buys
<1>10. \A s : FilledOf(s)' = IF o.symbol = s THEN FilledOf(s) \cup {c} ELSE FilledOf(s)
  BY <1>3, <1>4, <1>5 DEF FilledOf, Booked
<1>11. \A s : FilledOf(s) \subseteq Booked
  BY DEF FilledOf, Booked
<1>12. \A s : Buys(FilledOf(s))' = IF o.symbol = s /\ o.side = "buy"
                                  THEN Buys(FilledOf(s)) \cup {c} ELSE Buys(FilledOf(s))
  BY <1>3, <1>5, <1>10, <1>11 DEF Buys
<1>13. \A s : Sells(FilledOf(s))' = IF o.symbol = s /\ o.side # "buy"
                                   THEN Sells(FilledOf(s)) \cup {c} ELSE Sells(FilledOf(s))
  BY <1>3, <1>4, <1>5, <1>10, <1>11 DEF Sells, Buys
<1>14. Paid' = IF o.side = "buy" THEN Paid + (o.notional + o.fee) ELSE Paid
  BY <1>7, <1>8, BookedFinite DEF Paid
<1>15. Received' = IF o.side = "buy" THEN Received ELSE Received + (o.notional - o.fee)
  BY <1>7, <1>9, BookedFinite DEF Received
<1>16. ASSUME NEW s
       PROVE  /\ UnitsBought(s)' = IF o.symbol = s /\ o.side = "buy"
                                   THEN UnitsBought(s) + o.quantity ELSE UnitsBought(s)
              /\ UnitsSold(s)' = IF o.symbol = s /\ o.side # "buy"
                                 THEN UnitsSold(s) + o.quantity ELSE UnitsSold(s)
              /\ PaidFor(s)' = IF o.symbol = s /\ o.side = "buy"
                               THEN PaidFor(s) + (o.notional + o.fee) ELSE PaidFor(s)
              /\ ReceivedFor(s)' = IF o.symbol = s /\ o.side # "buy"
                                   THEN ReceivedFor(s) + (o.notional - o.fee)
                                   ELSE ReceivedFor(s)
  BY <1>7, <1>12, <1>13, BookedFinite DEF UnitsBought, UnitsSold, PaidFor, ReceivedFor
<1> QED BY <1>4, <1>14, <1>15, <1>16

\* An order's fill, a user's or a bot's, keeps the books.
LEMMA FillBooks ==
  ASSUME IInv, BInv, NEW c \in ClientIds, c \notin Booked,
         NEW o \in Order, o.status = "filled", o.fee < o.notional,
         o.side = "buy" => o.notional + o.fee <= cash,
         o.side = "sell" => o.quantity <= holdings[o.symbol].quantity,
         orders' = [orders EXCEPT ![c] = o], BookFill(c, o), initial' = initial
  PROVE  BInv'
<1> DEFINE h == holdings[o.symbol]
           profit == Filled(h, o).realized - h.realized
<1>1. /\ holdings' = [holdings EXCEPT ![o.symbol] = Filled(h, o)]
      /\ cash' = cash + CashChange(o.side, o.notional, o.fee)
      /\ trades' = trades \cup {[order |-> c, realized |-> profit]}
  BY DEF BookFill
<1>2. /\ o.symbol \in Symbols /\ o.side \in {"buy", "sell"}
      /\ o.quantity \in Nat \ {0} /\ o.notional \in Nat /\ o.fee \in Nat
  BY DEF Order
<1>3. h \in [quantity: Nat, basis: Nat, realized: Int] /\ cash \in Nat /\ initial \in Nat
  BY <1>2 DEF IInv, TypeOK
<1>4. CashChange(o.side, o.notional, o.fee)
        = IF o.side = "buy" THEN -(o.notional + o.fee) ELSE o.notional - o.fee
  BY OrderFits DEF IInv
<1>5. /\ Filled(h, o).quantity = IF o.side = "buy" THEN h.quantity + o.quantity
                                 ELSE h.quantity - o.quantity
      /\ Filled(h, o).basis - Filled(h, o).realized =
           IF o.side = "buy" THEN (h.basis - h.realized) + (o.notional + o.fee)
           ELSE (h.basis - h.realized) - (o.notional - o.fee)
  BY OrderFits DEF IInv
<1>6. /\ c \notin Booked /\ Booked' = Booked \cup {c}
      /\ Paid' = IF o.side = "buy" THEN Paid + (o.notional + o.fee) ELSE Paid
      /\ Received' = IF o.side = "buy" THEN Received ELSE Received + (o.notional - o.fee)
  BY SumsGrow
<1>7. /\ Paid \in Nat /\ Received \in Nat
      /\ \A s : /\ UnitsBought(s) \in Nat /\ UnitsSold(s) \in Nat
                /\ PaidFor(s) \in Nat /\ ReceivedFor(s) \in Nat
  BY SumsNat
<1>8. /\ cash = initial - Paid + Received
      /\ \A s \in Symbols :
           /\ holdings[s].quantity = UnitsBought(s) - UnitsSold(s)
           /\ holdings[s].basis - holdings[s].realized = PaidFor(s) - ReceivedFor(s)
      /\ {t.order : t \in trades} = Booked
      /\ Cardinality(trades) = Cardinality(Booked)
      /\ IsFiniteSet(trades)
  BY BooksInSums DEF BInv
<1>9. cash' = initial' - Paid' + Received'
  <2> QED BY <1>1, <1>2, <1>3, <1>4, <1>6, <1>7, <1>8
<1>10. ASSUME NEW s \in Symbols
       PROVE  /\ holdings'[s].quantity = UnitsBought(s)' - UnitsSold(s)'
              /\ holdings'[s].basis - holdings'[s].realized = PaidFor(s)' - ReceivedFor(s)'
  <2>1. /\ UnitsBought(s)' = IF o.symbol = s /\ o.side = "buy"
                             THEN UnitsBought(s) + o.quantity ELSE UnitsBought(s)
        /\ UnitsSold(s)' = IF o.symbol = s /\ o.side # "buy"
                           THEN UnitsSold(s) + o.quantity ELSE UnitsSold(s)
        /\ PaidFor(s)' = IF o.symbol = s /\ o.side = "buy"
                         THEN PaidFor(s) + (o.notional + o.fee) ELSE PaidFor(s)
        /\ ReceivedFor(s)' = IF o.symbol = s /\ o.side # "buy"
                             THEN ReceivedFor(s) + (o.notional - o.fee) ELSE ReceivedFor(s)
    BY SumsGrow
  <2>2. holdings'[s] = IF s = o.symbol THEN Filled(h, o) ELSE holdings[s]
    BY <1>1 DEF IInv, TypeOK
  <2>3. holdings[s].quantity \in Nat /\ holdings[s].basis \in Nat /\ holdings[s].realized \in Int
    BY DEF IInv, TypeOK
  <2>4. CASE s = o.symbol
    <3>1. h = holdings[s]
      BY <2>4
    <3> HIDE DEF h
    <3> QED BY <1>2, <1>5, <1>7, <1>8, <2>1, <2>2, <2>3, <2>4, <3>1
  <2>5. CASE s # o.symbol
    <3> HIDE DEF h
    <3> QED BY <1>8, <2>1, <2>2, <2>5
  <2> QED BY <2>4, <2>5
<1>11. /\ {t.order : t \in trades'} = Booked'
       /\ IsFiniteSet(trades') /\ Cardinality(trades') = Cardinality(Booked')
  <2> DEFINE new == [order |-> c, realized |-> profit]
  <2>1. new.order = c
    OBVIOUS
  <2> HIDE DEF new
  <2>2. trades' = trades \cup {new}
    BY <1>1 DEF new
  <2>3. new \notin trades
    BY <1>6, <1>8, <2>1
  <2>4. /\ IsFiniteSet(trades') /\ Cardinality(trades') = Cardinality(trades) + 1
    BY <1>8, <2>2, <2>3, FS_AddElement
  <2>5. Cardinality(Booked') = Cardinality(Booked) + 1
    BY <1>6, BookedFinite, FS_AddElement
  <2>6. {t.order : t \in trades'} = Booked'
    BY <1>6, <1>8, <2>1, <2>2
  <2> QED BY <1>8, <2>4, <2>5, <2>6
<1>12. BooksBalance'
  BY <1>9, <1>10, <1>11
     DEF BooksBalance, Paid, Received, UnitsBought, UnitsSold, PaidFor, ReceivedFor, Booked
<1> QED BY <1>11, <1>12 DEF BInv

\* A portfolio is opened with all its sums at zero.
LEMMA CreateBooks ==
  ASSUME IInv, BInv, NEW amount \in InitialAmounts, Create(amount)
  PROVE  BInv'
<1>1. /\ initial = 0 /\ initial' = amount /\ cash' = amount
      /\ UNCHANGED <<holdings, orders, trades>>
  BY DEF Create
<1>2. Booked = {} /\ Booked' = {}
  BY <1>1 DEF IInv, UnopenedIsEmpty, Booked, WithStatus, Absent
<1>3. Buys(Booked) = {} /\ Sells(Booked) = {} /\ Buys(Booked)' = {} /\ Sells(Booked)' = {}
  BY <1>2 DEF Buys, Sells
<1>4. Paid' = 0 /\ Received' = 0
  BY <1>3, TotalEmpty DEF Paid, Received
<1>5. amount \in Nat
  BY InputAssumption
<1>6. cash' = initial' - Paid' + Received'
  BY <1>1, <1>4, <1>5
<1>7. \A s : /\ UnitsBought(s)' = UnitsBought(s) /\ UnitsSold(s)' = UnitsSold(s)
             /\ PaidFor(s)' = PaidFor(s) /\ ReceivedFor(s)' = ReceivedFor(s)
  BY <1>1, <1>2, SumsStay
<1>8. BooksBalance'
  BY <1>1, <1>2, <1>6, <1>7
     DEF BInv, BooksBalance, Paid, Received, UnitsBought, UnitsSold, PaidFor, ReceivedFor, Booked
<1> QED BY <1>1, <1>8 DEF BInv

LEMMA NothingBooked ==
  ASSUME BInv, Booked' = Booked, \A c \in Booked : orders'[c] = orders[c],
         UNCHANGED <<initial, cash, holdings, trades>>
  PROVE  BInv'
<1>1. BooksBalance'
  BY SumsStay
     DEF BInv, BooksBalance, Paid, Received, UnitsBought, UnitsSold, PaidFor, ReceivedFor, Booked
<1> QED BY <1>1 DEF BInv

LEMMA InitBooks == Init => BInv
<1> SUFFICES ASSUME Init PROVE BInv
  OBVIOUS
<1>1. Booked = {} /\ Buys(Booked) = {} /\ Sells(Booked) = {}
  BY DEF Init, Booked, WithStatus, Absent, Buys, Sells
<1>2. \A s : Buys(FilledOf(s)) = {} /\ Sells(FilledOf(s)) = {}
  BY <1>1 DEF FilledOf, Booked, Buys, Sells
<1>3. /\ Paid = 0 /\ Received = 0
      /\ \A s : UnitsBought(s) = 0 /\ UnitsSold(s) = 0 /\ PaidFor(s) = 0 /\ ReceivedFor(s) = 0
  BY <1>1, <1>2, TotalEmpty DEF Paid, Received, UnitsBought, UnitsSold, PaidFor, ReceivedFor
<1>4. IsFiniteSet(trades) /\ {t.order : t \in trades} = {} /\ Cardinality(trades) = 0
  BY FS_EmptySet DEF Init
<1>5. Cardinality(Booked) = 0
  BY <1>1, FS_EmptySet
<1> QED BY <1>1, <1>3, <1>4, <1>5, BooksInSums DEF Init, EmptyHolding, BInv

LEMMA ReserveBooks ==
  ASSUME IInv, BInv, NEW c \in ClientIds, NEW req \in Request, NEW managed,
         Reserve(c, req, managed)
  PROVE  BInv'
<1>1. \A d \in ClientIds : d # c => orders'[d] = orders[d]
  BY DEF Reserve, IInv, TypeOK
<1>2. orders[c].status = "none" /\ orders'[c].status = "pending"
  BY DEF Reserve, NewOrder, IInv, TypeOK
<1>3. Booked' = Booked /\ \A d \in Booked : orders'[d] = orders[d]
  BY <1>1, <1>2 DEF Booked, WithStatus
<1> QED BY <1>3, NothingBooked DEF Reserve

LEMMA FillStepBooks ==
  ASSUME IInv, BInv, NEW c \in ClientIds, Fill(c)
  PROVE  BInv'
<1>1. /\ orders[c].status = "pending" /\ c \notin Booked
      /\ BookFill(c, orders[c]) /\ initial' = initial
      /\ orders' = [orders EXCEPT ![c].status = "filled"]
  BY DEF Fill, Completable, Booked, WithStatus
<1> DEFINE o == [orders[c] EXCEPT !.status = "filled"]
<1>2. /\ orders[c] \in Order /\ orders[c].fee < orders[c].notional
      /\ orders[c].side = "buy" => orders[c].notional + orders[c].fee <= cash
      /\ orders[c].side = "sell"
           => orders[c].quantity <= holdings[orders[c].symbol].quantity
  BY <1>1, PendingFits
<1>3. /\ o \in Order /\ o.status = "filled" /\ o.side = orders[c].side
      /\ o.symbol = orders[c].symbol /\ o.quantity = orders[c].quantity
      /\ o.notional = orders[c].notional /\ o.fee = orders[c].fee
  BY <1>2 DEF Order
<1>4. orders' = [orders EXCEPT ![c] = o]
  BY <1>1
<1> HIDE DEF o
<1>5. \A h : Filled(h, o) = Filled(h, orders[c])
  BY <1>3 DEF Filled
<1>6. BookFill(c, o)
  BY <1>1, <1>3, <1>5 DEF BookFill
<1> QED BY <1>1, <1>2, <1>3, <1>4, <1>6, FillBooks

LEMMA CancelBooks ==
  ASSUME IInv, BInv, NEW c \in ClientIds, Cancel(c)
  PROVE  BInv'
<1>1. orders[c].status = "pending" /\ orders[c] \in Order
  BY PlacedOrder DEF Cancel, Completable, IInv
<1>2. orders'[c].status = "cancelled" /\ \A d \in ClientIds : d # c => orders'[d] = orders[d]
  BY <1>1 DEF Cancel, IInv, TypeOK, Order
<1>3. Booked' = Booked /\ \A d \in Booked : orders'[d] = orders[d]
  BY <1>1, <1>2 DEF Booked, WithStatus
<1> QED BY <1>3, NothingBooked DEF Cancel

(***************************************************************************)
(* Cash, units and basis less realized profit are exactly the sums over    *)
(* the filled orders, and each filled order has one trade: no fill is      *)
(* lost, booked twice or charged another fee (service.py:115-127).         *)
(***************************************************************************)
THEOREM BooksAreBalanced == Spec => []BooksBalance
<1>1. Init => BInv
  BY InitBooks
<1>2. ASSUME IInv, BInv, [Next]_pvars
      PROVE  BInv'
  <2>1. ASSUME NEW amount \in InitialAmounts, Create(amount) PROVE BInv'
    BY <1>2, <2>1, CreateBooks
  <2>2. ASSUME NEW s \in SettingsChoices, ChangeSettings(s) PROVE BInv'
    BY <1>2, <2>2, NothingBooked DEF ChangeSettings, Booked, WithStatus
  <2>3. ASSUME NEW c \in ClientIds, NEW req \in Request, Reserve(c, req, 0) PROVE BInv'
    BY <1>2, <2>3, ReserveBooks
  <2>4. ASSUME NEW c \in ClientIds, Fill(c) PROVE BInv'
    BY <1>2, <2>4, FillStepBooks
  <2>5. ASSUME NEW c \in ClientIds, Cancel(c) PROVE BInv'
    BY <1>2, <2>5, CancelBooks
  <2>6. CASE UNCHANGED pvars
    BY <1>2, <2>6, NothingBooked DEF pvars, Booked, WithStatus
  <2> QED BY <1>2, <2>1, <2>2, <2>3, <2>4, <2>5, <2>6 DEF Next
<1>3. BInv => BooksBalance
  BY DEF BInv
<1> QED BY <1>1, <1>2, <1>3, Invariance, PTL DEF Spec
-----------------------------------------------------------------------------
(***************************************************************************)
(* The portfolio implements the ledger of PaperLedger.                     *)
(***************************************************************************)
LedgerStep == [Ledger!Next]_<<Balances, Statuses, Agreed>>

LEMMA AccountFacts ==
  /\ CashAccount \in Accounts
  /\ \A s \in Symbols : UnitsAccount(s) \in Accounts /\ UnitsAccount(s)[2] = s
  /\ \A s : UnitsAccount(s) # CashAccount
  /\ \A s, t : UnitsAccount(s) = UnitsAccount(t) => s = t
  /\ \A a \in Accounts : a = CashAccount \/ \E s \in Symbols : a = UnitsAccount(s)
BY DEF CashAccount, UnitsAccount, Accounts

LEMMA BalanceFacts ==
  /\ Balances[CashAccount] = cash
  /\ \A s \in Symbols : Balances[UnitsAccount(s)] = holdings[s].quantity
<1>1. \A a \in Accounts : Balances[a] = IF a = CashAccount THEN cash ELSE holdings[a[2]].quantity
  BY DEF Balances
<1> QED BY <1>1, AccountFacts

LEMMA TermsFacts ==
  ASSUME NEW o \in Order, o.fee < o.notional
  PROVE  /\ TermsOf(o) \in Ledger!Terms /\ TermsOf(o).from # TermsOf(o).to
         /\ TermsOf(o).amount \in Nat /\ TermsOf(o).value \in Nat
         /\ o.side = "buy" =>
              /\ TermsOf(o).from = CashAccount /\ TermsOf(o).amount = o.notional + o.fee
              /\ TermsOf(o).to = UnitsAccount(o.symbol) /\ TermsOf(o).value = o.quantity
         /\ o.side = "sell" =>
              /\ TermsOf(o).from = UnitsAccount(o.symbol) /\ TermsOf(o).amount = o.quantity
              /\ TermsOf(o).to = CashAccount /\ TermsOf(o).value = o.notional - o.fee
<1>1. /\ o.symbol \in Symbols /\ o.side \in {"buy", "sell"} /\ o.quantity \in Nat
      /\ o.notional \in Nat /\ o.fee \in Nat
  BY DEF Order
<1>2. o.notional + o.fee \in Nat /\ o.notional - o.fee \in Nat
  BY <1>1
<1>3. UnitsAccount(o.symbol) \in Accounts /\ UnitsAccount(o.symbol) # CashAccount
      /\ CashAccount \in Accounts
  BY <1>1, AccountFacts
<1>4. CASE o.side = "buy"
  BY <1>1, <1>2, <1>3, <1>4 DEF TermsOf, Ledger!Terms
<1>5. CASE o.side = "sell"
  BY <1>1, <1>2, <1>3, <1>5 DEF TermsOf, Ledger!Terms
<1> QED BY <1>1, <1>4, <1>5

\* What the ledger sets aside is what the pending orders reserve.
LEMMA SetAsideFacts ==
  ASSUME IInv
  PROVE  /\ Ledger!SetAside(CashAccount) = ReservedCash
         /\ \A s \in Symbols : Ledger!SetAside(UnitsAccount(s)) = ReservedUnits(s)
<1> DEFINE From(a) == {c \in ClientIds : Statuses[c] = "pending" /\ Agreed[c].from = a}
<1>1. ASSUME NEW c \in Pending
      PROVE  /\ c \in ClientIds /\ Statuses[c] = "pending" /\ Agreed[c] = TermsOf(orders[c])
             /\ orders[c] \in Order /\ orders[c].fee < orders[c].notional
             /\ orders[c].side \in {"buy", "sell"} /\ orders[c].symbol \in Symbols
  <2>1. c \in ClientIds /\ orders[c].status = "pending"
    BY <1>1 DEF Pending, WithStatus
  <2>2. orders[c] \in Order /\ orders[c].fee < orders[c].notional
    BY <2>1, PlacedOrder DEF IInv, FeesBelowValue
  <2> QED BY <2>1, <2>2 DEF Statuses, Agreed, Order
<1>2. \A c \in ClientIds : Statuses[c] = "pending" => c \in Pending
  BY DEF Statuses, Pending, WithStatus
<1>3. \A c \in Pending : Ledger!Amounts[c] = TermsOf(orders[c]).amount
  BY <1>1 DEF Ledger!Amounts
<1>4. From(CashAccount) = Buys(Pending)
  <2>1. \A c \in Pending : Agreed[c].from = CashAccount <=> orders[c].side = "buy"
    BY <1>1, TermsFacts, AccountFacts
  <2> QED BY <1>1, <1>2, <2>1 DEF Buys
<1>5. \A s \in Symbols : From(UnitsAccount(s)) = SellsOf(Pending, s)
  <2>1. \A s \in Symbols : \A c \in Pending :
          Agreed[c].from = UnitsAccount(s) <=> orders[c].side = "sell" /\ orders[c].symbol = s
    BY <1>1, TermsFacts, AccountFacts
  <2> QED BY <1>1, <1>2, <2>1 DEF SellsOf
<1>6. Ledger!SetAside(CashAccount) = ReservedCash
  <2>1. \A c \in Buys(Pending) : Ledger!Amounts[c] = Cost[c]
    BY <1>1, <1>3, TermsFacts DEF Buys, Cost
  <2>2. Total(Buys(Pending), Ledger!Amounts) = Total(Buys(Pending), Cost)
    BY <2>1, TotalSame
  <2> QED BY <1>4, <2>2 DEF Ledger!SetAside, ReservedCash, Ledger!Total, Total, Ledger!Cardinality, Cardinality
<1>7. ASSUME NEW s \in Symbols
      PROVE  Ledger!SetAside(UnitsAccount(s)) = ReservedUnits(s)
  <2>1. \A c \in SellsOf(Pending, s) : Ledger!Amounts[c] = Units[c]
    BY <1>1, <1>3, TermsFacts DEF SellsOf, Units
  <2>2. Total(SellsOf(Pending, s), Ledger!Amounts) = Total(SellsOf(Pending, s), Units)
    BY <2>1, TotalSame
  <2> QED BY <1>5, <2>2 DEF Ledger!SetAside, ReservedUnits, Ledger!Total, Total, Ledger!Cardinality, Cardinality
<1> QED BY <1>6, <1>7

\* A fill, of a user's or a bot's order, is an exchange of what was agreed.
LEMMA FillExchanges ==
  ASSUME IInv, NEW c, NEW o \in Order, o.fee < o.notional,
         o.side = "buy" => o.notional + o.fee <= cash,
         o.side = "sell" => o.quantity <= holdings[o.symbol].quantity,
         BookFill(c, o)
  PROVE  Ledger!Exchange(TermsOf(o))
<1> DEFINE t == TermsOf(o)
           h == holdings[o.symbol]
           after == [Balances EXCEPT ![t.from] = @ - t.amount, ![t.to] = @ + t.value]
<1>1. /\ o.symbol \in Symbols /\ o.side \in {"buy", "sell"} /\ o.quantity \in Nat
      /\ o.notional \in Nat /\ o.fee \in Nat /\ cash \in Nat
  BY DEF Order, IInv, TypeOK
<1>2. /\ holdings' = [holdings EXCEPT ![o.symbol] = Filled(h, o)]
      /\ cash' = cash + CashChange(o.side, o.notional, o.fee)
  BY DEF BookFill
<1>3. /\ Filled(h, o).quantity = IF o.side = "buy" THEN h.quantity + o.quantity
                                 ELSE h.quantity - o.quantity
      /\ CashChange(o.side, o.notional, o.fee)
           = IF o.side = "buy" THEN -(o.notional + o.fee) ELSE o.notional - o.fee
  BY OrderFits DEF IInv
<1>4. \A s \in Symbols : holdings'[s] = IF s = o.symbol THEN Filled(h, o) ELSE holdings[s]
  BY <1>2 DEF IInv, TypeOK
<1>5. /\ t.from # t.to /\ t.from \in Accounts /\ t.to \in Accounts
  BY TermsFacts DEF Ledger!Terms
<1>6. \A a \in Accounts : after[a] = IF a = t.to THEN Balances[a] + t.value
                                     ELSE IF a = t.from THEN Balances[a] - t.amount
                                     ELSE Balances[a]
  <2> HIDE DEF t
  <2>1. Balances = [a \in Accounts |-> Balances[a]]
    BY DEF Balances
  <2> QED BY <1>5, <2>1
<1>7. /\ Balances'[CashAccount] = cash'
      /\ \A s \in Symbols : Balances'[UnitsAccount(s)] = holdings'[s].quantity
  <2>1. \A a \in Accounts : Balances'[a] = IF a = CashAccount THEN cash' ELSE holdings'[a[2]].quantity
    BY DEF Balances
  <2> QED BY <2>1, AccountFacts
<1>8. /\ Balances[CashAccount] = cash
      /\ \A s \in Symbols : /\ Balances[UnitsAccount(s)] = holdings[s].quantity
                            /\ holdings[s].quantity \in Int
  BY BalanceFacts DEF IInv, TypeOK
<1>9. /\ CashAccount \in Accounts
      /\ \A s \in Symbols : /\ UnitsAccount(s) \in Accounts /\ UnitsAccount(s) # CashAccount
                            /\ UnitsAccount(s) = UnitsAccount(o.symbol) <=> s = o.symbol
  BY AccountFacts
<1>10. /\ o.side = "buy" => /\ t.from = CashAccount /\ t.amount = o.notional + o.fee
                            /\ t.to = UnitsAccount(o.symbol) /\ t.value = o.quantity
       /\ o.side = "sell" => /\ t.from = UnitsAccount(o.symbol) /\ t.amount = o.quantity
                             /\ t.to = CashAccount /\ t.value = o.notional - o.fee
  BY TermsFacts
<1>11. h = holdings[o.symbol]
  OBVIOUS
<1> HIDE DEF t, h, after
<1>12. Balances'[CashAccount] = after[CashAccount]
  <2>1. CASE o.side = "buy"
    BY <1>1, <1>2, <1>3, <1>6, <1>7, <1>8, <1>9, <1>10, <2>1
  <2>2. CASE o.side = "sell"
    BY <1>1, <1>2, <1>3, <1>6, <1>7, <1>8, <1>9, <1>10, <2>2
  <2> QED BY <1>1, <2>1, <2>2
<1>13. ASSUME NEW s \in Symbols
       PROVE  Balances'[UnitsAccount(s)] = after[UnitsAccount(s)]
  <2>1. CASE s # o.symbol
    BY <1>1, <1>4, <1>6, <1>7, <1>8, <1>9, <1>10, <2>1
  <2>2. CASE s = o.symbol /\ o.side = "buy"
    BY <1>3, <1>4, <1>6, <1>7, <1>8, <1>9, <1>10, <1>11, <2>2
  <2>3. CASE s = o.symbol /\ o.side = "sell"
    BY <1>3, <1>4, <1>6, <1>7, <1>8, <1>9, <1>10, <1>11, <2>3
  <2> QED BY <1>1, <2>1, <2>2, <2>3
<1>14. Balances' = after
  <2>1. \A a \in Accounts : Balances'[a] = after[a]
    BY <1>12, <1>13, AccountFacts
  <2>2. /\ Balances' = [a \in Accounts |-> Balances'[a]]
        /\ after = [a \in Accounts |-> after[a]]
    BY DEF Balances, after
  <2> QED BY <2>1, <2>2
<1> QED BY <1>14 DEF Ledger!Exchange, after, t

LEMMA StatusesAfter ==
  ASSUME NEW c \in ClientIds, NEW st,
         \A d \in ClientIds : Statuses'[d] = IF d = c THEN st ELSE Statuses[d]
  PROVE  Statuses' = [Statuses EXCEPT ![c] = st]
<1>1. /\ Statuses' = [d \in ClientIds |-> Statuses'[d]]
      /\ Statuses = [d \in ClientIds |-> Statuses[d]]
  BY DEF Statuses
<1> QED BY <1>1

\* A new order agrees on terms that the portfolio can meet.
LEMMA OrderAgrees ==
  ASSUME IInv, NEW c \in ClientIds, orders[c].status = "none",
         NEW o \in Order, o.fee < o.notional,
         o.side = "buy" => o.notional + o.fee <= cash - ReservedCash,
         o.side = "sell" => o.quantity <= holdings[o.symbol].quantity - ReservedUnits(o.symbol),
         orders' = [orders EXCEPT ![c] = o]
  PROVE  /\ Ledger!Agree(c) /\ Agreed'[c] = TermsOf(o)
         /\ Statuses' = [Statuses EXCEPT ![c] = o.status]
<1> DEFINE t == TermsOf(o)
<1>1. orders'[c] = o /\ \A d \in ClientIds : d # c => orders'[d] = orders[d]
  BY DEF IInv, TypeOK
<1>2. o.status # "none" /\ o.symbol \in Symbols /\ o.side \in {"buy", "sell"}
  BY DEF Order
<1>3. Agreed'[c] = t
  BY <1>1, <1>2 DEF Agreed
<1>4. Agreed' = [Agreed EXCEPT ![c] = t]
  <2>1. \A d \in ClientIds : Agreed'[d] = IF d = c THEN t ELSE Agreed[d]
    BY <1>1, <1>2 DEF Agreed
  <2> HIDE DEF t
  <2>2. Agreed' = [d \in ClientIds |-> Agreed'[d]] /\ Agreed = [d \in ClientIds |-> Agreed[d]]
    BY DEF Agreed
  <2> QED BY <2>1, <2>2
<1>5. Statuses' = [Statuses EXCEPT ![c] = o.status] /\ Statuses[c] = "none"
  <2>1. /\ Statuses[c] = "none"
        /\ \A d \in ClientIds : Statuses'[d] = IF d = c THEN o.status ELSE Statuses[d]
    BY <1>1 DEF Statuses
  <2> QED BY <2>1, StatusesAfter
<1>6. t \in Ledger!Terms /\ t.from # t.to
  BY TermsFacts
<1>7. t.amount <= Balances[t.from] - Ledger!SetAside(t.from)
  <2>1. CASE o.side = "buy"
    <3>1. t.from = CashAccount /\ t.amount = o.notional + o.fee
      BY <2>1, TermsFacts
    <3> HIDE DEF t
    <3> QED BY <2>1, <3>1, SetAsideFacts, BalanceFacts
  <2>2. CASE o.side = "sell"
    <3>1. t.from = UnitsAccount(o.symbol) /\ t.amount = o.quantity
      BY <2>2, TermsFacts
    <3> HIDE DEF t
    <3> QED BY <1>2, <2>2, <3>1, SetAsideFacts, BalanceFacts
  <2> QED BY <1>2, <2>1, <2>2
<1> HIDE DEF t
<1>8. Ledger!Agree(c)
  BY <1>3, <1>4, <1>5, <1>6, <1>7 DEF Ledger!Agree
<1> QED BY <1>3, <1>5, <1>8 DEF t

\* Filled or cancelled, an order keeps its terms.
LEMMA OrderCompletes ==
  ASSUME IInv, NEW c \in ClientIds, orders[c].status = "pending",
         NEW st \in {"filled", "cancelled"}, orders' = [orders EXCEPT ![c].status = st]
  PROVE  /\ Statuses[c] = "pending" /\ Statuses' = [Statuses EXCEPT ![c] = st]
         /\ Agreed[c] = TermsOf(orders[c]) /\ Agreed' = Agreed
<1>1. orders[c] \in Order
  BY PlacedOrder DEF IInv
<1>2. /\ \A d \in ClientIds : d # c => orders'[d] = orders[d]
      /\ orders'[c] = [orders[c] EXCEPT !.status = st]
  BY DEF IInv, TypeOK
<1>3. /\ orders'[c].status = st /\ orders'[c].side = orders[c].side
      /\ orders'[c].symbol = orders[c].symbol /\ orders'[c].quantity = orders[c].quantity
      /\ orders'[c].notional = orders[c].notional /\ orders'[c].fee = orders[c].fee
  BY <1>1, <1>2 DEF Order
<1>4. TermsOf(orders'[c]) = TermsOf(orders[c])
  BY <1>3 DEF TermsOf
<1>5. Statuses[c] = "pending" /\ Statuses' = [Statuses EXCEPT ![c] = st]
  <2>1. /\ Statuses[c] = "pending"
        /\ \A d \in ClientIds : Statuses'[d] = IF d = c THEN st ELSE Statuses[d]
    BY <1>2, <1>3 DEF Statuses
  <2> QED BY <2>1, StatusesAfter
<1>6. Agreed[c] = TermsOf(orders[c])
  BY DEF Agreed
<1>7. Agreed' = Agreed
  BY <1>2, <1>3, <1>4 DEF Agreed
<1> QED BY <1>5, <1>6, <1>7

LEMMA ReserveInLedger ==
  ASSUME IInv, NEW c \in ClientIds, NEW req \in Request, NEW managed, Reserve(c, req, managed)
  PROVE  LedgerStep
<1> DEFINE o == NewOrder(req, "pending")
<1>1. /\ orders[c].status = "none" /\ OrderAllowed(req)
      /\ orders' = [orders EXCEPT ![c] = o]
      /\ UNCHANGED <<cash, holdings>>
  BY DEF Reserve
<1>2. /\ o \in Order /\ o.status = "pending" /\ o.side = req.side /\ o.symbol = req.symbol
      /\ o.quantity = req.quantity /\ o.fee = req.fee /\ o.notional = Gross(req)
      /\ o.fee < o.notional
  BY <1>1, UserRequest, AcceptedOrder DEF OrderAllowed, NewOrder, IInv
<1>3. /\ req.side = "buy" => Gross(req) + req.fee <= cash - ReservedCash
      /\ req.side = "sell" => req.quantity <= holdings[req.symbol].quantity - ReservedUnits(req.symbol)
  BY <1>1 DEF OrderAllowed, BuyAllowed, CashAvailable, SellAllowed
<1> HIDE DEF o
<1>4. Ledger!Agree(c) /\ Statuses' = [Statuses EXCEPT ![c] = "pending"]
  BY <1>1, <1>2, <1>3, OrderAgrees
<1>5. Balances' = Balances
  BY <1>1 DEF Balances
<1>6. Ledger!Place(c)
  BY <1>4, <1>5 DEF Ledger!Place
<1> QED BY <1>6 DEF LedgerStep, Ledger!Next

LEMMA FillInLedger ==
  ASSUME IInv, NEW c \in ClientIds, Fill(c)
  PROVE  LedgerStep
<1>1. /\ orders[c].status = "pending" /\ BookFill(c, orders[c])
      /\ orders' = [orders EXCEPT ![c].status = "filled"]
  BY DEF Fill, Completable
<1>2. /\ Statuses[c] = "pending" /\ Statuses' = [Statuses EXCEPT ![c] = "filled"]
      /\ Agreed[c] = TermsOf(orders[c]) /\ Agreed' = Agreed
  BY <1>1, OrderCompletes
<1>3. Ledger!Exchange(Agreed[c])
  BY <1>1, <1>2, PendingFits, FillExchanges
<1>4. Ledger!Fill(c)
  BY <1>2, <1>3 DEF Ledger!Fill
<1> QED BY <1>4 DEF LedgerStep, Ledger!Next

LEMMA CancelInLedger ==
  ASSUME IInv, NEW c \in ClientIds, Cancel(c)
  PROVE  LedgerStep
<1>1. /\ orders[c].status = "pending" /\ orders' = [orders EXCEPT ![c].status = "cancelled"]
      /\ UNCHANGED <<cash, holdings>>
  BY DEF Cancel, Completable
<1>2. /\ Statuses[c] = "pending" /\ Statuses' = [Statuses EXCEPT ![c] = "cancelled"]
      /\ Agreed' = Agreed
  BY <1>1, OrderCompletes
<1>3. Balances' = Balances
  BY <1>1 DEF Balances
<1>4. Ledger!Cancel(c)
  BY <1>2, <1>3 DEF Ledger!Cancel
<1> QED BY <1>4 DEF LedgerStep, Ledger!Next

LEMMA CreateInLedger ==
  ASSUME IInv, NEW amount \in InitialAmounts, Create(amount)
  PROVE  LedgerStep
<1>1. initial = 0 /\ cash' = amount /\ UNCHANGED <<holdings, orders>>
  BY DEF Create
<1>2. /\ \A c \in ClientIds : orders[c] = Absent
      /\ cash = 0 /\ \A s \in Symbols : holdings[s].quantity = 0
  BY <1>1 DEF IInv, UnopenedIsEmpty
<1>3. \A c \in ClientIds : Statuses[c] = "none"
  BY <1>2 DEF Statuses, Absent
<1>4. \A a \in Accounts : Balances[a] = 0
  BY <1>2, AccountFacts, BalanceFacts
<1>5. Statuses' = Statuses /\ Agreed' = Agreed
  BY <1>1 DEF Statuses, Agreed, TermsOf
<1>6. \A a \in Accounts : Balances'[a] = IF a = CashAccount THEN amount ELSE Balances[a]
  BY <1>1 DEF Balances
<1>7. amount \in Nat \ {0} /\ CashAccount \in Accounts
  BY InputAssumption, AccountFacts
<1>8. Balances' = [Balances EXCEPT ![CashAccount] = Balances'[CashAccount]]
  <2>1. Balances' = [a \in Accounts |-> Balances'[a]] /\ Balances = [a \in Accounts |-> Balances[a]]
    BY DEF Balances
  <2> QED BY <1>6, <2>1
<1>9. Ledger!Deposit
  BY <1>3, <1>4, <1>5, <1>6, <1>7, <1>8 DEF Ledger!Deposit
<1> QED BY <1>9 DEF LedgerStep, Ledger!Next

LEMMA LedgerRests ==
  ASSUME UNCHANGED <<cash, holdings, orders>>
  PROVE  LedgerStep
BY DEF LedgerStep, Balances, Statuses, Agreed, TermsOf

LEMMA InitInLedger == Init => Ledger!Init
<1> SUFFICES ASSUME Init PROVE Ledger!Init
  OBVIOUS
<1>1. Balances = [a \in Accounts |-> 0]
  <2>1. cash = 0 /\ \A s \in Symbols : holdings[s].quantity = 0
    BY DEF Init, EmptyHolding
  <2>2. \A a \in Accounts : Balances[a] = 0
    BY <2>1, AccountFacts, BalanceFacts
  <2>3. Balances = [a \in Accounts |-> Balances[a]]
    BY DEF Balances
  <2> QED BY <2>2, <2>3
<1>2. Statuses = [c \in ClientIds |-> "none"] /\ Agreed = [c \in ClientIds |-> Absent]
  BY DEF Init, Statuses, Agreed, Absent
<1> QED BY <1>1, <1>2 DEF Ledger!Init

(***************************************************************************)
(* The portfolio implements the ledger: an order trades exactly what it    *)
(* reserved, once, or gives it back, whatever prices, fees, limits and     *)
(* settings there are (service.py:70-129).                                 *)
(***************************************************************************)
THEOREM PortfolioImplementsLedger == Spec => ImplementsPaperLedger
<1>1. Init => Ledger!Init
  BY InitInLedger
<1>2. IInv /\ [Next]_pvars => [Ledger!Next]_(Ledger!lvars)
  <2> SUFFICES ASSUME IInv, [Next]_pvars PROVE LedgerStep
    BY DEF LedgerStep, Ledger!lvars
  <2>1. CASE \E amount \in InitialAmounts : Create(amount)
    BY <2>1, CreateInLedger
  <2>2. CASE \E s \in SettingsChoices : ChangeSettings(s)
    BY <2>2, LedgerRests DEF ChangeSettings
  <2>3. CASE \E c \in ClientIds : \E req \in Request : Reserve(c, req, 0)
    BY <2>3, ReserveInLedger
  <2>4. CASE \E c \in ClientIds : Fill(c)
    BY <2>4, FillInLedger
  <2>5. CASE \E c \in ClientIds : Cancel(c)
    BY <2>5, CancelInLedger
  <2>6. CASE UNCHANGED pvars
    BY <2>6, LedgerRests DEF pvars
  <2> QED BY <2>1, <2>2, <2>3, <2>4, <2>5, <2>6 DEF Next
<1> QED BY <1>1, <1>2, Invariance, PTL DEF Spec, ImplementsPaperLedger, Ledger!Spec
=============================================================================
