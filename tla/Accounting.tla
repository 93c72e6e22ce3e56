----------------------------- MODULE Accounting -----------------------------
(***************************************************************************)
(* The decimal, average-cost arithmetic of paper portfolios                *)
(* (backend/app/portfolio/accounting.py and risk.py).                      *)
(*                                                                         *)
(* An amount with eight decimals is the natural number of its smallest     *)
(* units: money, quantities and prices are all multiples of 1/Scale, where *)
(* the code has Scale = 10^8.  A small Scale keeps the rounding, which is  *)
(* what can go wrong, and makes it happen on small numbers.                *)
(***************************************************************************)
EXTENDS Sums

CONSTANT Scale

ASSUME ScaleAssumption == Scale \in Nat \ {0}

(***************************************************************************)
(* ROUND_HALF_EVEN of n / d to an integer.                                 *)
(***************************************************************************)
HalfEven(n, d) ==
  LET f == n \div d
      r == n % d
  IN  IF 2 * r < d \/ (2 * r = d /\ f % 2 = 0) THEN f ELSE f + 1

\* money(quantity * price): the product of two amounts, back to one scale.
Notional(quantity, price) == HalfEven(quantity * price, Scale)

\* The price moved by pct percent up (sign = 1) or down (sign = -1).
Threshold(price, sign, pct) == HalfEven(price * (100 + sign * pct), 100)

EmptyHolding == [quantity |-> 0, basis |-> 0, realized |-> 0]

(***************************************************************************)
(* What a sale of `quantity` takes out of the cost basis.  The last units  *)
(* take all that is left of it, whatever the earlier roundings were.       *)
(***************************************************************************)
AverageFirst(h, quantity) == HalfEven(h.basis, h.quantity) * quantity  \* mutant

BasisSold(h, quantity) ==
  IF quantity = h.quantity THEN h.basis
  ELSE HalfEven(h.basis * quantity, h.quantity)

(***************************************************************************)
(* apply_fill: a buy's fee joins the basis, a sale's fee reduces the       *)
(* proceeds.  CashChange is the second component of the code's result.     *)
(* A sale of more than is held raises; callers reserve the units of a sale *)
(* when they place it, so that PaperPortfolio never meets that.            *)
(***************************************************************************)
FeeOutsideBasis(h, quantity, gross, fee) ==                            \* mutant
  [h EXCEPT !.quantity = @ + quantity, !.basis = @ + gross]

BuyFill(h, quantity, gross, fee) ==
  [h EXCEPT !.quantity = @ + quantity, !.basis = @ + gross + fee]

SellFill(h, quantity, gross, fee) ==
  [quantity |-> h.quantity - quantity,
   basis    |-> h.basis - BasisSold(h, quantity),
   realized |-> h.realized + (gross - fee - BasisSold(h, quantity))]

CashChange(side, gross, fee) ==
  IF side = "buy" THEN -(gross + fee) ELSE gross - fee
=============================================================================
