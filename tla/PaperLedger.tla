----------------------------- MODULE PaperLedger -----------------------------
(***************************************************************************)
(* What a paper portfolio promises of its balances, whoever places the     *)
(* orders: an order gives an amount of one account for a value of another. *)
(* What it gives is free when the order is placed and is set aside until   *)
(* the order is filled, when both change hands once, or cancelled, when    *)
(* nothing does; no balance changes in another way.  Without prices, fees, *)
(* limits, bots or workers.  PaperPortfolio and PaperBots implement it.    *)
(***************************************************************************)
EXTENDS Sums

CONSTANTS
  Accounts,
  Money,    \* the account of the initial deposit
  Orders,
  NoTerms   \* of an order that was not placed

VARIABLES
  balance,  \* [Accounts -> Nat]
  status,   \* "none", "pending", "filled" or "cancelled", by order
  terms     \* by order

lvars == <<balance, status, terms>>

Terms == [from: Accounts, amount: Nat, to: Accounts, value: Nat]

Amounts == [i \in Orders |-> terms[i].amount]
SetAside(a) == Total({i \in Orders : status[i] = "pending" /\ terms[i].from = a}, Amounts)

Init ==
  /\ balance = [a \in Accounts |-> 0]
  /\ status = [i \in Orders |-> "none"]
  /\ terms = [i \in Orders |-> NoTerms]

Deposit ==
  /\ \A a \in Accounts : balance[a] = 0
  /\ \A i \in Orders : status[i] = "none"
  /\ balance'[Money] \in Nat \ {0}
  /\ balance' = [balance EXCEPT ![Money] = balance'[Money]]
  /\ UNCHANGED <<status, terms>>

\* Terms are agreed on once, and what they take is free.
Agree(i) ==
  LET t == terms'[i] IN
  /\ status[i] = "none"
  /\ t \in Terms /\ t.from # t.to
  /\ t.amount <= balance[t.from] - SetAside(t.from)
  /\ terms' = [terms EXCEPT ![i] = t]

Exchange(t) ==
  balance' = [balance EXCEPT ![t.from] = @ - t.amount, ![t.to] = @ + t.value]

Place(i) ==
  /\ Agree(i)
  /\ status' = [status EXCEPT ![i] = "pending"]
  /\ UNCHANGED balance

Trade(i) ==
  /\ Agree(i)
  /\ status' = [status EXCEPT ![i] = "filled"]
  /\ Exchange(terms'[i])

Fill(i) ==
  /\ status[i] = "pending"
  /\ status' = [status EXCEPT ![i] = "filled"]
  /\ Exchange(terms[i])
  /\ UNCHANGED terms

Cancel(i) ==
  /\ status[i] = "pending"
  /\ status' = [status EXCEPT ![i] = "cancelled"]
  /\ UNCHANGED <<balance, terms>>

Next == Deposit \/ \E i \in Orders : Place(i) \/ Trade(i) \/ Fill(i) \/ Cancel(i)

Spec == Init /\ [][Next]_lvars
=============================================================================
