----------------------------- MODULE OrderLedger -----------------------------
(***************************************************************************)
(* What the sandbox engine promises of the orders of one exchange account, *)
(* without its workers, network or database: an order is opened once, one  *)
(* at a time; the exchange trades on open orders only; and an order is     *)
(* settled with exactly what was traded.  SandboxTrading implements it.    *)
(*                                                                         *)
(* A settled order may be opened again: when the answer to a commit is     *)
(* lost, the engine marks the order unresolved and looks it up once more   *)
(* (sandbox.py:209-217).  Nothing is traded or booked by that.             *)
(***************************************************************************)
EXTENDS Integers

CONSTANTS Orders, MaxAmount

VARIABLES
  phase,     \* "new", "open" or "settled", by order
  executed,  \* what the exchange traded on it
  booked     \* what the database counts of that

lvars == <<phase, executed, booked>>

OpenOrders == {i \in Orders : phase[i] = "open"}

Init ==
  /\ phase = [i \in Orders |-> "new"]
  /\ executed = [i \in Orders |-> 0]
  /\ booked = [i \in Orders |-> 0]

Open(i) ==
  /\ OpenOrders = {}
  /\ phase[i] \in {"new", "settled"}
  /\ phase' = [phase EXCEPT ![i] = "open"]
  /\ UNCHANGED <<executed, booked>>

Execute(i) ==
  /\ phase[i] = "open"
  /\ \E q \in executed[i] + 1 .. MaxAmount : executed' = [executed EXCEPT ![i] = q]
  /\ UNCHANGED <<phase, booked>>

Record(i) ==
  /\ phase[i] = "open"
  /\ \E q \in booked[i] .. executed[i] : booked' = [booked EXCEPT ![i] = q]
  /\ UNCHANGED <<phase, executed>>

Settle(i) ==
  /\ phase[i] = "open"
  /\ booked' = [booked EXCEPT ![i] = executed[i]]
  /\ phase' = [phase EXCEPT ![i] = "settled"]
  /\ UNCHANGED executed

Next == \E i \in Orders : Open(i) \/ Execute(i) \/ Record(i) \/ Settle(i)

Spec == Init /\ [][Next]_lvars
=============================================================================
