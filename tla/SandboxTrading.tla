--------------------------- MODULE SandboxTrading ---------------------------
(***************************************************************************)
(* Bots that trade on one exchange account (Binance spot testnet):         *)
(* backend/app/trading/sandbox.py, worker.py, service.py and the tables of *)
(* database/postgres/007_sandbox_trading.sql.                              *)
(*                                                                         *)
(* A worker serves a due bot in a sequence of short transactions and       *)
(* network calls, under a session advisory lock of the account.  An order  *)
(* is first committed as an intent, then submitted once; whatever happens  *)
(* after that is found out by looking the order up by its client id.       *)
(* Between two steps of a worker the API may change the bot, the exchange  *)
(* may accept, match or refuse the order, another worker may run, and the  *)
(* worker may crash.                                                       *)
(*                                                                         *)
(* Prices, costs and fees in quote currency are left out: whether a stop   *)
(* or a limit triggers, what a model predicts and whether a balance or a   *)
(* risk limit refuses an order are choices.  Quantities are kept.          *)
(***************************************************************************)
EXTENDS Sums

CONSTANTS
  Bots,          \* the account's bots, one per symbol
  Workers,       \* trading-worker processes
  NoOne,         \* the lock's holder when it is free
  OrderAmount,   \* config.order_amount, in units of the position's precision
  Lot,           \* the exchange's step for order amounts
  LotFee,        \* units of base currency the exchange keeps of a bought lot
  FailureLimit,  \* 5 in the code (sandbox.py:288 and 311)
  MaxPositions,  \* config.max_open_positions
  MaxCandle, MaxRevision,  \* bounds of the model
  MaxTriggers,   \* bound: exits that a price triggers
  MaxExits,      \* bound: exits in all, with those that the user asks for
  Faults,        \* what the environment may do, see below
  MaxFaults      \* how often, in all; 0 sets no bound

(***************************************************************************)
(* "crash": a worker dies.  "error": a database or network call raises.    *)
(* "timeout": a submission's answer is lost or late.  "loss": a submission *)
(* never arrives.  "lockloss": the connection that holds the advisory lock *)
(* is gone while its worker goes on.                                       *)
(***************************************************************************)
ASSUME BoundsAssumption ==
  /\ IsFiniteSet(Bots) /\ IsFiniteSet(Workers) /\ NoOne \notin Workers
  /\ Lot \in Nat \ {0} /\ LotFee \in 0 .. Lot - 1
  /\ OrderAmount \in Nat \ {0} /\ OrderAmount % Lot = 0
  /\ FailureLimit \in Nat \ {0} /\ MaxPositions \in Nat \ {0}
  /\ MaxCandle \in Nat \ {0} /\ MaxRevision \in Nat
  /\ MaxExits \in Nat /\ MaxTriggers \in 0 .. MaxExits
  /\ Faults \subseteq {"crash", "error", "timeout", "loss", "lockloss"}
  /\ MaxFaults \in Nat

(***************************************************************************)
(* event_key: one per prediction candle, and one per attempt to exit.  The *)
(* order id is derived from the bot and the key (orders.py).               *)
(***************************************************************************)
Keys == ({"candle"} \X (1 .. MaxCandle)) \cup ({"exit"} \X (0 .. MaxExits - 1))
Ids == Bots \X Keys

Active == {"submitting", "unknown", "open", "partially_filled"}
Terminal == {"filled", "cancelled", "rejected", "expired"}

VARIABLES
  bots,       \* trading_bots: state, revision, failures, close_requested
  position,   \* sandbox_positions.quantity
  decisions,  \* trading_decisions: the event keys of a bot
  orders,     \* sandbox_orders, by order id
  active,     \* users.is_active of the owner
  holder,     \* who holds the account's advisory lock
  job,        \* what each worker is doing
  venue,      \* the exchange's side of each order
  candle,     \* the last closed candle
  sends,      \* how often an order was submitted
  faults      \* faults so far, when they are bounded

vars == <<bots, position, decisions, orders, active, holder, job, venue,
          candle, sends, faults>>

db == <<bots, position, decisions, orders, active>>
world == <<venue, candle, sends>>

BotState == {"stopped", "running", "stopping", "error"}
VenueStatus == {"unsent", "sent", "lost", "refused", "NEW", "FILLED", "EXPIRED", "CANCELED"}
Step == {"idle", "lock", "load", "outstanding", "finish", "decide", "reserve",
         "submit", "await", "rejected", "lookup", "cancel", "lookup2",
         "fills", "apply", "unknown", "failing"}

NoOrder == [status |-> "none", side |-> "none", amount |-> 0, filled |-> 0]
NoSnap == [revision |-> 0, state |-> "none", close |-> FALSE, position |-> 0]
NoRemote == [status |-> "unsent", filled |-> 0]
Idle == [pc |-> "idle", bot |-> NoOne, revision |-> 0, snap |-> NoSnap,
         id |-> NoOne, side |-> "none", amount |-> 0, remote |-> NoRemote]

TypeOK ==
  /\ bots \in [Bots -> [state: BotState, revision: 1 .. MaxRevision + 1,
                        failures: 0 .. FailureLimit, close: BOOLEAN]]
  /\ position \in [Bots -> 0 .. OrderAmount]
  /\ decisions \in [Bots -> SUBSET Keys]
  /\ orders \in [Ids -> [status: {"none"} \cup Active \cup Terminal,
                         side: {"none", "buy", "sell"}, amount: 0 .. OrderAmount,
                         filled: 0 .. OrderAmount]]
  /\ active \in BOOLEAN
  /\ holder \in Workers \cup {NoOne}
  /\ \A w \in Workers : job[w].pc \in Step
  /\ venue \in [Ids -> [status: VenueStatus, filled: 0 .. OrderAmount]]
  /\ candle \in 1 .. MaxCandle

-----------------------------------------------------------------------------

OrdersOf(b) == {i \in Ids : i[1] = b /\ orders[i].status # "none"}
Unresolved == {i \in Ids : orders[i].status \in Active}
UnresolvedOf(b) == {i \in Unresolved : i[1] = b}

\* What a purchase of q units adds to the position: its fee is in base units.
Net(q) == q - (q \div Lot) * LotFee

\* amount_to_precision
Truncate(q) == (q \div Lot) * Lot

LotsUpTo(q) == {n \in 0 .. q : n % Lot = 0}

\* Failures are only compared with FailureLimit, so they are counted up to it.
OneMore(n) == IF n < FailureLimit THEN n + 1 ELSE n

\* The index sandbox_one_unresolved_order lets order i be unresolved.
OnlyUnresolved(i) == Unresolved \subseteq {i}

Known(i) == venue[i].status \in {"NEW", "FILLED", "EXPIRED", "CANCELED"}

\* A fault of this kind happens now.
Fault(kind) ==
  /\ kind \in Faults
  /\ IF MaxFaults = 0 THEN UNCHANGED faults
     ELSE faults < MaxFaults /\ faults' = faults + 1

\* Worker w goes on to step pc; the lock stays with whom it is.
Goto(w, pc) ==
  /\ job' = [job EXCEPT ![w].pc = pc]
  /\ UNCHANGED holder

\* An exception leaves run(): the lock is released before failure() is called.
Unlock(w) == holder' = IF holder = w THEN NoOne ELSE holder

Raise(w) ==
  /\ Unlock(w)
  /\ job' = [job EXCEPT ![w] = [Idle EXCEPT !.pc = "failing", !.bot = job[w].bot,
                                            !.revision = job[w].revision]]

\* run() returns.  account()'s finally raises when the lock's connection is gone.
Finish(w) ==
  IF holder = w THEN holder' = NoOne /\ job' = [job EXCEPT ![w] = Idle] ELSE Raise(w)

(***************************************************************************)
(* success() and unfilled(), on a bot's row.  failure() counts in the same *)
(* way as unfilled().                                                      *)
(***************************************************************************)
Success(bot) == [bot EXCEPT !.failures = 0]

Strike(bot) ==
  LET limit == bot.failures >= FailureLimit - 1
  IN  [bot EXCEPT !.failures = OneMore(@),
                  !.state = IF limit /\ @ = "running" THEN "error" ELSE @,
                  !.close = @ /\ ~limit]

-----------------------------------------------------------------------------
(***************************************************************************)
(* A worker: worker.py main, sandbox.py run, account.                      *)
(***************************************************************************)

\* Mutant of Selectable: only bots that run are served.
OnlyRunning(b) == bots[b].state = "running"

\* The worker's query for due bots (worker.py:36-39).
Selectable(b) ==
  \/ bots[b].state \in {"running", "stopping"}
  \/ bots[b].close
  \/ UnresolvedOf(b) # {}

\* The row read here is old when the bot's turn comes; run() reads it again
\* and failure() compares its revision.
Poll(w, b) ==
  /\ job[w].pc = "idle"
  /\ Selectable(b)
  /\ job' = [job EXCEPT ![w] = [Idle EXCEPT !.pc = "lock", !.bot = b,
                                            !.revision = bots[b].revision]]
  /\ UNCHANGED <<db, world, holder, faults>>

LockFree == holder = NoOne

\* pg_try_advisory_lock does not wait: without the lock the bot is skipped.
Lock(w) ==
  /\ job[w].pc = "lock"
  /\ IF LockFree
     THEN holder' = w /\ job' = [job EXCEPT ![w].pc = "load"]
     ELSE UNCHANGED holder /\ job' = [job EXCEPT ![w] = Idle]
  /\ UNCHANGED <<db, world, faults>>

Load(w) ==
  LET b == job[w].bot
  IN  /\ job[w].pc = "load"
      /\ job' = [job EXCEPT
                   ![w].pc = "outstanding",
                   ![w].snap = [revision |-> bots[b].revision, state |-> bots[b].state,
                                close |-> bots[b].close, position |-> position[b]]]
      /\ UNCHANGED <<db, world, holder, faults>>

\* Mutant of NextStep: an intent found in 'submitting' is submitted again.
ResubmitIntent(i) == IF orders[i].status = "submitting" THEN "submit" ELSE "lookup"

\* An order found unresolved is only ever looked up.
NextStep(i) == "lookup"

\* sandbox.py:57-66: the account's unresolved order comes first.
Outstanding(w) ==
  /\ job[w].pc = "outstanding"
  /\ \E i \in Unresolved :
       /\ i[1] = job[w].bot
       /\ job' = [job EXCEPT ![w].pc = NextStep(i), ![w].id = i, ![w].snap = NoSnap]
  /\ UNCHANGED <<db, world, holder, faults>>

\* It is another bot's, or its next_reconcile_at is still to come.
Postpone(w) ==
  /\ job[w].pc = "outstanding"
  /\ Unresolved # {}
  /\ Finish(w)
  /\ UNCHANGED <<db, world, faults>>

\* sandbox.py:67-73
NothingOutstanding(w) ==
  LET snap == job[w].snap
  IN  /\ job[w].pc = "outstanding"
      /\ Unresolved = {}
      /\ IF snap.state = "stopping" THEN Goto(w, "finish")
         ELSE IF snap.close \/ snap.state = "running" THEN Goto(w, "decide")
         ELSE Finish(w)
      /\ UNCHANGED <<db, world, faults>>

FinishStop(w) ==
  LET b == job[w].bot
  IN  /\ job[w].pc = "finish"
      /\ IF active
         THEN /\ bots' = [bots EXCEPT ![b].state = IF @ = "stopping" THEN "stopped" ELSE @]
              /\ Finish(w)
         ELSE UNCHANGED bots /\ Raise(w)
      /\ UNCHANGED <<position, decisions, orders, active, world, faults>>

(***************************************************************************)
(* The decision, sandbox.py:74-119, from the row that Load read.  A stop   *)
(* or take-profit level may be reached at any quote.                       *)
(***************************************************************************)
Intend(w, key, side, amount) ==
  IF side # "hold" /\ amount = 0     \* prepare: below exchange precision
  THEN Raise(w)
  ELSE /\ job' = [job EXCEPT ![w].pc = "reserve", ![w].id = <<job[w].bot, key>>,
                             ![w].side = side, ![w].amount = amount]
       /\ UNCHANGED holder

ExitsTried(b) == Cardinality({i \in OrdersOf(b) : orders[i].side = "sell"})

DecideExit(w) ==
  LET n == ExitsTried(job[w].bot)
  IN  /\ job[w].pc = "decide"
      /\ job[w].snap.position > 0
      /\ n < IF job[w].snap.close THEN MaxExits ELSE MaxTriggers
      /\ Intend(w, <<"exit", n>>, "sell", Truncate(job[w].snap.position))
      /\ UNCHANGED <<db, world, faults>>

ClearClose(w) ==
  /\ job[w].pc = "decide"
  /\ job[w].snap.position = 0 /\ job[w].snap.close
  /\ bots' = [bots EXCEPT ![job[w].bot].close = FALSE]
  /\ Finish(w)
  /\ UNCHANGED <<position, decisions, orders, active, world, faults>>

\* Mutant of Wanted: a second purchase is added to an open position.
WantedAgain(signal, held) ==
  IF signal = "sell" /\ held = 0 THEN "hold" ELSE signal

Wanted(signal, held) ==
  IF (signal = "buy" /\ held > 0) \/ (signal = "sell" /\ held = 0) THEN "hold" ELSE signal

\* Models may be switched, so one candle can give different signals.
DecidePrediction(w, signal) ==
  LET held == job[w].snap.position
      side == Wanted(signal, held)
  IN  /\ job[w].pc = "decide"
      /\ ~job[w].snap.close
      /\ Intend(w, <<"candle", candle>>, side,
                CASE side = "buy" -> OrderAmount
                  [] side = "sell" -> Truncate(held)
                  [] side = "hold" -> 0)
      /\ UNCHANGED <<db, world, faults>>

(***************************************************************************)
(* The reservation, sandbox.py:120-145, in one transaction that locks the  *)
(* user, the account and the bot.                                          *)
(***************************************************************************)
\* Mutant of StillWanted: a bot that was stopped meanwhile still trades.
AnyRevision(w) == TRUE

StillWanted(w) ==
  LET bot == bots[job[w].bot]
  IN  bot.revision = job[w].snap.revision /\ (bot.close \/ bot.state = "running")

Decided(w) == job[w].id[2] \in decisions[job[w].bot]
Prediction(w) == job[w].id[2][1] = "candle"
Expired(w) == Prediction(w) /\ job[w].id[2][2] # candle

\* Mutant of OrderOutstanding: only the lock keeps orders apart.
LockIsEnough == FALSE

OrderOutstanding == Unresolved # {}

\* Mutant of PositionsFull: one position too many.
OneMorePosition(w) ==
  job[w].side = "buy" /\ Cardinality({b \in Bots : position[b] > 0}) > MaxPositions

PositionsFull(w) ==
  /\ job[w].side = "buy"
  /\ Cardinality({b \in Bots : position[b] > 0}) >= MaxPositions

\* risk(): the quote, limits and balances may refuse an order for any reason;
\* an unresolved order (also by the unique index) and the number of positions
\* always do.
RiskRefuses(w) == OrderOutstanding \/ PositionsFull(w)

Decide(w) == decisions' = [decisions EXCEPT ![job[w].bot] = @ \cup {job[w].id[2]}]

ReserveNothing(w) ==
  LET b == job[w].bot
  IN  /\ job[w].pc = "reserve"
      /\ IF ~active \/ (StillWanted(w) /\ ~Decided(w) /\ Expired(w))
         THEN Raise(w) /\ UNCHANGED <<bots, decisions>>
         ELSE IF ~StillWanted(w)
         THEN Finish(w) /\ UNCHANGED <<bots, decisions>>
         ELSE \* already_processed, or a decision to hold
              /\ Decided(w) \/ job[w].side = "hold"
              /\ IF Decided(w) THEN UNCHANGED decisions ELSE Decide(w)
              /\ bots' = [bots EXCEPT ![b] = Success(@)]
              /\ Finish(w)
      /\ UNCHANGED <<position, orders, active, world, faults>>

MayReserve(w) ==
  /\ job[w].pc = "reserve"
  /\ active /\ StillWanted(w) /\ ~Decided(w) /\ ~Expired(w)
  /\ job[w].side # "hold"

\* A refused prediction becomes a decision to hold; a refused exit raises.
RefuseOrder(w) ==
  LET b == job[w].bot
  IN  /\ MayReserve(w)
      /\ IF Prediction(w)
         THEN Decide(w) /\ bots' = [bots EXCEPT ![b] = Success(@)] /\ Finish(w)
         ELSE UNCHANGED <<bots, decisions>> /\ Raise(w)
      /\ UNCHANGED <<position, orders, active, world, faults>>

ReserveOrder(w) ==
  LET b == job[w].bot
  IN  /\ MayReserve(w) /\ ~RiskRefuses(w)
      /\ Decide(w)
      /\ orders' = [orders EXCEPT ![job[w].id] =
                      [status |-> "submitting", side |-> job[w].side,
                       amount |-> job[w].amount, filled |-> 0]]
      /\ job' = [job EXCEPT ![w].pc = "submit", ![w].snap = NoSnap,
                            ![w].side = "none", ![w].amount = 0]
      /\ UNCHANGED <<bots, position, active, world, holder, faults>>

-----------------------------------------------------------------------------
(***************************************************************************)
(* Submission and reconciliation, sandbox.py:146-282.                      *)
(***************************************************************************)
Submit(w) ==
  LET i == job[w].id
  IN  /\ job[w].pc = "submit"
      /\ venue' = [venue EXCEPT ![i].status = "sent"]
      /\ sends' = [sends EXCEPT ![i] = @ + 1]
      /\ Goto(w, "await")
      /\ UNCHANGED <<db, candle, faults>>

\* The exchange's answer, unless it says that the order was refused.
Acknowledged(w) ==
  /\ job[w].pc = "await"
  /\ Known(job[w].id)
  /\ Goto(w, "lookup")
  /\ UNCHANGED <<db, world, faults>>

\* No answer: "from this point every failure is ambiguous" (151).
NoAnswer(w) ==
  /\ job[w].pc = "await"
  /\ Fault("timeout")
  /\ Goto(w, "lookup")
  /\ UNCHANGED <<db, world>>

SubmissionRejected(w) ==
  /\ job[w].pc = "await"
  /\ venue[job[w].id].status = "refused"
  /\ Goto(w, "rejected")
  /\ UNCHANGED <<db, world, faults>>

RecordRejection(w) ==
  LET b == job[w].bot
      stopped == [bots[b] EXCEPT !.state = IF @ = "stopping" THEN "stopped" ELSE @]
  IN  /\ job[w].pc = "rejected"
      /\ IF active
         THEN /\ orders' = [orders EXCEPT ![job[w].id].status = "rejected"]
              /\ bots' = [bots EXCEPT ![b] = Strike(stopped)]
              /\ Finish(w)
         ELSE UNCHANGED <<bots, orders>> /\ Raise(w)
      /\ UNCHANGED <<position, decisions, active, world, faults>>

\* The first lookup; an order that the exchange does not know raises.
Lookup(w) ==
  LET i == job[w].id
  IN  /\ job[w].pc = "lookup"
      /\ job' = [job EXCEPT ![w].pc = IF ~Known(i) THEN "unknown"
                                      ELSE IF venue[i].status = "NEW" THEN "cancel"
                                      ELSE "fills",
                            ![w].remote = IF Known(i) THEN venue[i] ELSE NoRemote]
      /\ UNCHANGED <<db, world, holder, faults>>

\* Cancelling an order that is already final fails, which is ignored.
CancelRemainder(w) ==
  LET i == job[w].id
  IN  /\ job[w].pc = "cancel"
      /\ venue' = [venue EXCEPT ![i].status = IF @ = "NEW" THEN "CANCELED" ELSE @]
      /\ Goto(w, "lookup2")
      /\ UNCHANGED <<db, candle, sends, faults>>

CancelFails(w) ==
  /\ job[w].pc = "cancel"
  /\ Fault("error")
  /\ Goto(w, "lookup2")
  /\ UNCHANGED <<db, world>>

LookupAgain(w) ==
  /\ job[w].pc = "lookup2"
  /\ job' = [job EXCEPT ![w].pc = "fills", ![w].remote = venue[job[w].id]]
  /\ UNCHANGED <<db, world, holder, faults>>

\* The trades must add up to what the lookup said, or the answer is discarded.
Fills(w) ==
  LET remote == job[w].remote
  IN  /\ job[w].pc = "fills"
      /\ IF remote.filled = 0 \/ remote.filled = venue[job[w].id].filled
         THEN Goto(w, "apply") ELSE Goto(w, "unknown")
      /\ UNCHANGED <<db, world, faults>>

StoredStatus(remote) ==
  CASE remote.status = "NEW" ->
         IF remote.filled = 0 THEN "open" ELSE "partially_filled"
    [] remote.status = "FILLED" -> "filled"
    [] remote.status = "CANCELED" -> "cancelled"
    [] OTHER -> "expired"

\* Mutant of NewFills: fills that are already stored are booked once more.
AllFills(i, remote) == remote.filled

\* Fills already stored are skipped by the primary key of sandbox_fills.
NewFills(i, remote) == remote.filled - orders[i].filled

PositionAfter(i, remote) ==
  LET b == i[1]
  IN  IF orders[i].side = "buy"
      THEN position[b] + Net(NewFills(i, remote))
      ELSE position[b] - NewFills(i, remote)

Applicable(i, remote) ==
  /\ active
  /\ remote.filled >= orders[i].filled    \* else "moved backwards"
  /\ PositionAfter(i, remote) >= 0        \* else "sale exceeds the position"
  /\ StoredStatus(remote) \in Active => OnlyUnresolved(i)

\* The bot's row after its order reached this status.
BotAfter(b, st, filled, held) ==
  LET stopped == [bots[b] EXCEPT !.state = "stopped", !.revision = @ + 1]
      settled == IF bots[b].state = "stopping" THEN stopped ELSE bots[b]
      closed == [settled EXCEPT !.close = @ /\ held # 0]
  IN  IF st \notin Terminal THEN Success(bots[b])
      ELSE IF filled = 0 THEN Strike(closed)
      ELSE Success(closed)

\* Mutant of OrderAfter: a cancellation is stored without the fills before it.
TerminalWithoutFills(i, remote) ==
  LET st == StoredStatus(remote)
  IN  [orders[i] EXCEPT !.status = st,
                        !.filled = IF st = "cancelled" THEN @ ELSE remote.filled]

OrderAfter(i, remote) ==
  [orders[i] EXCEPT !.status = StoredStatus(remote), !.filled = remote.filled]

Book(i, remote) ==
  LET held == PositionAfter(i, remote)
  IN  /\ position' = [position EXCEPT ![i[1]] = held]
      /\ orders' = [orders EXCEPT ![i] = OrderAfter(i, remote)]
      /\ bots' = [bots EXCEPT ![i[1]] =
                    BotAfter(i[1], StoredStatus(remote), remote.filled, held)]
      /\ UNCHANGED <<decisions, active>>

Apply(w) ==
  LET i == job[w].id
  IN  /\ job[w].pc = "apply"
      /\ IF Applicable(i, job[w].remote)
         THEN Book(i, job[w].remote) /\ Finish(w)
         ELSE UNCHANGED db /\ Goto(w, "unknown")
      /\ UNCHANGED <<world, faults>>

\* The transaction commits and its answer is lost: apply() raises after all.
ApplyUnconfirmed(w) ==
  /\ job[w].pc = "apply"
  /\ Fault("error")
  /\ Applicable(job[w].id, job[w].remote)
  /\ Book(job[w].id, job[w].remote)
  /\ Goto(w, "unknown")
  /\ UNCHANGED world

\* A lookup, a fill query or the transaction of apply() raises.
ReconcileFails(w) ==
  /\ job[w].pc \in {"lookup", "lookup2", "fills", "apply"}
  /\ Fault("error")
  /\ Goto(w, "unknown")
  /\ UNCHANGED <<db, world>>

\* The except clause of reconcile(): the order stays, or becomes, unresolved.
MarkUnknown(w) ==
  /\ job[w].pc = "unknown"
  /\ IF active /\ OnlyUnresolved(job[w].id)
     THEN /\ orders' = [orders EXCEPT ![job[w].id].status = "unknown"]
          /\ Finish(w)
     ELSE UNCHANGED orders /\ Raise(w)
  /\ UNCHANGED <<bots, position, decisions, active, world, faults>>

-----------------------------------------------------------------------------
(***************************************************************************)
(* Failures of a worker.                                                   *)
(***************************************************************************)

\* An exception outside reconcile(); from "submit" and "await" it is the
\* transaction before or after the submission whose answer is lost.
StepFails(w) ==
  /\ job[w].pc \in {"lock", "load", "outstanding", "finish", "decide", "reserve",
                    "submit", "await", "rejected", "unknown"}
  /\ Fault("error")
  /\ Raise(w)
  /\ UNCHANGED <<db, world>>

\* failure(), after the lock is released: only for the revision the worker
\* had read when it began.
RecordFailure(w) ==
  LET b == job[w].bot
  IN  /\ job[w].pc = "failing"
      /\ job' = [job EXCEPT ![w] = Idle]
      /\ IF active /\ bots[b].revision = job[w].revision
         THEN bots' = [bots EXCEPT ![b] = Strike(@)]
         ELSE UNCHANGED bots
      /\ UNCHANGED <<position, decisions, orders, active, world, holder, faults>>

\* The process ends; PostgreSQL releases its advisory lock.
Crash(w) ==
  /\ job[w].pc # "idle"
  /\ Fault("crash")
  /\ Unlock(w)
  /\ job' = [job EXCEPT ![w] = Idle]
  /\ UNCHANGED <<db, world>>

LoseLock(w) ==
  /\ holder = w
  /\ Fault("lockloss")
  /\ holder' = NoOne
  /\ UNCHANGED <<db, world, job>>

-----------------------------------------------------------------------------
(***************************************************************************)
(* The API: service.py control, update and sandbox_action.  Each call is   *)
(* one transaction that locks the same rows as the worker's transactions.  *)
(***************************************************************************)
MayChange(b) == active /\ bots[b].revision < MaxRevision

Changed(bot, state) ==
  [bot EXCEPT !.state = state, !.revision = @ + 1, !.failures = 0]

ApiChanges(b, bot) ==
  /\ bots' = [bots EXCEPT ![b] = bot]
  /\ UNCHANGED <<position, decisions, orders, active, world, holder, job, faults>>

Start(b) ==
  /\ MayChange(b)
  /\ bots[b].state = "stopped" /\ ~bots[b].close
  /\ UnresolvedOf(b) = {}
  /\ ApiChanges(b, Changed(bots[b], "running"))

Reset(b) ==
  /\ MayChange(b)
  /\ bots[b].state = "error"
  /\ UnresolvedOf(b) = {}
  /\ ApiChanges(b, Changed(bots[b], "stopped"))

StopTarget(b) == IF UnresolvedOf(b) = {} THEN "stopped" ELSE "stopping"

\* In state "error" the call is refused; where it changes nothing it is a stutter.
Stop(b) ==
  /\ MayChange(b)
  /\ bots[b].state \in {"running", "stopping"}
  /\ StopTarget(b) # bots[b].state
  /\ ApiChanges(b, Changed(bots[b], StopTarget(b)))

Update(b) ==
  /\ MayChange(b)
  /\ bots[b].state = "stopped" /\ ~bots[b].close
  /\ UnresolvedOf(b) = {}
  /\ ApiChanges(b, [bots[b] EXCEPT !.revision = @ + 1])

Close(b) ==
  /\ MayChange(b)
  /\ bots[b].state \in {"stopped", "error"}
  /\ UnresolvedOf(b) = {}
  /\ ApiChanges(b, [bots[b] EXCEPT !.close = TRUE, !.revision = @ + 1])

\* Mutant of Quiet: orders that are still unresolved are not looked at.
NobodyRuns ==
  \A b \in Bots : bots[b].state \notin {"running", "stopping"} /\ ~bots[b].close

\* admin/repository.py:81-86
Quiet == NobodyRuns /\ Unresolved = {}

SetActive(value) ==
  /\ active # value
  /\ ~value => Quiet
  /\ active' = value
  /\ UNCHANGED <<bots, position, decisions, orders, world, holder, job, faults>>

-----------------------------------------------------------------------------
(***************************************************************************)
(* Time and the exchange.                                                  *)
(***************************************************************************)
NextCandle ==
  /\ candle < MaxCandle
  /\ candle' = candle + 1
  /\ UNCHANGED <<db, venue, sends, holder, job, faults>>

VenueMoves(i, status, filled) ==
  /\ venue' = [venue EXCEPT ![i] = [status |-> status, filled |-> filled]]
  /\ UNCHANGED <<db, candle, sends, holder, job>>

Accept(i) == venue[i].status = "sent" /\ VenueMoves(i, "NEW", 0) /\ UNCHANGED faults
Refuse(i) == venue[i].status = "sent" /\ VenueMoves(i, "refused", 0) /\ UNCHANGED faults
Lose(i) == venue[i].status = "sent" /\ Fault("loss") /\ VenueMoves(i, "lost", 0)

\* An immediate-or-cancel order takes what it can get and expires; while that
\* goes on it is seen as new, or as partially filled.
Match(i) ==
  /\ venue[i].status = "NEW"
  /\ \E q \in LotsUpTo(orders[i].amount) :
       /\ q > venue[i].filled
       /\ q < orders[i].amount
       /\ VenueMoves(i, "NEW", q)
  /\ UNCHANGED faults

Complete(i) ==
  /\ venue[i].status = "NEW"
  /\ \/ VenueMoves(i, "FILLED", orders[i].amount)
     \/ VenueMoves(i, "EXPIRED", venue[i].filled)
  /\ UNCHANGED faults

-----------------------------------------------------------------------------

Init ==
  /\ bots = [b \in Bots |-> [state |-> "stopped", revision |-> 1, failures |-> 0,
                             close |-> FALSE]]
  /\ position = [b \in Bots |-> 0]
  /\ decisions = [b \in Bots |-> {}]
  /\ orders = [i \in Ids |-> NoOrder]
  /\ active = TRUE
  /\ holder = NoOne
  /\ job = [w \in Workers |-> Idle]
  /\ venue = [i \in Ids |-> NoRemote]
  /\ candle = 1
  /\ sends = [i \in Ids |-> 0]
  /\ faults = 0

\* What worker w does by itself, once it has begun.
Serve(w) ==
  \/ Lock(w) \/ Load(w) \/ Outstanding(w) \/ Postpone(w) \/ NothingOutstanding(w) \/ FinishStop(w)
  \/ DecideExit(w) \/ ClearClose(w)
  \/ \E signal \in {"buy", "sell", "hold"} : DecidePrediction(w, signal)
  \/ ReserveNothing(w) \/ RefuseOrder(w) \/ ReserveOrder(w)
  \/ Submit(w) \/ Acknowledged(w) \/ SubmissionRejected(w) \/ RecordRejection(w)
  \/ Lookup(w) \/ CancelRemainder(w) \/ LookupAgain(w) \/ Fills(w) \/ Apply(w)
  \/ MarkUnknown(w) \/ RecordFailure(w)

Misfortune(w) ==
  \/ NoAnswer(w) \/ CancelFails(w) \/ ApplyUnconfirmed(w) \/ ReconcileFails(w)
  \/ StepFails(w) \/ Crash(w) \/ LoseLock(w)

Api ==
  \/ \E b \in Bots : Start(b) \/ Reset(b) \/ Stop(b) \/ Update(b) \/ Close(b)
  \/ \E value \in BOOLEAN : SetActive(value)

Exchange(i) == Accept(i) \/ Refuse(i) \/ Match(i) \/ Complete(i)

Next ==
  \/ \E w \in Workers, b \in Bots : Poll(w, b)
  \/ \E w \in Workers : Serve(w)
  \/ \E w \in Workers : Misfortune(w)
  \/ Api
  \/ NextCandle
  \/ \E i \in Ids : Exchange(i)
  \/ \E i \in Ids : Lose(i)

Spec == Init /\ [][Next]_vars

(***************************************************************************)
(* Fairness.  A worker that began goes on, until it crashes.  It takes the *)
(* due bots in the order of next_run_at (worker.py:39), so each one comes  *)
(* again and again.  next_reconcile_at is at most 300 seconds ahead (217), *)
(* so an unresolved order is not postponed for ever.  The exchange answers *)
(* and ends an immediate-or-cancel order.  Users and faults owe nothing.   *)
(***************************************************************************)
Fairness ==
  /\ \A w \in Workers : WF_vars(Serve(w)) /\ SF_vars(Outstanding(w))
  /\ \A w \in Workers, b \in Bots : SF_vars(Poll(w, b))
  /\ \A i \in Ids : WF_vars(Exchange(i))

FairSpec == Spec /\ Fairness

-----------------------------------------------------------------------------
(***************************************************************************)
(* Safety.                                                                 *)
(***************************************************************************)
AboutToSubmit(i) == \E w \in Workers : job[w].pc = "submit" /\ job[w].id = i

\* The exchange may still trade on order i.
Live(i) == AboutToSubmit(i) \/ venue[i].status \in {"sent", "NEW"}

(***************************************************************************)
(* "A crash [...] leaves the intent durable for lookup, never              *)
(* resubmission" (sandbox.py:31-32).  Through crashes, lost answers and    *)
(* competing workers no order reaches the exchange twice.                  *)
(***************************************************************************)
SubmittedOnce == \A i \in Ids : sends[i] <= 1

(***************************************************************************)
(* What the database calls final is final: the exchange can no longer      *)
(* trade on the order, and every fill it had is booked.  A client that     *)
(* timed out, an order accepted late or matched between the lookup and the *)
(* query for its trades must not settle it early (sandbox.py:190-282).     *)
(***************************************************************************)
SettledIsFinal ==
  \A i \in Ids : orders[i].status \in Terminal =>
    ~Live(i) /\ orders[i].filled = venue[i].filled

(***************************************************************************)
(* The managed position is what the booked fills add up to, each counted   *)
(* once however often its order is reconciled (sandbox.py:238-267).        *)
(***************************************************************************)
SideOf(b, side) == {i \in OrdersOf(b) : orders[i].side = side}

PositionMatchesFills ==
  \A b \in Bots :
    position[b] + Total(SideOf(b, "sell"), [i \in Ids |-> orders[i].filled])
      = Total(SideOf(b, "buy"), [i \in Ids |-> Net(orders[i].filled)])

\* The books are the exchange's: what is settled cannot trade any more and has
\* all of its fills, and the position is what the fills add up to (sandbox.py
\* reconcile and apply).
BooksMatchExchange == SettledIsFinal /\ PositionMatchesFills

(***************************************************************************)
(* Exposure at the exchange, counting what live orders may still trade: a  *)
(* bot never sells more than it bought, and never holds more than one      *)
(* order's amount.  Orders and lookups of several workers, signals that    *)
(* change within a candle and exits that are tried again must not add up   *)
(* (sandbox.py:83-113, 121-126).  It relies on the account's lock: a       *)
(* reservation does not read the position again that its worker has read.  *)
(***************************************************************************)
MayTrade(i) == IF Live(i) THEN orders[i].amount ELSE venue[i].filled
Exposure(b, side) == Total(SideOf(b, side), [i \in Ids |-> MayTrade(i)])
Bought(b) == Total(SideOf(b, "buy"), [i \in Ids |-> venue[i].filled])
BoughtNet(b) == Total(SideOf(b, "buy"), [i \in Ids |-> Net(venue[i].filled)])
Sold(b) == Total(SideOf(b, "sell"), [i \in Ids |-> venue[i].filled])

ExposureBounded ==
  \A b \in Bots :
    /\ Exposure(b, "sell") <= BoughtNet(b)
    /\ Exposure(b, "buy") <= OrderAmount + Sold(b) + (Bought(b) - BoughtNet(b))

(***************************************************************************)
(* One order at a time may trade on the account, even when two workers     *)
(* believe that they hold its lock: what counts as unresolved in the       *)
(* database covers all that may be live at the exchange (sandbox.py:172    *)
(* and the index sandbox_one_unresolved_order).                            *)
(***************************************************************************)
OneLiveOrder == Cardinality({i \in Ids : Live(i)}) <= 1

(***************************************************************************)
(* No more than max_open_positions symbols of the account are held or      *)
(* being bought, although each bot decides on its own, from what it read   *)
(* before (sandbox.py:182-185).                                            *)
(***************************************************************************)
PositionsBounded ==
  Cardinality({b \in Bots : \/ BoughtNet(b) > Sold(b)
                            \/ \E i \in SideOf(b, "buy") : Live(i)}) <= MaxPositions

(***************************************************************************)
(* A bot that the API reports as stopped cannot buy any more: no purchase  *)
(* is live or about to be submitted (service.py:40-48, sandbox.py:122 and  *)
(* 274-276).  It relies on the account's lock: a worker that finishes a    *)
(* stop (sandbox.py:67-72) asks for the state and not for the revision, so *)
(* that it could finish a later stop, whose order is still in flight.      *)
(***************************************************************************)
StoppedNeverBuys ==
  \A b \in Bots : bots[b].state = "stopped" =>
    \A i \in SideOf(b, "buy") : ~Live(i)

(***************************************************************************)
(* A deactivated user has no running bot and nothing live at the exchange, *)
(* although workers hold rows they read before (admin/repository.py:81-86, *)
(* trading/repository.py:94-96).                                           *)
(***************************************************************************)
InactiveIsQuiet ==
  ~active => /\ \A b \in Bots : bots[b].state \in {"stopped", "error"}
             /\ \A i \in Ids : ~Live(i)

-----------------------------------------------------------------------------
(***************************************************************************)
(* Refinement.                                                             *)
(***************************************************************************)
Phase(st) == IF st = "none" THEN "new" ELSE IF st \in Active THEN "open" ELSE "settled"

Ledger ==
  INSTANCE OrderLedger WITH
    Orders <- Ids,
    MaxAmount <- OrderAmount,
    phase <- [i \in Ids |-> Phase(orders[i].status)],
    executed <- [i \in Ids |-> venue[i].filled],
    booked <- [i \in Ids |-> orders[i].filled]

(***************************************************************************)
(* Every step of workers, API and exchange is a step of the ledger, or     *)
(* none: an order is opened, traded, booked and settled as if by one       *)
(* client that never loses a message (sandbox.py:51-282).  It is checked   *)
(* and proved while the account's lock is kept.                            *)
(***************************************************************************)
ImplementsLedger == Ledger!Spec

-----------------------------------------------------------------------------
(***************************************************************************)
(* Liveness.                                                               *)
(***************************************************************************)

\* An order that the exchange does not know, and that nobody will send now.
\* Its fate cannot be looked up: it stays unresolved until an operator acts.
Wedged(i) ==
  /\ i \in Unresolved
  /\ venue[i].status \in {"unsent", "lost", "refused"}
  /\ \A w \in Workers : job[w].id = i => job[w].pc \notin {"submit", "await", "rejected"}

WedgedBot(b) == \E i \in Ids : i[1] = b /\ Wedged(i)

(***************************************************************************)
(* "Reconciliation continues." (sandbox.py:214): an unresolved order is    *)
(* settled in the end, whatever crashed or timed out meanwhile and         *)
(* whatever state the bot is in, if the exchange knows the order.          *)
(***************************************************************************)
Reconciled ==
  \A b \in Bots : UnresolvedOf(b) # {} ~> (UnresolvedOf(b) = {} \/ WedgedBot(b))

(***************************************************************************)
(* A bot that was asked to stop gets out of "stopping" (service.py:40-44,  *)
(* sandbox.py:67-71, 159 and 275), unless its order's fate is unknown.     *)
(***************************************************************************)
StopCompletes ==
  \A b \in Bots : bots[b].state = "stopping" ~> (bots[b].state # "stopping" \/ WedgedBot(b))

(***************************************************************************)
(* A request to close the position is carried out or given up after        *)
(* repeated failures; it does not keep the bot from starting for ever      *)
(* (sandbox.py:84, 98, 278, 289, 312; service.py:32).                      *)
(***************************************************************************)
CloseResolves ==
  \A b \in Bots : bots[b].close ~> (~bots[b].close \/ WedgedBot(b))

-----------------------------------------------------------------------------
(***************************************************************************)
(* "execution pauses after five consecutive attempts" without fills        *)
(* (sandbox.py:287): a bot that has run since its first start, and whose   *)
(* FailureLimit or more orders all ended without a fill, is paused.        *)
(***************************************************************************)
NeverFilled(b) == {i \in OrdersOf(b) : orders[i].status \in Terminal /\ orders[i].filled = 0}

UnfilledPauses ==
  \A b \in Bots :
    /\ bots[b].state = "running" /\ bots[b].revision = 2
    /\ NeverFilled(b) = OrdersOf(b)
    => Cardinality(NeverFilled(b)) < FailureLimit
=============================================================================
