------------------------ MODULE SandboxTradingProofs ------------------------
(***************************************************************************)
(* Theorems of SandboxTrading, with their proofs.                          *)
(***************************************************************************)
EXTENDS SandboxTrading, SumsProofs

-----------------------------------------------------------------------------
(***************************************************************************)
(* Whole lots.                                                             *)
(***************************************************************************)
WholeLots(q) == q % Lot = 0

LEMMA Division ==
  ASSUME NEW q \in Nat
  PROVE  /\ q \div Lot \in Nat
         /\ q % Lot \in 0 .. Lot - 1
         /\ q = Lot * (q \div Lot) + (q % Lot)
<1>1. Lot \in Nat /\ Lot > 0
  BY BoundsAssumption
<1> QED BY <1>1

LEMMA LotsAreWhole ==
  ASSUME NEW k \in Nat
  PROVE  /\ Lot * k \in Nat
         /\ WholeLots(Lot * k)
         /\ (Lot * k) \div Lot = k
<1> DEFINE d == (Lot * k) \div Lot
           r == (Lot * k) % Lot
<1>1. Lot \in Nat \ {0} /\ Lot * k \in Nat
  BY BoundsAssumption
<1>2. d \in Nat /\ r \in 0 .. Lot - 1 /\ Lot * k = Lot * d + r
  BY <1>1, Division
<1> HIDE DEF d, r
<1>3. d = k
  <2>1. CASE d < k
    <3>1. k - d \in Nat /\ k - d >= 1
      BY <1>2, <2>1
    <3>2. Lot * (k - d) >= Lot
      BY <1>1, <3>1
    <3>3. Lot * (k - d) = r
      BY <1>1, <1>2
    <3> QED BY <1>1, <1>2, <3>2, <3>3
  <2>2. CASE d > k
    <3>1. d - k \in Nat /\ d - k >= 1
      BY <1>2, <2>2
    <3>2. Lot * (d - k) >= Lot
      BY <1>1, <3>1
    <3>3. Lot * (d - k) = 0 - r
      BY <1>1, <1>2
    <3> QED BY <1>1, <1>2, <3>2, <3>3
  <2> QED BY <1>2, <2>1, <2>2
<1>4. r = 0
  BY <1>1, <1>2, <1>3
<1> QED BY <1>1, <1>3, <1>4 DEF d, r, WholeLots

\* Lots can be added and taken away, and each pays its own fee.
LEMMA NetOfLots ==
  ASSUME NEW p \in Nat, WholeLots(p), NEW q \in Nat, WholeLots(q), p <= q
  PROVE  /\ WholeLots(q - p)
         /\ Net(p) \in Nat /\ Net(p) <= p
         /\ Net(q - p) = Net(q) - Net(p)
         /\ Net(q - p) \in Nat
<1> DEFINE k == p \div Lot
           n == q \div Lot
<1>1. Lot \in Nat \ {0} /\ LotFee \in Nat /\ LotFee < Lot
  BY BoundsAssumption
<1>2. k \in Nat /\ n \in Nat /\ p = Lot * k /\ q = Lot * n
  BY <1>1, Division DEF WholeLots
<1>3. Net(p) = p - k * LotFee /\ Net(q) = q - n * LotFee
  BY DEF Net
<1> HIDE DEF k, n
<1>4. n - k \in Nat
  <2>1. CASE n < k
    <3>1. Lot * (k - n) >= 1
      BY <1>1, <1>2, <2>1
    <3> QED BY <1>1, <1>2, <3>1
  <2> QED BY <1>2, <2>1
<1>5. q - p = Lot * (n - k) /\ q - p \in Nat
  BY <1>1, <1>2
<1>6. WholeLots(q - p) /\ (q - p) \div Lot = n - k
  BY <1>4, <1>5, LotsAreWhole
<1>7. Net(q - p) = (q - p) - (n - k) * LotFee
  BY <1>6 DEF Net
<1>8. k * LotFee \in Nat /\ k * LotFee <= Lot * k
  BY <1>1, <1>2
<1>9. (n - k) * LotFee \in Nat /\ (n - k) * LotFee <= Lot * (n - k)
  BY <1>1, <1>4
<1>10. (n - k) * LotFee = n * LotFee - k * LotFee
  BY <1>1, <1>2
<1>11. n * LotFee \in Nat
  BY <1>1, <1>2
<1>12. Net(q - p) = Net(q) - Net(p)
  BY <1>2, <1>3, <1>7, <1>8, <1>10, <1>11
<1> QED BY <1>2, <1>3, <1>5, <1>6, <1>7, <1>8, <1>9, <1>12

LEMMA NoLots == WholeLots(0) /\ Net(0) = 0
<1>1. Lot * 0 = 0 /\ LotFee \in Nat
  BY BoundsAssumption
<1>2. WholeLots(0) /\ 0 \div Lot = 0
  BY <1>1, LotsAreWhole
<1> QED BY <1>1, <1>2 DEF Net

LEMMA TruncateToLots ==
  ASSUME NEW q \in Nat
  PROVE  Truncate(q) \in Nat /\ WholeLots(Truncate(q)) /\ Truncate(q) <= q
<1>1. Truncate(q) = Lot * (q \div Lot)
  BY BoundsAssumption, Division DEF Truncate
<1> QED BY <1>1, Division, LotsAreWhole

-----------------------------------------------------------------------------
(***************************************************************************)
(* The inductive invariant.  What it says of one order, of one worker and  *)
(* of one bot is stated of their records, so that a lemma about a record   *)
(* holds before and after a step.                                          *)
(***************************************************************************)
Final == {"FILLED", "EXPIRED", "CANCELED"}
Answered == Final \cup {"NEW"}
Unanswered == {"unsent", "sent", "NEW"}

\* Steps in which a worker has an order.
WithOrder == {"submit", "await", "rejected", "lookup", "cancel", "lookup2", "fills",
              "apply", "unknown"}
Undecided == {"outstanding", "finish", "decide", "reserve"}

Bot == [state: BotState, revision: 1 .. MaxRevision + 1, failures: 0 .. FailureLimit,
        close: BOOLEAN]
OrderRow == [status: {"none"} \cup Active \cup Terminal, side: {"none", "buy", "sell"},
             amount: Nat, filled: Nat]
Remote == [status: VenueStatus, filled: Nat]
Snap == [revision: Nat, state: BotState \cup {"none"}, close: BOOLEAN, position: Nat]
Job == [pc: Step, bot: Bots \cup {NoOne}, revision: Nat, snap: Snap, id: Ids \cup {NoOne},
        side: {"none", "buy", "sell", "hold"}, amount: Nat, remote: Remote]

Types ==
  /\ bots \in [Bots -> Bot]
  /\ position \in [Bots -> Nat]
  /\ decisions \in [Bots -> SUBSET Keys]
  /\ orders \in [Ids -> OrderRow]
  /\ active \in BOOLEAN
  /\ holder \in Workers \cup {NoOne}
  /\ job \in [Workers -> Job]
  /\ venue \in [Ids -> Remote]
  /\ candle \in 1 .. MaxCandle
  /\ sends \in [Ids -> Nat]

\* A bot that runs has a revision left, for the stop that ends a run.
BotOK(bot) == bot.state \in {"running", "stopping"} => bot.revision <= MaxRevision

\* An order row, the exchange's side of it and how often it was sent.
OrderOK(o, r, n) ==
  /\ o.status = "none" => o = NoOrder /\ r = NoRemote /\ n = 0
  /\ o.status # "none" => o.side \in {"buy", "sell"} /\ o.amount > 0 /\ WholeLots(o.amount)
  /\ n <= 1 /\ (n = 0 <=> r.status = "unsent")
  /\ r.status \notin Answered => r.filled = 0
  /\ r.status = "NEW" => r.filled < o.amount
  /\ r.filled <= o.amount /\ WholeLots(r.filled)
  /\ o.filled <= r.filled /\ WholeLots(o.filled)
  /\ o.status \in Terminal => r.status \in Final \cup {"refused"} /\ o.filled = r.filled

\* A worker's variables, with the orders and the exchange as they are now.
JobOK(j, rows, remotes) ==
  /\ j.pc # "idle" => j.bot \in Bots
  /\ j.pc \in WithOrder \cup {"reserve"} => j.id \in Ids /\ j.id[1] = j.bot
  /\ j.pc = "reserve" /\ j.side # "hold" =>
       j.side \in {"buy", "sell"} /\ j.amount > 0 /\ WholeLots(j.amount)
  /\ j.pc \in WithOrder => rows[j.id].status # "none"
  /\ j.pc = "submit" => remotes[j.id].status = "unsent" /\ rows[j.id].status \in Active
  /\ j.pc = "rejected" => remotes[j.id].status = "refused"
  /\ j.pc \in {"cancel", "lookup2", "fills", "apply"} => remotes[j.id].status \in Answered
  /\ j.pc \in {"fills", "apply"} =>
       /\ j.remote.status \in Answered
       /\ j.remote.status \in Final => j.remote = remotes[j.id]
       /\ j.remote.filled <= remotes[j.id].filled /\ WholeLots(j.remote.filled)

\* Two workers are never about to submit the same order.
SubmittersDiffer ==
  \A v, w \in Workers : job[v].pc = "submit" /\ job[w].pc = "submit" /\ job[v].id = job[w].id
                        => v = w

OrdersOK ==
  \A i \in Ids : /\ OrderOK(orders[i], venue[i], sends[i])
                 /\ orders[i].status # "none" => i[2] \in decisions[i[1]]

OneUnresolved == \A i, j \in Unresolved : i = j

\* The exchange may trade on this order, or has traded more than is booked.
Pending(o, r) ==
  o.status # "none" /\ (r.status \in Unanswered \/ r.filled # o.filled)

\* The bots that hold a position or may get one.
Buying(b) == \E i \in Ids : i[1] = b /\ orders[i].side = "buy" /\ Pending(orders[i], venue[i])
Holding == {b \in Bots : position[b] > 0 \/ Buying(b)}
HoldingBounded == Cardinality(Holding) <= MaxPositions

QuietWhenInactive ==
  ~active => Unresolved = {} /\ \A b \in Bots : bots[b].state \in {"stopped", "error"}

AccountInv ==
  /\ Types
  /\ \A b \in Bots : BotOK(bots[b])
  /\ OrdersOK
  /\ \A w \in Workers : JobOK(job[w], orders, venue)
  /\ SubmittersDiffer
  /\ OneUnresolved
  /\ PositionMatchesFills
  /\ HoldingBounded
  /\ QuietWhenInactive

(***************************************************************************)
(* What holds besides while no worker loses the account's lock.            *)
(***************************************************************************)
LockKept == "lockloss" \notin Faults

Locked(pc) == pc \notin {"idle", "lock", "failing"}

LockHeld == \A w \in Workers : holder = w <=> Locked(job[w].pc)

\* What the worker has read still holds of its bot, as far as it matters.
SnapOK(j, bot, held) ==
  /\ j.pc \in Undecided =>
       /\ j.snap.position = held
       /\ j.snap.revision <= bot.revision
       /\ j.snap.revision = bot.revision /\ bot.close => j.snap.close
  /\ j.pc = "reserve" /\ j.side = "buy" =>
       j.amount = OrderAmount /\ j.snap.position = 0 /\ ~j.snap.close
  /\ j.pc = "reserve" /\ j.side = "sell" => j.amount <= j.snap.position

LockedOK(j, botRows, held, rows) ==
  /\ j.pc \in Undecided => SnapOK(j, botRows[j.bot], held[j.bot])
  /\ j.pc \in {"finish", "decide", "reserve"} => \A i \in Ids : rows[i].status \notin Active
  /\ j.pc \in WithOrder \ {"unknown"} => rows[j.id].status \in Active

\* An order that may still trade asks for no more than is there.
Backed(o, r, held) ==
  /\ o.amount <= OrderAmount
  /\ o.side = "sell" /\ Pending(o, r) => o.amount <= held + o.filled
  /\ o.side = "buy" /\ Pending(o, r) => held = Net(o.filled)

LockInv ==
  /\ AccountInv
  /\ LockHeld
  /\ \A w \in Workers : LockedOK(job[w], bots, position, orders)
  /\ \A i \in Ids : Backed(orders[i], venue[i], position[i[1]])
  /\ \A b \in Bots : position[b] <= OrderAmount
  /\ StoppedNeverBuys

-----------------------------------------------------------------------------
(***************************************************************************)
(* Records and sets.                                                       *)
(***************************************************************************)
LEMMA IdsFinite == IsFiniteSet(Ids) /\ IsFiniteSet(Bots)
<1>1. IsFiniteSet(1 .. MaxCandle) /\ IsFiniteSet(0 .. MaxExits - 1)
  BY BoundsAssumption, FS_Interval
<1>2. IsFiniteSet({"candle"}) /\ IsFiniteSet({"exit"})
  BY FS_Singleton
<1>3. IsFiniteSet({"candle"} \X (1 .. MaxCandle)) /\ IsFiniteSet({"exit"} \X (0 .. MaxExits - 1))
  BY <1>1, <1>2, FS_Product
<1>4. IsFiniteSet(Keys)
  BY <1>3, FS_Union DEF Keys
<1> QED BY <1>4, BoundsAssumption, FS_Product DEF Ids

\* A strike keeps the revision, ends no stop and asks for no exit.
LEMMA StrikeKeeps ==
  ASSUME NEW bot \in Bot
  PROVE  /\ Strike(bot) \in Bot
         /\ Strike(bot).revision = bot.revision
         /\ Strike(bot).state \in {bot.state, "error"}
         /\ Strike(bot).close => bot.close
<1> DEFINE limit == bot.failures >= FailureLimit - 1
           failures == OneMore(bot.failures)
           state == IF limit /\ bot.state = "running" THEN "error" ELSE bot.state
           close == bot.close /\ ~limit
<1>1. failures \in 0 .. FailureLimit
  BY BoundsAssumption DEF OneMore, Bot
<1>2. state \in BotState /\ state \in {bot.state, "error"}
  BY DEF Bot, BotState
<1>3. close \in BOOLEAN /\ (close => bot.close)
  BY DEF Bot
<1>4. Strike(bot) = [bot EXCEPT !.failures = failures, !.state = state, !.close = close]
  BY DEF Strike
<1> HIDE DEF failures, state, close
<1> QED BY <1>1, <1>2, <1>3, <1>4 DEF Bot

LEMMA SuccessKeeps ==
  ASSUME NEW bot \in Bot
  PROVE  /\ Success(bot) \in Bot
         /\ Success(bot).revision = bot.revision
         /\ Success(bot).state = bot.state
         /\ Success(bot).close = bot.close
BY BoundsAssumption DEF Success, Bot

-----------------------------------------------------------------------------
(***************************************************************************)
(* Workers.                                                                *)
(***************************************************************************)

\* What every step does to an order and to the exchange's side of it.
GoesOn(o, r, p, s) ==
  /\ o.status # "none" => p.status # "none"
  /\ r.status = "refused" => s.status = "refused"
  /\ r.status \in Answered => s.status \in Answered
  /\ r.status \in Final => s = r
  /\ r.filled <= s.filled

LEMMA JobKept ==
  ASSUME NEW j \in Job, NEW rows, NEW remotes, NEW rows2, NEW remotes2,
         JobOK(j, rows, remotes),
         remotes \in [Ids -> Remote], remotes2 \in [Ids -> Remote],
         \A i \in Ids : GoesOn(rows[i], remotes[i], rows2[i], remotes2[i]),
         j.pc = "submit" =>
           remotes2[j.id].status = "unsent" /\ rows2[j.id].status \in Active
  PROVE  JobOK(j, rows2, remotes2)
<1>1. j.pc # "idle" => j.bot \in Bots
  BY DEF JobOK
<1>2. j.pc \in WithOrder \cup {"reserve"} => j.id \in Ids /\ j.id[1] = j.bot
  BY DEF JobOK
<1>3. j.pc = "reserve" /\ j.side # "hold" =>
        j.side \in {"buy", "sell"} /\ j.amount > 0 /\ WholeLots(j.amount)
  BY DEF JobOK
<1>4. j.pc \in WithOrder => rows2[j.id].status # "none"
  BY <1>2 DEF JobOK, GoesOn
<1>5. j.pc = "rejected" => remotes2[j.id].status = "refused"
  BY <1>2 DEF JobOK, GoesOn, WithOrder
<1>6. j.pc \in {"cancel", "lookup2", "fills", "apply"} => remotes2[j.id].status \in Answered
  BY <1>2 DEF JobOK, GoesOn, WithOrder
<1>7. ASSUME j.pc \in {"fills", "apply"}
      PROVE  /\ j.remote.status \in Answered
             /\ j.remote.status \in Final => j.remote = remotes2[j.id]
             /\ j.remote.filled <= remotes2[j.id].filled /\ WholeLots(j.remote.filled)
  <2>1. j.id \in Ids
    BY <1>2, <1>7 DEF WithOrder
  <2>2. /\ j.remote.status \in Answered
        /\ j.remote.status \in Final => j.remote = remotes[j.id]
        /\ j.remote.filled <= remotes[j.id].filled /\ WholeLots(j.remote.filled)
    BY <1>7 DEF JobOK
  <2>3. GoesOn(rows[j.id], remotes[j.id], rows2[j.id], remotes2[j.id])
    BY <2>1
  <2>4. j.remote.status \in Final => j.remote = remotes2[j.id]
    BY <2>2, <2>3 DEF GoesOn
  <2>5. j.remote.filled \in Nat /\ remotes[j.id].filled \in Nat /\ remotes2[j.id].filled \in Nat
    BY <2>1 DEF Job, Remote
  <2>6. j.remote.filled <= remotes2[j.id].filled
    BY <2>2, <2>3, <2>5 DEF GoesOn
  <2> QED BY <2>2, <2>4, <2>6
<1> QED BY <1>1, <1>2, <1>3, <1>4, <1>5, <1>6, <1>7 DEF JobOK

\* One worker goes on: the others keep what they know.
LEMMA WorkerStep ==
  ASSUME Types, \A v \in Workers : JobOK(job[v], orders, venue), SubmittersDiffer,
         NEW w \in Workers, NEW j \in Job, job' = [job EXCEPT ![w] = j],
         JobOK(j, orders', venue'), venue' \in [Ids -> Remote],
         \A i \in Ids : GoesOn(orders[i], venue[i], orders'[i], venue'[i]),
         \A v \in Workers \ {w} : job[v].pc = "submit" =>
           /\ venue'[job[v].id].status = "unsent" /\ orders'[job[v].id].status \in Active
           /\ j.pc = "submit" => job[v].id # j.id
  PROVE  /\ job' \in [Workers -> Job]
         /\ \A v \in Workers : JobOK(job'[v], orders', venue')
         /\ SubmittersDiffer'
<1>1. job \in [Workers -> Job] /\ venue \in [Ids -> Remote]
  BY DEF Types
<1>2. /\ job' \in [Workers -> Job]
      /\ job'[w] = j
      /\ \A v \in Workers \ {w} : job'[v] = job[v]
  BY <1>1
<1>3. ASSUME NEW v \in Workers \ {w}
      PROVE  JobOK(job'[v], orders', venue')
  <2>1. job'[v] = job[v] /\ job[v] \in Job
    BY <1>1, <1>2
  <2>2. JobOK(job[v], orders', venue')
    BY <1>1, <2>1, JobKept
  <2> QED BY <2>1, <2>2
<1>4. SubmittersDiffer'
  BY <1>2 DEF SubmittersDiffer
<1> QED BY <1>2, <1>3, <1>4

\* No worker moves.
LEMMA WorkersStay ==
  ASSUME Types, \A v \in Workers : JobOK(job[v], orders, venue), SubmittersDiffer,
         UNCHANGED job, venue' \in [Ids -> Remote],
         \A i \in Ids : GoesOn(orders[i], venue[i], orders'[i], venue'[i]),
         \A v \in Workers : job[v].pc = "submit" =>
           venue'[job[v].id].status = "unsent" /\ orders'[job[v].id].status \in Active
  PROVE  /\ job' \in [Workers -> Job]
         /\ \A v \in Workers : JobOK(job'[v], orders', venue')
         /\ SubmittersDiffer'
<1>1. job \in [Workers -> Job] /\ venue \in [Ids -> Remote]
  BY DEF Types
<1>2. ASSUME NEW v \in Workers
      PROVE  JobOK(job'[v], orders', venue')
  BY <1>1, JobKept
<1> QED BY <1>1, <1>2 DEF SubmittersDiffer

\* run() is left: the worker is idle, or about to record a failure of its bot.
Leaves(w) ==
  /\ holder' \in Workers \cup {NoOne}
  /\ \E j \in Job : /\ job' = [job EXCEPT ![w] = j]
                    /\ j.pc \in {"idle", "failing"}
                    /\ j.pc # "idle" => j.bot \in Bots

LEMMA IdleIsJob == Idle \in Job
<1>1. NoSnap \in Snap /\ NoRemote \in Remote
  BY DEF NoSnap, Snap, NoRemote, Remote, VenueStatus
<1> QED BY <1>1 DEF Idle, Job, Step

LEMMA UnlockTypes ==
  ASSUME Types, NEW w \in Workers, Unlock(w)
  PROVE  holder' \in Workers \cup {NoOne}
BY DEF Types, Unlock

LEMMA RaiseLeaves ==
  ASSUME Types, NEW w \in Workers, job[w].bot \in Bots, Raise(w)
  PROVE  Leaves(w)
<1> DEFINE j == [Idle EXCEPT !.pc = "failing", !.bot = job[w].bot, !.revision = job[w].revision]
<1>1. holder' \in Workers \cup {NoOne}
  BY UnlockTypes DEF Raise
<1>2. job[w].revision \in Nat
  BY DEF Types, Job
<1>3. j \in Job /\ j.pc = "failing" /\ j.bot \in Bots
  BY <1>2, IdleIsJob DEF Job, Step
<1>4. job' = [job EXCEPT ![w] = j]
  BY DEF Raise
<1> HIDE DEF j
<1> QED BY <1>1, <1>3, <1>4 DEF Leaves

LEMMA FinishLeaves ==
  ASSUME Types, NEW w \in Workers, job[w].bot \in Bots, Finish(w)
  PROVE  Leaves(w)
<1>1. CASE holder = w
  <2>1. holder' = NoOne /\ job' = [job EXCEPT ![w] = Idle]
    BY <1>1 DEF Finish
  <2>2. Idle.pc = "idle"
    BY DEF Idle
  <2> QED BY <2>1, <2>2, IdleIsJob DEF Leaves
<1>2. CASE holder # w
  BY <1>2, RaiseLeaves DEF Finish
<1> QED BY <1>1, <1>2

\* A worker that has left knows nothing that could be wrong.
LEMMA LeftIsOK ==
  ASSUME NEW j, j.pc \in {"idle", "failing"}, j.pc # "idle" => j.bot \in Bots,
         NEW rows, NEW remotes
  PROVE  JobOK(j, rows, remotes) /\ j.pc # "submit"
BY DEF JobOK, WithOrder

LEMMA GotoIsJob ==
  ASSUME Types, NEW w \in Workers, NEW pc \in Step
  PROVE  [job[w] EXCEPT !.pc = pc] \in Job
BY DEF Types, Job

-----------------------------------------------------------------------------
(***************************************************************************)
(* Steps that book nothing and do nothing at the exchange.                 *)
(***************************************************************************)
LEMMA Unbooked ==
  ASSUME AccountInv, UNCHANGED <<position, orders, venue, sends>>,
         bots' \in [Bots -> Bot], \A b \in Bots : BotOK(bots'[b]),
         decisions' \in [Bots -> SUBSET Keys], \A b \in Bots : decisions[b] \subseteq decisions'[b],
         active' \in BOOLEAN, candle' \in 1 .. MaxCandle, holder' \in Workers \cup {NoOne},
         ~active' => Unresolved = {} /\ \A b \in Bots : bots'[b].state \in {"stopped", "error"},
         job' \in [Workers -> Job], \A v \in Workers : JobOK(job'[v], orders', venue'),
         SubmittersDiffer'
  PROVE  AccountInv'
<1>1. Types'
  BY DEF AccountInv, Types
<1>2. \A b \in Bots : BotOK(bots[b])'
  BY DEF BotOK
<1>3. OrdersOK'
  BY DEF AccountInv, OrdersOK, OrderOK, Ids
<1>4. \A v \in Workers : JobOK(job[v], orders, venue)'
  BY DEF JobOK
<1>5. OneUnresolved'
  BY DEF AccountInv, OneUnresolved, Unresolved
<1>6. PositionMatchesFills'
  BY DEF AccountInv, PositionMatchesFills, SideOf, OrdersOf
<1>7. HoldingBounded'
  <2>1. Holding' = Holding
    BY DEF Holding, Buying, Pending
  <2> QED BY <2>1 DEF AccountInv, HoldingBounded
<1>8. QuietWhenInactive'
  BY DEF QuietWhenInactive, Unresolved
<1> QED BY <1>1, <1>2, <1>3, <1>4, <1>5, <1>6, <1>7, <1>8 DEF AccountInv

\* No order goes back when none changes.
LEMMA NothingGoesBack ==
  ASSUME Types, UNCHANGED <<orders, venue>>
  PROVE  \A i \in Ids : GoesOn(orders[i], venue[i], orders'[i], venue'[i])
BY DEF Types, GoesOn, Remote

\* A worker's step that changes only its own variables.
LEMMA JobOnly ==
  ASSUME AccountInv, NEW w \in Workers, NEW j \in Job, job' = [job EXCEPT ![w] = j],
         UNCHANGED <<db, world>>, holder' \in Workers \cup {NoOne},
         j.pc # "submit", JobOK(j, orders, venue)
  PROVE  AccountInv'
<1>1. UNCHANGED <<bots, position, decisions, orders, active, venue, candle, sends>>
  BY DEF db, world
<1>2. Types /\ \A v \in Workers : JobOK(job[v], orders, venue)
  BY DEF AccountInv
<1>3. JobOK(j, orders', venue')
  BY <1>1
<1>4. \A v \in Workers : job[v].pc = "submit" =>
        venue'[job[v].id].status = "unsent" /\ orders'[job[v].id].status \in Active
  BY <1>1, <1>2 DEF JobOK
<1>5. /\ job' \in [Workers -> Job]
      /\ \A v \in Workers : JobOK(job'[v], orders', venue')
      /\ SubmittersDiffer'
  BY <1>1, <1>2, <1>3, <1>4, NothingGoesBack, WorkerStep DEF AccountInv, Types
<1>6. ~active' => Unresolved = {} /\ \A b \in Bots : bots'[b].state \in {"stopped", "error"}
  BY <1>1 DEF AccountInv, QuietWhenInactive
<1>7. bots' \in [Bots -> Bot] /\ (\A b \in Bots : BotOK(bots'[b]))
      /\ decisions' \in [Bots -> SUBSET Keys] /\ active' \in BOOLEAN /\ candle' \in 1 .. MaxCandle
  BY <1>1 DEF AccountInv, Types
<1>8. \A b \in Bots : decisions[b] \subseteq decisions'[b]
  BY <1>1
<1> QED BY <1>1, <1>5, <1>6, <1>7, <1>8, Unbooked

\* A step that changes a bot's row, and perhaps one worker that leaves run().
LEMMA BotRow ==
  ASSUME AccountInv, NEW b \in Bots, NEW bot \in Bot, BotOK(bot),
         active \/ bot.state = bots[b].state,
         bots' = [bots EXCEPT ![b] = bot],
         UNCHANGED <<position, orders, active, venue, candle, sends>>,
         decisions' \in [Bots -> SUBSET Keys], \A c \in Bots : decisions[c] \subseteq decisions'[c],
         UNCHANGED <<job, holder>> \/ \E w \in Workers : Leaves(w)
  PROVE  AccountInv'
<1>1. Types /\ (\A v \in Workers : JobOK(job[v], orders, venue)) /\ SubmittersDiffer
  BY DEF AccountInv
<1>2. \A v \in Workers : job[v].pc = "submit" =>
        venue'[job[v].id].status = "unsent" /\ orders'[job[v].id].status \in Active
  BY <1>1 DEF JobOK
<1>3. venue' \in [Ids -> Remote]
  BY <1>1 DEF Types
<1>4. /\ job' \in [Workers -> Job]
      /\ \A v \in Workers : JobOK(job'[v], orders', venue')
      /\ SubmittersDiffer'
      /\ holder' \in Workers \cup {NoOne}
  <2>1. CASE UNCHANGED <<job, holder>>
    BY <1>1, <1>2, <1>3, <2>1, NothingGoesBack, WorkersStay DEF Types
  <2>2. ASSUME NEW w \in Workers, Leaves(w)
        PROVE  /\ job' \in [Workers -> Job]
               /\ \A v \in Workers : JobOK(job'[v], orders', venue')
               /\ SubmittersDiffer'
               /\ holder' \in Workers \cup {NoOne}
    <3>1. PICK j \in Job : /\ job' = [job EXCEPT ![w] = j]
                           /\ j.pc \in {"idle", "failing"}
                           /\ j.pc # "idle" => j.bot \in Bots
      BY <2>2 DEF Leaves
    <3>2. JobOK(j, orders', venue') /\ j.pc # "submit"
      BY <3>1, LeftIsOK
    <3> QED BY <1>1, <1>2, <1>3, <2>2, <3>1, <3>2, NothingGoesBack, WorkerStep DEF Leaves
  <2> QED BY <2>1, <2>2
<1>5. bots' \in [Bots -> Bot] /\ (\A c \in Bots : BotOK(bots'[c]))
  BY <1>1 DEF AccountInv, Types
<1>6. active' \in BOOLEAN /\ candle' \in 1 .. MaxCandle
  BY <1>1 DEF Types
<1>7. ~active' => Unresolved = {} /\ \A c \in Bots : bots'[c].state \in {"stopped", "error"}
  BY <1>1 DEF AccountInv, QuietWhenInactive, Types
<1> QED BY <1>4, <1>5, <1>6, <1>7, Unbooked

-----------------------------------------------------------------------------
(***************************************************************************)
(* The steps of a worker up to its decision.                               *)
(***************************************************************************)

\* What a worker that is at work knows of its job.
LEMMA WorkerKnows ==
  ASSUME AccountInv, NEW w \in Workers
  PROVE  /\ Types /\ job[w] \in Job /\ JobOK(job[w], orders, venue)
         /\ job[w].pc # "idle" => job[w].bot \in Bots
         /\ holder \in Workers \cup {NoOne}
BY DEF AccountInv, Types, JobOK

LEMMA LeaveOnly ==
  ASSUME AccountInv, NEW w \in Workers, Leaves(w), UNCHANGED <<db, world>>
  PROVE  AccountInv'
<1>1. PICK j \in Job : /\ job' = [job EXCEPT ![w] = j]
                       /\ j.pc \in {"idle", "failing"}
                       /\ j.pc # "idle" => j.bot \in Bots
  BY DEF Leaves
<1>2. JobOK(j, orders, venue) /\ j.pc # "submit"
  BY <1>1, LeftIsOK
<1> QED BY <1>1, <1>2, JobOnly DEF Leaves

LEMMA FinishOnly ==
  ASSUME AccountInv, NEW w \in Workers, job[w].pc # "idle", Finish(w) \/ Raise(w),
         UNCHANGED <<db, world>>
  PROVE  AccountInv'
BY WorkerKnows, FinishLeaves, RaiseLeaves, LeaveOnly

\* A worker whose new step needs no more than its old one goes on to it.
LEMMA GotoOnly ==
  ASSUME AccountInv, NEW w \in Workers, NEW pc \in Step, pc # "submit", Goto(w, pc),
         JobOK([job[w] EXCEPT !.pc = pc], orders, venue), UNCHANGED <<db, world>>
  PROVE  AccountInv'
<1>1. [job[w] EXCEPT !.pc = pc] \in Job
  BY WorkerKnows, GotoIsJob
<1>2. [job[w] EXCEPT !.pc = pc].pc = pc
  BY WorkerKnows DEF Job
<1>3. job' = [job EXCEPT ![w] = [job[w] EXCEPT !.pc = pc]] /\ holder' = holder
  BY WorkerKnows DEF Goto
<1> QED BY <1>1, <1>2, <1>3, WorkerKnows, JobOnly

LEMMA PollSafe ==
  ASSUME AccountInv, NEW w \in Workers, NEW b \in Bots, Poll(w, b)
  PROVE  AccountInv'
<1> DEFINE j == [Idle EXCEPT !.pc = "lock", !.bot = b, !.revision = bots[b].revision]
<1>1. bots[b].revision \in Nat
  BY WorkerKnows DEF Types, Bot
<1>2. j \in Job /\ j.pc = "lock" /\ j.bot = b
  BY <1>1, IdleIsJob DEF Job, Step
<1>3. job' = [job EXCEPT ![w] = j] /\ UNCHANGED <<db, world, holder>>
  BY DEF Poll
<1> HIDE DEF j
<1>4. JobOK(j, orders, venue)
  BY <1>2 DEF JobOK, WithOrder
<1> QED BY <1>2, <1>3, <1>4, WorkerKnows, JobOnly

LEMMA LockSafe ==
  ASSUME AccountInv, NEW w \in Workers, Lock(w)
  PROVE  AccountInv'
<1>1. job[w].pc = "lock" /\ job[w].bot \in Bots /\ UNCHANGED <<db, world>>
  BY WorkerKnows DEF Lock
<1>2. CASE LockFree
  <2> DEFINE j == [job[w] EXCEPT !.pc = "load"]
  <2>1. holder' = w /\ job' = [job EXCEPT ![w] = j]
    BY <1>2, WorkerKnows DEF Lock
  <2>2. j \in Job /\ j.pc = "load" /\ j.bot = job[w].bot
    BY WorkerKnows DEF Job, Step
  <2> HIDE DEF j
  <2>3. JobOK(j, orders, venue)
    BY <1>1, <2>2 DEF JobOK, WithOrder
  <2> QED BY <1>1, <2>1, <2>2, <2>3, JobOnly
<1>3. CASE ~LockFree
  <2>1. holder' = holder /\ job' = [job EXCEPT ![w] = Idle] /\ Idle.pc = "idle"
    BY <1>3 DEF Lock, Idle
  <2>2. Leaves(w)
    BY <2>1, IdleIsJob, WorkerKnows DEF Leaves
  <2> QED BY <1>1, <2>2, LeaveOnly
<1> QED BY <1>2, <1>3

LEMMA LoadSafe ==
  ASSUME AccountInv, NEW w \in Workers, Load(w)
  PROVE  AccountInv'
<1> DEFINE b == job[w].bot
           s == [revision |-> bots[b].revision, state |-> bots[b].state,
                 close |-> bots[b].close, position |-> position[b]]
           j == [job[w] EXCEPT !.pc = "outstanding", !.snap = s]
<1>1. job[w].pc = "load" /\ b \in Bots /\ UNCHANGED <<db, world, holder>>
  BY WorkerKnows DEF Load
<1>2. bots[b] \in Bot /\ position[b] \in Nat
  BY <1>1, WorkerKnows DEF Types
<1>3. s \in Snap
  BY <1>2 DEF Bot, Snap
<1>4. job' = [job EXCEPT ![w] = j]
  BY WorkerKnows DEF Load, Types
<1> HIDE DEF s
<1>5. j \in Job /\ j.pc = "outstanding" /\ j.bot = b
  BY <1>3, WorkerKnows DEF Job, Step
<1> HIDE DEF j
<1>6. JobOK(j, orders, venue)
  BY <1>1, <1>5 DEF JobOK, WithOrder
<1> QED BY <1>1, <1>4, <1>5, <1>6, WorkerKnows, JobOnly

LEMMA OutstandingSafe ==
  ASSUME AccountInv, NEW w \in Workers, Outstanding(w)
  PROVE  AccountInv'
<1>1. PICK i \in Unresolved :
        /\ i[1] = job[w].bot
        /\ job' = [job EXCEPT ![w].pc = NextStep(i), ![w].id = i, ![w].snap = NoSnap]
  BY DEF Outstanding
<1> DEFINE j == [job[w] EXCEPT !.pc = "lookup", !.id = i, !.snap = NoSnap]
<1>2. job' = [job EXCEPT ![w] = j]
  BY <1>1, WorkerKnows DEF Types, NextStep
<1>3. i \in Ids /\ orders[i].status # "none"
  BY DEF Unresolved, Active
<1>4. NoSnap \in Snap
  BY DEF NoSnap, Snap
<1>5. j \in Job /\ j.pc = "lookup" /\ j.id = i /\ j.bot = job[w].bot
  BY <1>3, <1>4, WorkerKnows DEF Job, Step
<1>6. job[w].bot \in Bots /\ UNCHANGED <<db, world, holder>>
  BY WorkerKnows DEF Outstanding
<1> HIDE DEF j
<1>7. JobOK(j, orders, venue)
  BY <1>1, <1>3, <1>5, <1>6 DEF JobOK, WithOrder
<1> QED BY <1>2, <1>5, <1>6, <1>7, WorkerKnows, JobOnly

LEMMA NothingOutstandingSafe ==
  ASSUME AccountInv, NEW w \in Workers, NothingOutstanding(w)
  PROVE  AccountInv'
<1>1. job[w].pc = "outstanding" /\ job[w].bot \in Bots /\ UNCHANGED <<db, world>>
  BY WorkerKnows DEF NothingOutstanding
<1>2. Goto(w, "finish") \/ Goto(w, "decide") \/ Finish(w)
  BY DEF NothingOutstanding
<1>3. ASSUME NEW pc \in {"finish", "decide"}, Goto(w, pc)
      PROVE  AccountInv'
  <2>1. pc \in Step /\ pc # "submit"
    BY DEF Step
  <2>2. [job[w] EXCEPT !.pc = pc].pc = pc /\ [job[w] EXCEPT !.pc = pc].bot = job[w].bot
    BY WorkerKnows DEF Job
  <2>3. JobOK([job[w] EXCEPT !.pc = pc], orders, venue)
    BY <1>1, <2>2 DEF JobOK, WithOrder
  <2> QED BY <1>1, <1>3, <2>1, <2>3, GotoOnly
<1> QED BY <1>1, <1>2, <1>3, FinishOnly

LEMMA FinishStopSafe ==
  ASSUME AccountInv, NEW w \in Workers, FinishStop(w)
  PROVE  AccountInv'
<1> DEFINE b == job[w].bot
           bot == [bots[b] EXCEPT !.state = IF @ = "stopping" THEN "stopped" ELSE @]
<1>1. /\ job[w].pc = "finish" /\ b \in Bots
      /\ UNCHANGED <<position, decisions, orders, active, venue, candle, sends>>
  BY WorkerKnows DEF FinishStop, world
<1>2. CASE active
  <2>1. bots' = [bots EXCEPT ![b] = bot] /\ Finish(w)
    BY <1>2, WorkerKnows DEF FinishStop, Types
  <2>2. bots[b] \in Bot /\ BotOK(bots[b])
    BY <1>1 DEF AccountInv, Types
  <2>3. bot \in Bot /\ BotOK(bot)
    BY <2>2 DEF Bot, BotState, BotOK
  <2>4. Leaves(w)
    BY <1>1, <2>1, WorkerKnows, FinishLeaves
  <2>5. decisions' \in [Bots -> SUBSET Keys] /\ \A c \in Bots : decisions[c] \subseteq decisions'[c]
    BY <1>1, WorkerKnows DEF Types
  <2> HIDE DEF bot
  <2> QED BY <1>1, <1>2, <2>1, <2>3, <2>4, <2>5, BotRow
<1>3. CASE ~active
  <2>1. Raise(w) /\ UNCHANGED <<db, world>>
    BY <1>1, <1>3 DEF FinishStop, db, world
  <2> QED BY <1>1, <2>1, FinishOnly
<1> QED BY <1>2, <1>3

LEMMA ExitsAreCounted ==
  ASSUME NEW b \in Bots
  PROVE  ExitsTried(b) \in Nat
<1>1. {i \in OrdersOf(b) : orders[i].side = "sell"} \subseteq Ids
  BY DEF OrdersOf
<1>2. IsFiniteSet({i \in OrdersOf(b) : orders[i].side = "sell"})
  BY <1>1, IdsFinite, FS_Subset
<1> QED BY <1>2, FS_CardinalityType DEF ExitsTried

LEMMA IntendSafe ==
  ASSUME AccountInv, NEW w \in Workers, job[w].pc = "decide", NEW key \in Keys,
         NEW side \in {"buy", "sell", "hold"}, NEW amount \in Nat, WholeLots(amount),
         Intend(w, key, side, amount), UNCHANGED <<db, world>>
  PROVE  AccountInv'
<1>1. CASE side # "hold" /\ amount = 0
  BY <1>1, FinishOnly DEF Intend
<1>2. CASE ~(side # "hold" /\ amount = 0)
  <2> DEFINE i == <<job[w].bot, key>>
             j == [job[w] EXCEPT !.pc = "reserve", !.id = i, !.side = side, !.amount = amount]
  <2>1. job' = [job EXCEPT ![w] = j] /\ holder' = holder
    BY <1>2, WorkerKnows DEF Intend, Types
  <2>2. job[w].bot \in Bots
    BY WorkerKnows
  <2>3. i \in Ids /\ i[1] = job[w].bot
    BY <2>2 DEF Ids
  <2> HIDE DEF i
  <2>4. j \in Job
    BY <2>3, WorkerKnows DEF Job, Step
  <2>5. j.pc = "reserve" /\ j.id = i /\ j.bot = job[w].bot /\ j.side = side /\ j.amount = amount
    BY WorkerKnows DEF Job
  <2> HIDE DEF j
  <2>6. JobOK(j, orders, venue)
    BY <1>2, <2>2, <2>3, <2>5 DEF JobOK, WithOrder
  <2> QED BY <2>1, <2>4, <2>5, <2>6, WorkerKnows, JobOnly
<1> QED BY <1>1, <1>2

LEMMA DecideExitSafe ==
  ASSUME AccountInv, NEW w \in Workers, DecideExit(w)
  PROVE  AccountInv'
<1> DEFINE n == ExitsTried(job[w].bot)
           key == <<"exit", n>>
           amount == Truncate(job[w].snap.position)
<1>1. job[w].pc = "decide" /\ Intend(w, key, "sell", amount) /\ UNCHANGED <<db, world>>
  BY DEF DecideExit
<1>2. n \in Nat
  BY <1>1, WorkerKnows, ExitsAreCounted
<1>3. n < MaxExits
  <2>1. n < IF job[w].snap.close THEN MaxExits ELSE MaxTriggers
    BY DEF DecideExit
  <2> HIDE DEF n
  <2> QED BY <1>2, <2>1, BoundsAssumption
<1>4. key \in Keys
  <2> HIDE DEF n
  <2> QED BY <1>2, <1>3, BoundsAssumption DEF Keys
<1>5. job[w].snap.position \in Nat
  BY WorkerKnows DEF Job, Snap
<1>6. amount \in Nat /\ WholeLots(amount)
  BY <1>5, TruncateToLots
<1> HIDE DEF key, amount
<1> QED BY <1>1, <1>4, <1>6, IntendSafe

LEMMA ClearCloseSafe ==
  ASSUME AccountInv, NEW w \in Workers, ClearClose(w)
  PROVE  AccountInv'
<1> DEFINE b == job[w].bot
           bot == [bots[b] EXCEPT !.close = FALSE]
<1>1. /\ job[w].pc = "decide" /\ b \in Bots /\ Finish(w)
      /\ UNCHANGED <<position, decisions, orders, active, venue, candle, sends>>
  BY WorkerKnows DEF ClearClose, world
<1>2. bots' = [bots EXCEPT ![b] = bot]
  BY WorkerKnows DEF ClearClose, Types
<1>3. bots[b] \in Bot /\ BotOK(bots[b])
  BY <1>1 DEF AccountInv, Types
<1>4. bot \in Bot /\ BotOK(bot) /\ bot.state = bots[b].state
  BY <1>3 DEF Bot, BotOK
<1>5. Leaves(w)
  BY <1>1, WorkerKnows, FinishLeaves
<1>6. decisions' \in [Bots -> SUBSET Keys] /\ \A c \in Bots : decisions[c] \subseteq decisions'[c]
  BY <1>1, WorkerKnows DEF Types
<1> HIDE DEF bot
<1> QED BY <1>1, <1>2, <1>4, <1>5, <1>6, BotRow

LEMMA DecidePredictionSafe ==
  ASSUME AccountInv, NEW w \in Workers, NEW signal \in {"buy", "sell", "hold"},
         DecidePrediction(w, signal)
  PROVE  AccountInv'
<1> DEFINE held == job[w].snap.position
           side == Wanted(signal, held)
           amount == CASE side = "buy" -> OrderAmount
                       [] side = "sell" -> Truncate(held)
                       [] side = "hold" -> 0
           key == <<"candle", candle>>
<1>1. job[w].pc = "decide" /\ Intend(w, key, side, amount) /\ UNCHANGED <<db, world>>
  BY DEF DecidePrediction
<1>2. side \in {"buy", "sell", "hold"}
  BY DEF Wanted
<1>3. held \in Nat
  BY WorkerKnows DEF Job, Snap
<1>4. OrderAmount \in Nat /\ WholeLots(OrderAmount)
  BY BoundsAssumption DEF WholeLots
<1>5. amount \in Nat /\ WholeLots(amount)
  <2> HIDE DEF side, held
  <2> QED BY <1>2, <1>3, <1>4, TruncateToLots, NoLots
<1>6. key \in Keys
  BY WorkerKnows DEF Types, Keys
<1> HIDE DEF key, amount, side
<1> QED BY <1>1, <1>2, <1>5, <1>6, IntendSafe

-----------------------------------------------------------------------------
(***************************************************************************)
(* The reservation.                                                        *)
(***************************************************************************)

\* What is decided in the reservation's transaction is one key of the bot.
LEMMA DecideAdds ==
  ASSUME AccountInv, NEW w \in Workers, job[w].pc = "reserve",
         Decide(w) \/ UNCHANGED decisions
  PROVE  /\ decisions' \in [Bots -> SUBSET Keys]
         /\ \A c \in Bots : decisions[c] \subseteq decisions'[c]
<1>1. decisions \in [Bots -> SUBSET Keys]
  BY WorkerKnows DEF Types
<1>2. job[w].id[2] \in Keys
  BY WorkerKnows DEF JobOK, Ids
<1> QED BY <1>1, <1>2 DEF Decide

\* A decision that leaves no order behind.
LEMMA DecisionSafe ==
  ASSUME AccountInv, NEW w \in Workers, job[w].pc = "reserve", active,
         Decide(w) \/ UNCHANGED decisions, Finish(w),
         bots' = [bots EXCEPT ![job[w].bot] = Success(@)],
         UNCHANGED <<position, orders, active, venue, candle, sends>>
  PROVE  AccountInv'
<1> DEFINE b == job[w].bot
           bot == Success(bots[b])
<1>1. b \in Bots /\ Leaves(w)
  BY WorkerKnows, FinishLeaves
<1>2. bots[b] \in Bot /\ BotOK(bots[b])
  BY <1>1 DEF AccountInv, Types
<1>3. bot \in Bot /\ BotOK(bot)
  BY <1>2, SuccessKeeps DEF BotOK
<1>4. bots' = [bots EXCEPT ![b] = bot]
  BY WorkerKnows DEF Types
<1>5. decisions' \in [Bots -> SUBSET Keys] /\ \A c \in Bots : decisions[c] \subseteq decisions'[c]
  BY DecideAdds
<1> HIDE DEF bot
<1> QED BY <1>1, <1>3, <1>4, <1>5, BotRow

LEMMA ReserveNothingSafe ==
  ASSUME AccountInv, NEW w \in Workers, ReserveNothing(w)
  PROVE  AccountInv'
<1>1. job[w].pc = "reserve" /\ UNCHANGED <<position, orders, active, venue, candle, sends>>
  BY DEF ReserveNothing, world
<1> DEFINE refused == ~active \/ (StillWanted(w) /\ ~Decided(w) /\ Expired(w))
<1>2. CASE refused \/ ~StillWanted(w)
  <2>1. (Raise(w) \/ Finish(w)) /\ UNCHANGED <<bots, decisions>>
    <3> HIDE DEF refused
    <3>1. CASE refused
      BY <3>1 DEF ReserveNothing, refused
    <3>2. CASE ~refused
      BY <1>2, <3>2 DEF ReserveNothing, refused
    <3> QED BY <3>1, <3>2
  <2> QED BY <1>1, <2>1, FinishOnly DEF db, world
<1>3. CASE ~refused /\ StillWanted(w)
  <2>1. /\ active /\ Finish(w)
        /\ Decide(w) \/ UNCHANGED decisions
        /\ bots' = [bots EXCEPT ![job[w].bot] = Success(@)]
    BY <1>3 DEF ReserveNothing
  <2> QED BY <1>1, <2>1, DecisionSafe
<1> QED BY <1>2, <1>3

LEMMA RefuseOrderSafe ==
  ASSUME AccountInv, NEW w \in Workers, RefuseOrder(w)
  PROVE  AccountInv'
<1>1. /\ job[w].pc = "reserve" /\ active
      /\ UNCHANGED <<position, orders, active, venue, candle, sends>>
  BY DEF RefuseOrder, MayReserve, world
<1>2. CASE Prediction(w)
  BY <1>1, <1>2, DecisionSafe DEF RefuseOrder
<1>3. CASE ~Prediction(w)
  <2>1. Raise(w) /\ UNCHANGED <<db, world>>
    BY <1>1, <1>3 DEF RefuseOrder, db, world
  <2> QED BY <1>1, <2>1, FinishOnly
<1> QED BY <1>2, <1>3

-----------------------------------------------------------------------------
(***************************************************************************)
(* What a worker reads of its order, and what goes wrong with it.          *)
(***************************************************************************)
LEMMA AnswerSafe ==
  ASSUME AccountInv, NEW w \in Workers,
         Acknowledged(w) \/ NoAnswer(w) \/ SubmissionRejected(w)
  PROVE  AccountInv'
<1>1. job[w].pc = "await" /\ job[w].bot \in Bots /\ UNCHANGED <<db, world>>
  BY WorkerKnows DEF Acknowledged, NoAnswer, SubmissionRejected
<1>2. \/ Goto(w, "lookup")
      \/ Goto(w, "rejected") /\ venue[job[w].id].status = "refused"
  BY DEF Acknowledged, NoAnswer, SubmissionRejected
<1>3. ASSUME NEW pc \in {"lookup", "rejected"}, Goto(w, pc),
             pc = "rejected" => venue[job[w].id].status = "refused"
      PROVE  AccountInv'
  <2> DEFINE j == [job[w] EXCEPT !.pc = pc]
  <2>1. pc \in Step /\ pc # "submit"
    BY DEF Step
  <2>2. j.pc = pc /\ j.bot = job[w].bot /\ j.id = job[w].id
    BY WorkerKnows DEF Job
  <2> HIDE DEF j
  <2>3. JobOK(j, orders, venue)
    BY <1>1, <1>3, <2>2, WorkerKnows DEF JobOK, WithOrder
  <2> QED BY <1>1, <1>3, <2>1, <2>3, GotoOnly DEF j
<1> QED BY <1>2, <1>3

\* A lookup notes what the exchange says of the order now.
LEMMA LookupSafe ==
  ASSUME AccountInv, NEW w \in Workers, Lookup(w) \/ LookupAgain(w)
  PROVE  AccountInv'
<1> DEFINE i == job[w].id
           pc == job'[w].pc
           remote == job'[w].remote
           j == [job[w] EXCEPT !.pc = pc, !.remote = remote]
<1>1. /\ job[w].pc \in {"lookup", "lookup2"} /\ job[w].bot \in Bots
      /\ UNCHANGED <<db, world, holder>>
  BY WorkerKnows DEF Lookup, LookupAgain
<1>2. i \in Ids /\ i[1] = job[w].bot /\ orders[i].status # "none"
  BY <1>1, WorkerKnows DEF JobOK, WithOrder
<1>3. venue[i] \in Remote /\ job \in [Workers -> Job]
  BY <1>2, WorkerKnows DEF Types
<1>4. /\ job' = [job EXCEPT ![w] = j]
      /\ \/ pc = "unknown" /\ remote = NoRemote
         \/ /\ pc \in {"cancel", "fills"} /\ remote = venue[i]
            /\ venue[i].status \in Answered
  <2>1. CASE Lookup(w)
    <3> DEFINE npc == IF ~Known(i) THEN "unknown"
                      ELSE IF venue[i].status = "NEW" THEN "cancel" ELSE "fills"
               nremote == IF Known(i) THEN venue[i] ELSE NoRemote
    <3>1. job' = [job EXCEPT ![w].pc = npc, ![w].remote = nremote]
      BY <2>1 DEF Lookup
    <3>2. \/ npc = "unknown" /\ nremote = NoRemote
          \/ npc \in {"cancel", "fills"} /\ nremote = venue[i] /\ venue[i].status \in Answered
      BY DEF Known, Answered, Final
    <3> HIDE DEF npc, nremote, i
    <3>3. job'[w] = [job[w] EXCEPT !.pc = npc, !.remote = nremote]
      BY <1>3, <3>1
    <3>4. pc = npc /\ remote = nremote
      BY <1>3, <3>3 DEF Job
    <3>5. job' = [job EXCEPT ![w] = [job[w] EXCEPT !.pc = npc, !.remote = nremote]]
      BY <1>3, <3>1
    <3> QED BY <3>2, <3>4, <3>5
  <2>2. CASE LookupAgain(w)
    <3>1. job' = [job EXCEPT ![w].pc = "fills", ![w].remote = venue[i]]
      BY <2>2 DEF LookupAgain
    <3>2. venue[i].status \in Answered
      BY <2>2, WorkerKnows DEF LookupAgain, JobOK
    <3> HIDE DEF i
    <3>3. job'[w] = [job[w] EXCEPT !.pc = "fills", !.remote = venue[i]]
      BY <1>3, <3>1
    <3>4. pc = "fills" /\ remote = venue[i]
      BY <1>3, <3>3 DEF Job
    <3>5. job' = [job EXCEPT ![w] = [job[w] EXCEPT !.pc = "fills", !.remote = venue[i]]]
      BY <1>3, <3>1
    <3> QED BY <3>2, <3>4, <3>5
  <2> QED BY <1>1, <2>1, <2>2
<1> HIDE DEF pc, remote
<1>5. pc \in Step /\ remote \in Remote
  BY <1>3, <1>4 DEF Step, NoRemote, Remote, VenueStatus
<1>6. j \in Job /\ j.pc = pc /\ j.remote = remote /\ j.bot = job[w].bot /\ j.id = i
  BY <1>3, <1>5 DEF Job
<1>7. venue[i].filled \in Nat /\ WholeLots(venue[i].filled)
  BY <1>2, <1>3 DEF AccountInv, OrdersOK, OrderOK, Remote
<1> HIDE DEF j, i
<1>8. JobOK(j, orders, venue) /\ j.pc # "submit"
  BY <1>1, <1>2, <1>4, <1>6, <1>7 DEF JobOK, WithOrder
<1> QED BY <1>1, <1>4, <1>6, <1>8, WorkerKnows, JobOnly

\* A worker that reconciles its order takes its next step, or gives up.
LEMMA ReconcileSafe ==
  ASSUME AccountInv, NEW w \in Workers, CancelFails(w) \/ Fills(w) \/ ReconcileFails(w)
  PROVE  AccountInv'
<1>1. /\ job[w].pc \in {"lookup", "cancel", "lookup2", "fills", "apply"}
      /\ job[w].bot \in Bots /\ UNCHANGED <<db, world>>
  BY WorkerKnows DEF CancelFails, Fills, ReconcileFails
<1>2. \/ Goto(w, "unknown")
      \/ Goto(w, "lookup2") /\ job[w].pc = "cancel"
      \/ Goto(w, "apply") /\ job[w].pc = "fills"
  BY DEF CancelFails, Fills, ReconcileFails
<1>3. ASSUME NEW pc \in {"unknown", "lookup2", "apply"}, Goto(w, pc),
             pc = "lookup2" => job[w].pc = "cancel", pc = "apply" => job[w].pc = "fills"
      PROVE  AccountInv'
  <2> DEFINE j == [job[w] EXCEPT !.pc = pc]
  <2>1. pc \in Step /\ pc # "submit"
    BY DEF Step
  <2>2. j.pc = pc /\ j.bot = job[w].bot /\ j.id = job[w].id /\ j.remote = job[w].remote
    BY WorkerKnows DEF Job
  <2> HIDE DEF j
  <2>3. JobOK(j, orders, venue)
    BY <1>1, <1>3, <2>2, WorkerKnows DEF JobOK, WithOrder
  <2> QED BY <1>1, <1>3, <2>1, <2>3, GotoOnly DEF j
<1> QED BY <1>2, <1>3

LEMMA FailureSafe ==
  ASSUME AccountInv, NEW w \in Workers, StepFails(w) \/ Crash(w) \/ LoseLock(w) \/ Postpone(w)
  PROVE  AccountInv'
<1>1. CASE StepFails(w)
  BY <1>1, FinishOnly DEF StepFails
<1>2. CASE Crash(w)
  <2>1. job' = [job EXCEPT ![w] = Idle] /\ Unlock(w) /\ UNCHANGED <<db, world>>
    BY <1>2 DEF Crash
  <2>2. Idle.pc = "idle"
    BY DEF Idle
  <2>3. Leaves(w)
    BY <2>1, <2>2, IdleIsJob, UnlockTypes, WorkerKnows DEF Leaves
  <2> QED BY <2>1, <2>3, LeaveOnly
<1>3. CASE LoseLock(w)
  <2>1. job' = [job EXCEPT ![w] = job[w]] /\ holder' = NoOne /\ UNCHANGED <<db, world, job>>
    BY <1>3, WorkerKnows DEF LoseLock, Types
  <2>2. CASE job[w].pc # "submit"
    BY <2>1, <2>2, WorkerKnows, JobOnly
  <2>3. CASE job[w].pc = "submit"
    <3>1. UNCHANGED <<bots, position, decisions, orders, active, venue, candle, sends, job>>
      BY <2>1 DEF db, world
    <3>2. AccountInv /\ holder' \in Workers \cup {NoOne}
      BY <2>1
    <3> QED BY <3>1, <3>2, Unbooked DEF AccountInv, Types, SubmittersDiffer, QuietWhenInactive
  <2> QED BY <2>2, <2>3
<1>4. CASE Postpone(w)
  <2>1. job[w].pc # "idle" /\ Finish(w) /\ UNCHANGED <<db, world>>
    BY <1>4 DEF Postpone
  <2> QED BY <2>1, FinishOnly
<1> QED BY <1>1, <1>2, <1>3, <1>4

LEMMA RecordFailureSafe ==
  ASSUME AccountInv, NEW w \in Workers, RecordFailure(w)
  PROVE  AccountInv'
<1> DEFINE b == job[w].bot
<1>1. /\ b \in Bots /\ job' = [job EXCEPT ![w] = Idle] /\ UNCHANGED holder
      /\ UNCHANGED <<position, decisions, orders, active, venue, candle, sends>>
  BY WorkerKnows DEF RecordFailure, world
<1>2. Leaves(w)
  <2>1. Idle.pc = "idle"
    BY DEF Idle
  <2> QED BY <1>1, <2>1, IdleIsJob, WorkerKnows DEF Leaves
<1>3. CASE UNCHANGED bots
  BY <1>1, <1>2, <1>3, LeaveOnly DEF db, world
<1>4. CASE active /\ bots' = [bots EXCEPT ![b] = Strike(@)]
  <2> DEFINE bot == Strike(bots[b])
  <2>1. bots[b] \in Bot /\ BotOK(bots[b])
    BY <1>1 DEF AccountInv, Types
  <2>2. bot \in Bot /\ BotOK(bot)
    BY <2>1, StrikeKeeps DEF BotOK
  <2>3. bots' = [bots EXCEPT ![b] = bot]
    BY <1>4, WorkerKnows DEF Types
  <2>4. decisions' \in [Bots -> SUBSET Keys] /\ \A c \in Bots : decisions[c] \subseteq decisions'[c]
    BY <1>1, WorkerKnows DEF Types
  <2> HIDE DEF bot
  <2> QED BY <1>1, <1>2, <1>4, <2>2, <2>3, <2>4, BotRow
<1> QED BY <1>3, <1>4 DEF RecordFailure

-----------------------------------------------------------------------------
(***************************************************************************)
(* Steps that change one order, its row or the exchange's side of it.      *)
(***************************************************************************)

\* The fills add up as before when none is booked.
LEMMA BooksKept ==
  ASSUME PositionMatchesFills, UNCHANGED position,
         \A i \in Ids : /\ orders'[i].status = "none" <=> orders[i].status = "none"
                        /\ orders'[i].side = orders[i].side
                        /\ orders'[i].filled = orders[i].filled
  PROVE  PositionMatchesFills'
<1>1. \A b \in Bots : SideOf(b, "sell")' = SideOf(b, "sell") /\ SideOf(b, "buy")' = SideOf(b, "buy")
  BY DEF SideOf, OrdersOf
<1>2. [i \in Ids |-> orders[i].filled]' = [i \in Ids |-> orders[i].filled]
  OBVIOUS
<1>3. [i \in Ids |-> Net(orders[i].filled)]' = [i \in Ids |-> Net(orders[i].filled)]
  BY DEF Net
<1> QED BY <1>1, <1>2, <1>3 DEF PositionMatchesFills

LEMMA OneOrder ==
  ASSUME AccountInv, NEW i \in Ids, NEW p \in OrderRow, NEW s \in Remote, NEW n \in Nat,
         orders' = [orders EXCEPT ![i] = p],
         venue' = [venue EXCEPT ![i] = s],
         sends' = [sends EXCEPT ![i] = n],
         UNCHANGED <<decisions, active, candle>>,
         orders[i].status # "none", OrderOK(p, s, n), p.status # "none",
         p.side = orders[i].side,
         p.status \in Active => Unresolved \subseteq {i},
         Pending(p, s) => Pending(orders[i], venue[i]),
         bots' \in [Bots -> Bot], \A b \in Bots : BotOK(bots'[b]),
         ~active => UNCHANGED bots /\ (p.status \in Active => orders[i].status \in Active),
         position' \in [Bots -> Nat], PositionMatchesFills',
         \A b \in Bots : position'[b] > 0 => position[b] > 0 \/ Buying(b),
         holder' \in Workers \cup {NoOne},
         job' \in [Workers -> Job], \A v \in Workers : JobOK(job'[v], orders', venue'),
         SubmittersDiffer'
  PROVE  AccountInv'
<1>1. /\ orders \in [Ids -> OrderRow] /\ venue \in [Ids -> Remote] /\ sends \in [Ids -> Nat]
      /\ decisions \in [Bots -> SUBSET Keys] /\ active \in BOOLEAN /\ candle \in 1 .. MaxCandle
  BY DEF AccountInv, Types
<1>2. /\ orders' \in [Ids -> OrderRow] /\ venue' \in [Ids -> Remote] /\ sends' \in [Ids -> Nat]
      /\ orders'[i] = p /\ venue'[i] = s /\ sends'[i] = n
      /\ \A k \in Ids \ {i} :
           orders'[k] = orders[k] /\ venue'[k] = venue[k] /\ sends'[k] = sends[k]
  BY <1>1
<1>3. Types'
  BY <1>1, <1>2 DEF Types
<1>4. \A b \in Bots : BotOK(bots[b])'
  BY DEF BotOK
<1>5. ASSUME NEW k \in Ids
      PROVE  /\ OrderOK(orders'[k], venue'[k], sends'[k])
             /\ orders'[k].status # "none" => k[2] \in decisions'[k[1]]
  BY <1>2 DEF AccountInv, OrdersOK
<1>6. OrdersOK'
  BY <1>5 DEF OrdersOK, OrderOK
<1>7. \A v \in Workers : JobOK(job[v], orders, venue)'
  BY DEF JobOK
<1>8. \A k \in Unresolved' : k \in Unresolved \/ k = i
  BY <1>2 DEF Unresolved
<1>9. OneUnresolved'
  <2>1. CASE p.status \in Active
    BY <1>8, <2>1 DEF OneUnresolved
  <2>2. CASE p.status \notin Active
    <3>1. Unresolved' \subseteq Unresolved
      BY <1>2, <2>2 DEF Unresolved
    <3> QED BY <3>1 DEF OneUnresolved, AccountInv
  <2> QED BY <2>1, <2>2
<1>10. ASSUME NEW b \in Bots, Buying(b)'
       PROVE  Buying(b)
  <2>1. PICK k \in Ids : k[1] = b /\ orders'[k].side = "buy" /\ Pending(orders'[k], venue'[k])
    BY <1>10 DEF Buying, Pending
  <2>2. orders[k].side = "buy" /\ Pending(orders[k], venue[k])
    BY <1>2, <2>1
  <2> QED BY <2>1, <2>2 DEF Buying
<1>11. HoldingBounded'
  <2>1. Holding' \subseteq Holding
    BY <1>10 DEF Holding
  <2>2. IsFiniteSet(Holding)
    BY IdsFinite, FS_Subset DEF Holding
  <2>3. Cardinality(Holding') <= Cardinality(Holding)
    BY <2>1, <2>2, FS_Subset
  <2>4. Cardinality(Holding') \in Nat /\ Cardinality(Holding) \in Nat
    BY <2>1, <2>2, FS_Subset, FS_CardinalityType
  <2>5. Cardinality(Holding) <= MaxPositions
    BY DEF AccountInv, HoldingBounded
  <2> QED BY <2>3, <2>4, <2>5, BoundsAssumption DEF HoldingBounded
<1>12. QuietWhenInactive'
  <2>1. ASSUME ~active
        PROVE  Unresolved' = {} /\ \A b \in Bots : bots'[b].state \in {"stopped", "error"}
    <3>1. Unresolved = {} /\ \A b \in Bots : bots[b].state \in {"stopped", "error"}
      BY <2>1 DEF AccountInv, QuietWhenInactive
    <3>2. p.status \notin Active
      BY <2>1, <3>1 DEF Unresolved
    <3>3. Unresolved' = {}
      BY <1>2, <3>1, <3>2 DEF Unresolved
    <3> QED BY <2>1, <3>1, <3>3
  <2> QED BY <2>1 DEF QuietWhenInactive
<1> QED BY <1>3, <1>4, <1>6, <1>7, <1>9, <1>11, <1>12 DEF AccountInv

\* When only one order changes, every other one goes on trivially.
LEMMA OthersGoOn ==
  ASSUME Types, NEW i \in Ids, NEW p, NEW s,
         orders' = [orders EXCEPT ![i] = p], venue' = [venue EXCEPT ![i] = s],
         GoesOn(orders[i], venue[i], p, s)
  PROVE  \A k \in Ids : GoesOn(orders[k], venue[k], orders'[k], venue'[k])
<1> SUFFICES ASSUME NEW k \in Ids
             PROVE  GoesOn(orders[k], venue[k], orders'[k], venue'[k])
  OBVIOUS
<1>1. CASE k = i
  BY <1>1 DEF Types
<1>2. CASE k # i
  <2>1. orders'[k] = orders[k] /\ venue'[k] = venue[k] /\ venue[k].filled \in Nat
    BY <1>2 DEF Types, Remote
  <2> QED BY <2>1 DEF GoesOn
<1> QED BY <1>1, <1>2

\* What the invariant says of one order.
LEMMA OrderKnown ==
  ASSUME AccountInv, NEW i \in Ids
  PROVE  /\ Types /\ orders[i] \in OrderRow /\ venue[i] \in Remote /\ sends[i] \in Nat
         /\ OrderOK(orders[i], venue[i], sends[i])
         /\ i[1] \in Bots
         /\ \A k \in Unresolved : orders[i].status \in Active => k = i
         /\ \A w \in Workers : JobOK(job[w], orders, venue)
BY DEF AccountInv, Types, OrdersOK, Ids, OneUnresolved, Unresolved

LEMMA VenueStep ==
  ASSUME AccountInv, NEW i \in Ids, NEW s \in Remote, NEW n \in Nat,
         UNCHANGED <<db, candle>>,
         venue' = [venue EXCEPT ![i] = s], sends' = [sends EXCEPT ![i] = n],
         orders[i].status # "none", OrderOK(orders[i], s, n),
         Pending(orders[i], s) => Pending(orders[i], venue[i]),
         holder' \in Workers \cup {NoOne},
         job' \in [Workers -> Job], \A v \in Workers : JobOK(job'[v], orders', venue'),
         SubmittersDiffer'
  PROVE  AccountInv'
<1> DEFINE p == orders[i]
<1>1. UNCHANGED <<bots, position, decisions, orders, active, candle>>
  BY DEF db
<1>2. /\ p \in OrderRow /\ orders' = [orders EXCEPT ![i] = p]
      /\ bots' \in [Bots -> Bot] /\ position' \in [Bots -> Nat]
  BY <1>1, OrderKnown DEF Types
<1>3. p.status \in Active => Unresolved \subseteq {i}
  BY OrderKnown
<1>4. \A b \in Bots : BotOK(bots'[b])
  BY <1>1 DEF AccountInv
<1>5. PositionMatchesFills'
  BY <1>1, BooksKept DEF AccountInv
<1>6. \A b \in Bots : position'[b] > 0 => position[b] > 0 \/ Buying(b)
  BY <1>1
<1>7. p.status # "none" /\ p.side = orders[i].side /\ OrderOK(p, s, n)
      /\ (Pending(p, s) => Pending(orders[i], venue[i]))
      /\ (~active => UNCHANGED bots /\ (p.status \in Active => orders[i].status \in Active))
  BY <1>1
<1> HIDE DEF p
<1> QED BY <1>1, <1>2, <1>3, <1>4, <1>5, <1>6, <1>7, OneOrder

\* An order on which the exchange works is neither new nor settled.
LEMMA AtTheExchange ==
  ASSUME NEW o \in OrderRow, NEW r \in Remote, NEW n \in Nat, OrderOK(o, r, n),
         r.status \in {"sent", "NEW"}
  PROVE  /\ o.status # "none" /\ o.status \notin Terminal /\ Pending(o, r)
         /\ o.filled = 0 \/ r.status = "NEW"
BY DEF OrderOK, Pending, Unanswered, NoRemote, Final, Answered, OrderRow, Remote

LEMMA ExchangeSafe ==
  ASSUME AccountInv, NEW i \in Ids, Exchange(i) \/ Lose(i)
  PROVE  AccountInv'
<1>1. /\ orders[i] \in OrderRow /\ venue[i] \in Remote /\ sends[i] \in Nat
      /\ OrderOK(orders[i], venue[i], sends[i])
  BY OrderKnown
<1>2. venue[i].status \in {"sent", "NEW"}
  BY DEF Exchange, Accept, Refuse, Match, Complete, Lose
<1>3. /\ orders[i].status # "none" /\ orders[i].status \notin Terminal
      /\ Pending(orders[i], venue[i])
  BY <1>1, <1>2, AtTheExchange
<1>4. \E st \in VenueStatus \ {"unsent"}, f \in Nat :
        /\ VenueMoves(i, st, f)
        /\ venue[i].status = "sent" => st \in {"NEW", "refused", "lost"} /\ f = 0
        /\ venue[i].status = "NEW" => st \in Answered
        /\ venue[i].filled <= f /\ f <= orders[i].amount /\ WholeLots(f)
        /\ st = "NEW" => f < orders[i].amount
  <2>1. venue[i].filled \in Nat /\ orders[i].amount \in Nat
    BY <1>1 DEF OrderRow, Remote
  <2>2. CASE Accept(i) \/ Refuse(i) \/ Lose(i)
    <3>1. venue[i].status = "sent" /\ venue[i].filled = 0
      BY <1>1, <2>2 DEF Accept, Refuse, Lose, OrderOK, Answered, Final
    <3>2. orders[i].amount > 0
      BY <1>1, <1>3 DEF OrderOK
    <3>3. PICK st \in {"NEW", "refused", "lost"} : VenueMoves(i, st, 0)
      BY <2>2 DEF Accept, Refuse, Lose
    <3>4. st \in VenueStatus \ {"unsent"}
      BY DEF VenueStatus
    <3> QED BY <2>1, <3>1, <3>2, <3>3, <3>4, NoLots
  <2>3. CASE Match(i)
    <3>1. PICK q \in LotsUpTo(orders[i].amount) :
            q > venue[i].filled /\ q < orders[i].amount /\ VenueMoves(i, "NEW", q)
      BY <2>3 DEF Match
    <3>2. q \in Nat /\ WholeLots(q) /\ venue[i].status = "NEW"
      BY <2>1, <2>3 DEF LotsUpTo, WholeLots, Match
    <3>3. "NEW" \in VenueStatus \ {"unsent"} /\ "NEW" \in Answered
      BY DEF VenueStatus, Answered
    <3>4. venue[i].filled <= q /\ q <= orders[i].amount
      BY <2>1, <3>1, <3>2
    <3> QED BY <3>1, <3>2, <3>3, <3>4
  <2>4. CASE Complete(i)
    <3>1. venue[i].status = "NEW"
      BY <2>4 DEF Complete
    <3>2. /\ venue[i].filled <= orders[i].amount
          /\ WholeLots(venue[i].filled) /\ WholeLots(orders[i].amount)
      BY <1>1, <1>3 DEF OrderOK
    <3>3. \/ VenueMoves(i, "FILLED", orders[i].amount)
          \/ VenueMoves(i, "EXPIRED", venue[i].filled)
      BY <2>4 DEF Complete
    <3>4. {"FILLED", "EXPIRED"} \subseteq VenueStatus \ {"unsent"} /\ {"FILLED", "EXPIRED"} \subseteq Answered
      BY DEF VenueStatus, Answered, Final
    <3>5. CASE VenueMoves(i, "FILLED", orders[i].amount)
      BY <2>1, <3>1, <3>2, <3>4, <3>5
    <3>6. CASE VenueMoves(i, "EXPIRED", venue[i].filled)
      BY <2>1, <3>1, <3>2, <3>4, <3>6
    <3> QED BY <3>3, <3>5, <3>6
  <2> QED BY <2>2, <2>3, <2>4 DEF Exchange
<1>5. PICK st \in VenueStatus \ {"unsent"}, f \in Nat :
        /\ VenueMoves(i, st, f)
        /\ venue[i].status = "sent" => st \in {"NEW", "refused", "lost"} /\ f = 0
        /\ venue[i].status = "NEW" => st \in Answered
        /\ venue[i].filled <= f /\ f <= orders[i].amount /\ WholeLots(f)
        /\ st = "NEW" => f < orders[i].amount
  BY <1>4
<1> DEFINE s == [status |-> st, filled |-> f]
<1>6. s \in Remote /\ s.status = st /\ s.filled = f
  BY DEF Remote
<1>7. /\ venue' = [venue EXCEPT ![i] = s] /\ sends' = [sends EXCEPT ![i] = sends[i]]
      /\ UNCHANGED <<db, candle, holder, job>>
  BY <1>5, OrderKnown DEF VenueMoves, Types
<1> HIDE DEF s
<1>8. OrderOK(orders[i], s, sends[i])
  <2>1. st \notin Answered => f = 0
    BY <1>2, <1>5 DEF Answered
  <2>2. orders[i].filled <= s.filled
    BY <1>1, <1>5, <1>6 DEF OrderOK, OrderRow, Remote
  <2> QED BY <1>1, <1>2, <1>3, <1>5, <1>6, <2>1, <2>2 DEF OrderOK
<1>9. GoesOn(orders[i], venue[i], orders[i], s)
  BY <1>2, <1>5, <1>6 DEF GoesOn, Answered, Final
<1>10. /\ UNCHANGED orders /\ orders' = [orders EXCEPT ![i] = orders[i]]
  BY <1>7, OrderKnown DEF db, Types
<1>11. \A k \in Ids : GoesOn(orders[k], venue[k], orders'[k], venue'[k])
  BY <1>7, <1>9, <1>10, OrderKnown, OthersGoOn
<1>12. ASSUME NEW v \in Workers, job[v].pc = "submit"
       PROVE  venue'[job[v].id].status = "unsent" /\ orders'[job[v].id].status \in Active
  <2>1. job[v].id \in Ids /\ venue[job[v].id].status = "unsent" /\ orders[job[v].id].status \in Active
    BY <1>12, WorkerKnows DEF JobOK, WithOrder
  <2>2. job[v].id # i
    BY <1>2, <2>1
  <2> QED BY <1>7, <1>10, <2>1, <2>2, OrderKnown DEF Types
<1>13. venue' \in [Ids -> Remote]
  BY <1>6, <1>7, OrderKnown DEF Types
<1>14. /\ job' \in [Workers -> Job]
       /\ \A v \in Workers : JobOK(job'[v], orders', venue')
       /\ SubmittersDiffer'
  BY <1>7, <1>11, <1>12, <1>13, WorkersStay DEF AccountInv
<1>15. holder' \in Workers \cup {NoOne}
  BY <1>7, OrderKnown DEF Types
<1> QED BY <1>1, <1>3, <1>6, <1>7, <1>8, <1>14, <1>15, VenueStep

\* A worker with an order knows which one.
LEMMA WorkerHasOrder ==
  ASSUME AccountInv, NEW w \in Workers, job[w].pc \in WithOrder
  PROVE  /\ job[w].id \in Ids /\ job[w].id[1] = job[w].bot /\ job[w].bot \in Bots
         /\ orders[job[w].id].status # "none"
BY WorkerKnows DEF JobOK, WithOrder

\* Another worker's order that is about to be submitted is not this one.
LEMMA SubmitsAnother ==
  ASSUME AccountInv, NEW v \in Workers, job[v].pc = "submit", NEW i \in Ids,
         venue[i].status # "unsent"
  PROVE  /\ job[v].id \in Ids \ {i}
         /\ venue[job[v].id].status = "unsent" /\ orders[job[v].id].status \in Active
BY WorkerKnows DEF JobOK, WithOrder

LEMMA SubmitSafe ==
  ASSUME AccountInv, NEW w \in Workers, Submit(w)
  PROVE  AccountInv'
<1> DEFINE i == job[w].id
           s == [venue[i] EXCEPT !.status = "sent"]
           j == [job[w] EXCEPT !.pc = "await"]
<1>1. /\ job[w].pc = "submit" /\ UNCHANGED <<db, candle, holder>>
      /\ i \in Ids /\ i[1] = job[w].bot /\ job[w].bot \in Bots /\ orders[i].status # "none"
  BY WorkerHasOrder DEF Submit, Goto, WithOrder
<1>2. /\ orders[i] \in OrderRow /\ venue[i] \in Remote /\ sends[i] \in Nat
      /\ OrderOK(orders[i], venue[i], sends[i])
      /\ venue[i].status = "unsent" /\ orders[i].status \in Active
  BY <1>1, OrderKnown, WorkerKnows DEF JobOK
<1>3. /\ venue' = [venue EXCEPT ![i] = s] /\ sends' = [sends EXCEPT ![i] = sends[i] + 1]
      /\ job' = [job EXCEPT ![w] = j]
  BY <1>1, WorkerKnows DEF Submit, Goto, Types
<1>4. /\ s \in Remote /\ s.status = "sent" /\ s.filled = venue[i].filled
      /\ j \in Job /\ j.pc = "await" /\ j.bot = job[w].bot /\ j.id = i
  BY <1>2, WorkerKnows DEF Remote, VenueStatus, Job, Step
<1> HIDE DEF s, j
<1>5. OrderOK(orders[i], s, sends[i] + 1)
  <2>1. sends[i] = 0 /\ venue[i].filled = 0 /\ orders[i].status \notin Terminal
    BY <1>2 DEF OrderOK, Answered, Final, Active, Terminal
  <2> QED BY <1>1, <1>2, <1>4, <2>1 DEF OrderOK, Answered, Final
<1>6. GoesOn(orders[i], venue[i], orders[i], s)
  BY <1>2, <1>4 DEF GoesOn, Answered, Final, Remote
<1>7. Pending(orders[i], venue[i])
  BY <1>1, <1>2 DEF Pending, Unanswered
<1>8. UNCHANGED orders /\ orders' = [orders EXCEPT ![i] = orders[i]]
  BY <1>1, OrderKnown DEF db, Types
<1>9. \A k \in Ids : GoesOn(orders[k], venue[k], orders'[k], venue'[k])
  BY <1>1, <1>3, <1>6, <1>8, OrderKnown, OthersGoOn
<1>10. venue' \in [Ids -> Remote]
  BY <1>3, <1>4, WorkerKnows DEF Types
<1>11. JobOK(j, orders', venue')
  BY <1>1, <1>4, <1>8 DEF JobOK, WithOrder
<1>12. ASSUME NEW v \in Workers \ {w}, job[v].pc = "submit"
       PROVE  /\ venue'[job[v].id].status = "unsent" /\ orders'[job[v].id].status \in Active
              /\ j.pc = "submit" => job[v].id # j.id
  <2>1. job[v].id \in Ids /\ venue[job[v].id].status = "unsent" /\ orders[job[v].id].status \in Active
    BY <1>12, WorkerKnows DEF JobOK, WithOrder
  <2>2. job[v].id # i
    BY <1>1, <1>12 DEF AccountInv, SubmittersDiffer
  <2> QED BY <1>3, <1>4, <1>8, <2>1, <2>2, OrderKnown DEF Types
<1>13. /\ job' \in [Workers -> Job]
       /\ \A v \in Workers : JobOK(job'[v], orders', venue')
       /\ SubmittersDiffer'
  BY <1>3, <1>4, <1>9, <1>10, <1>11, <1>12, WorkerStep DEF AccountInv
<1>14. holder' \in Workers \cup {NoOne} /\ sends[i] + 1 \in Nat
  BY <1>1, <1>2, WorkerKnows
<1> HIDE DEF i
<1> QED BY <1>1, <1>3, <1>4, <1>5, <1>7, <1>13, <1>14, VenueStep

LEMMA CancelSafe ==
  ASSUME AccountInv, NEW w \in Workers, CancelRemainder(w)
  PROVE  AccountInv'
<1> DEFINE i == job[w].id
           st == IF venue[i].status = "NEW" THEN "CANCELED" ELSE venue[i].status
           s == [venue[i] EXCEPT !.status = st]
           j == [job[w] EXCEPT !.pc = "lookup2"]
<1>1. /\ job[w].pc = "cancel" /\ UNCHANGED <<db, candle, sends, holder>>
      /\ i \in Ids /\ i[1] = job[w].bot /\ job[w].bot \in Bots /\ orders[i].status # "none"
  BY WorkerHasOrder DEF CancelRemainder, Goto, WithOrder
<1>2. /\ orders[i] \in OrderRow /\ venue[i] \in Remote /\ sends[i] \in Nat
      /\ OrderOK(orders[i], venue[i], sends[i])
      /\ venue[i].status \in Answered
  BY <1>1, OrderKnown, WorkerKnows DEF JobOK
<1>3. /\ venue' = [venue EXCEPT ![i] = s] /\ sends' = [sends EXCEPT ![i] = sends[i]]
      /\ job' = [job EXCEPT ![w] = j]
  BY <1>1, WorkerKnows DEF CancelRemainder, Goto, Types
<1>4. st \in Final /\ (venue[i].status # "NEW" => st = venue[i].status)
  BY <1>2 DEF Answered, Final
<1> HIDE DEF st
<1>5. /\ s \in Remote /\ s.status = st /\ s.filled = venue[i].filled
      /\ venue[i].status # "NEW" => s = venue[i]
      /\ j \in Job /\ j.pc = "lookup2" /\ j.bot = job[w].bot /\ j.id = i
  BY <1>2, <1>4, WorkerKnows DEF Remote, VenueStatus, Final, Job, Step
<1> HIDE DEF s, j
<1>6. OrderOK(orders[i], s, sends[i])
  BY <1>1, <1>2, <1>4, <1>5 DEF OrderOK, Answered, Final
<1>7. GoesOn(orders[i], venue[i], orders[i], s)
  BY <1>2, <1>4, <1>5 DEF GoesOn, Answered, Final, Remote
<1>8. Pending(orders[i], s) => Pending(orders[i], venue[i])
  BY <1>4, <1>5 DEF Pending, Unanswered, Final
<1>9. UNCHANGED orders /\ orders' = [orders EXCEPT ![i] = orders[i]]
  BY <1>1, OrderKnown DEF db, Types
<1>10. \A k \in Ids : GoesOn(orders[k], venue[k], orders'[k], venue'[k])
  BY <1>1, <1>3, <1>7, <1>9, OrderKnown, OthersGoOn
<1>11. venue' \in [Ids -> Remote] /\ venue'[i] = s
  BY <1>1, <1>3, <1>5, WorkerKnows DEF Types
<1>12. JobOK(j, orders', venue')
  BY <1>1, <1>4, <1>5, <1>9, <1>11 DEF JobOK, WithOrder, Answered
<1>13. ASSUME NEW v \in Workers \ {w}, job[v].pc = "submit"
       PROVE  /\ venue'[job[v].id].status = "unsent" /\ orders'[job[v].id].status \in Active
              /\ j.pc = "submit" => job[v].id # j.id
  <2>1. venue[i].status # "unsent"
    BY <1>2 DEF Answered, Final
  <2>2. /\ job[v].id \in Ids \ {i}
        /\ venue[job[v].id].status = "unsent" /\ orders[job[v].id].status \in Active
    BY <1>1, <1>13, <2>1, SubmitsAnother
  <2> QED BY <1>3, <1>5, <1>9, <2>2, OrderKnown DEF Types
<1>14. /\ job' \in [Workers -> Job]
       /\ \A v \in Workers : JobOK(job'[v], orders', venue')
       /\ SubmittersDiffer'
  BY <1>3, <1>5, <1>10, <1>11, <1>12, <1>13, WorkerStep DEF AccountInv
<1>15. holder' \in Workers \cup {NoOne}
  BY <1>1, WorkerKnows
<1> HIDE DEF i
<1> QED BY <1>1, <1>2, <1>3, <1>5, <1>6, <1>8, <1>14, <1>15, VenueStep

\* A worker writes the row of its order.
LEMMA RowStep ==
  ASSUME AccountInv, active, NEW w \in Workers, NEW j \in Job, NEW i \in Ids, NEW p \in OrderRow,
         orders' = [orders EXCEPT ![i] = p],
         UNCHANGED <<decisions, active, venue, candle, sends>>,
         orders[i].status # "none", OrderOK(p, venue[i], sends[i]), p.status # "none",
         p.side = orders[i].side,
         p.status \in Active => Unresolved \subseteq {i},
         p.status \in Active \/ venue[i].status # "unsent",
         Pending(p, venue[i]) => Pending(orders[i], venue[i]),
         bots' \in [Bots -> Bot], \A b \in Bots : BotOK(bots'[b]),
         position' \in [Bots -> Nat], PositionMatchesFills',
         \A b \in Bots : position'[b] > 0 => position[b] > 0 \/ Buying(b),
         holder' \in Workers \cup {NoOne},
         job' = [job EXCEPT ![w] = j], JobOK(j, orders', venue'), j.pc # "submit"
  PROVE  AccountInv'
<1> DEFINE s == venue[i]
           n == sends[i]
<1>1. s \in Remote /\ n \in Nat /\ venue \in [Ids -> Remote] /\ sends \in [Ids -> Nat]
  BY OrderKnown DEF Types
<1>2. venue' = [venue EXCEPT ![i] = s] /\ sends' = [sends EXCEPT ![i] = n]
  BY <1>1
<1>3. GoesOn(orders[i], venue[i], p, s)
  BY <1>1 DEF GoesOn, Remote
<1>4. \A k \in Ids : GoesOn(orders[k], venue[k], orders'[k], venue'[k])
  BY <1>2, <1>3, OrderKnown, OthersGoOn
<1>5. ASSUME NEW v \in Workers \ {w}, job[v].pc = "submit"
      PROVE  /\ venue'[job[v].id].status = "unsent" /\ orders'[job[v].id].status \in Active
             /\ j.pc = "submit" => job[v].id # j.id
  <2>1. job[v].id \in Ids /\ venue[job[v].id].status = "unsent" /\ orders[job[v].id].status \in Active
    BY <1>5, WorkerKnows DEF JobOK, WithOrder
  <2>2. orders'[job[v].id].status \in Active
    <3>1. orders \in [Ids -> OrderRow]
      BY OrderKnown DEF Types
    <3>2. CASE job[v].id = i
      <4>1. p.status \in Active
        BY <2>1, <3>2
      <4> QED BY <3>1, <3>2, <4>1
    <3>3. CASE job[v].id # i
      BY <2>1, <3>1, <3>3
    <3> QED BY <3>2, <3>3
  <2> QED BY <2>1, <2>2
<1>6. /\ job' \in [Workers -> Job]
      /\ \A v \in Workers : JobOK(job'[v], orders', venue')
      /\ SubmittersDiffer'
  BY <1>1, <1>4, <1>5, WorkerStep DEF AccountInv
<1>7. OrderOK(p, s, n) /\ (Pending(p, s) => Pending(orders[i], venue[i]))
  OBVIOUS
<1> HIDE DEF s, n
<1> QED BY <1>1, <1>2, <1>6, <1>7, OneOrder

\* The same when the worker then leaves run().
LEMMA RowLeaves ==
  ASSUME AccountInv, active, NEW w \in Workers, NEW i \in Ids, NEW p \in OrderRow,
         orders' = [orders EXCEPT ![i] = p],
         UNCHANGED <<decisions, active, venue, candle, sends>>,
         orders[i].status # "none", OrderOK(p, venue[i], sends[i]), p.status # "none",
         p.side = orders[i].side,
         p.status \in Active => Unresolved \subseteq {i},
         p.status \in Active \/ venue[i].status # "unsent",
         Pending(p, venue[i]) => Pending(orders[i], venue[i]),
         bots' \in [Bots -> Bot], \A b \in Bots : BotOK(bots'[b]),
         position' \in [Bots -> Nat], PositionMatchesFills',
         \A b \in Bots : position'[b] > 0 => position[b] > 0 \/ Buying(b),
         Leaves(w)
  PROVE  AccountInv'
<1>1. PICK j \in Job : /\ job' = [job EXCEPT ![w] = j]
                       /\ j.pc \in {"idle", "failing"}
                       /\ j.pc # "idle" => j.bot \in Bots
  BY DEF Leaves
<1>2. JobOK(j, orders', venue') /\ j.pc # "submit"
  BY <1>1, LeftIsOK
<1> QED BY <1>1, <1>2, RowStep DEF Leaves

LEMMA RecordRejectionSafe ==
  ASSUME AccountInv, NEW w \in Workers, RecordRejection(w)
  PROVE  AccountInv'
<1> DEFINE b == job[w].bot
           i == job[w].id
           p == [orders[i] EXCEPT !.status = "rejected"]
           stopped == [bots[b] EXCEPT !.state = IF @ = "stopping" THEN "stopped" ELSE @]
<1>1. /\ job[w].pc = "rejected" /\ UNCHANGED <<position, decisions, active, venue, candle, sends>>
      /\ i \in Ids /\ i[1] = b /\ b \in Bots /\ orders[i].status # "none"
  BY WorkerHasOrder DEF RecordRejection, WithOrder, world
<1>2. /\ orders[i] \in OrderRow /\ OrderOK(orders[i], venue[i], sends[i])
      /\ venue[i] \in Remote /\ venue[i].status = "refused"
  BY <1>1, OrderKnown, WorkerKnows DEF JobOK
<1>3. CASE active
  <2>1. /\ orders' = [orders EXCEPT ![i] = p]
        /\ bots' = [bots EXCEPT ![b] = Strike(stopped)] /\ Finish(w)
    BY <1>3, WorkerKnows DEF RecordRejection, Types
  <2>2. /\ p \in OrderRow /\ p.status = "rejected" /\ p.side = orders[i].side
        /\ p.filled = orders[i].filled /\ p.amount = orders[i].amount
    BY <1>2 DEF OrderRow, Terminal
  <2>3. orders[i].filled = 0 /\ venue[i].filled = 0
    BY <1>2 DEF OrderOK, OrderRow, Remote, Answered, Final
  <2> HIDE DEF p
  <2>4. OrderOK(p, venue[i], sends[i])
    BY <1>1, <1>2, <2>2, <2>3 DEF OrderOK, Terminal
  <2>5. p.status \notin Active /\ ~Pending(p, venue[i])
    BY <1>2, <2>2, <2>3 DEF Active, Pending, Unanswered
  <2>6. bots[b] \in Bot /\ BotOK(bots[b]) /\ bots \in [Bots -> Bot] /\ position \in [Bots -> Nat]
    BY <1>1 DEF AccountInv, Types
  <2>7. stopped \in Bot /\ stopped.revision = bots[b].revision
        /\ stopped.state \in {bots[b].state, "stopped"}
    BY <2>6 DEF Bot, BotState
  <2> HIDE DEF stopped
  <2>8. Strike(stopped) \in Bot /\ BotOK(Strike(stopped))
    BY <2>6, <2>7, StrikeKeeps DEF BotOK
  <2>9. bots' \in [Bots -> Bot] /\ \A c \in Bots : BotOK(bots'[c])
    BY <2>1, <2>6, <2>8 DEF AccountInv
  <2>10. PositionMatchesFills'
    BY <1>1, <2>1, <2>2, OrderKnown, BooksKept DEF AccountInv, Types
  <2>11. Leaves(w)
    BY <1>1, <2>1, WorkerKnows, FinishLeaves
  <2> HIDE DEF i, b
  <2>12. /\ p.status # "none" /\ venue[i].status # "unsent"
         /\ position' \in [Bots -> Nat]
         /\ \A c \in Bots : position'[c] > 0 => position[c] > 0 \/ Buying(c)
    BY <1>1, <1>2, <2>2, <2>6
  <2> QED BY <1>1, <1>3, <2>1, <2>2, <2>4, <2>5, <2>9, <2>10, <2>11, <2>12, RowLeaves
<1>4. CASE ~active
  <2>1. Raise(w) /\ UNCHANGED <<db, world>>
    BY <1>1, <1>4 DEF RecordRejection, db, world
  <2> QED BY <1>1, <2>1, FinishOnly
<1> QED BY <1>3, <1>4

LEMMA MarkUnknownSafe ==
  ASSUME AccountInv, NEW w \in Workers, MarkUnknown(w)
  PROVE  AccountInv'
<1> DEFINE b == job[w].bot
           i == job[w].id
           p == [orders[i] EXCEPT !.status = "unknown"]
<1>1. /\ job[w].pc = "unknown"
      /\ UNCHANGED <<bots, position, decisions, active, venue, candle, sends>>
      /\ i \in Ids /\ i[1] = b /\ b \in Bots /\ orders[i].status # "none"
  BY WorkerHasOrder DEF MarkUnknown, WithOrder, world
<1>2. /\ orders[i] \in OrderRow /\ OrderOK(orders[i], venue[i], sends[i])
  BY <1>1, OrderKnown
<1>3. CASE active /\ OnlyUnresolved(i)
  <2>1. orders' = [orders EXCEPT ![i] = p] /\ Finish(w)
    BY <1>3, WorkerKnows DEF MarkUnknown, Types
  <2>2. /\ p \in OrderRow /\ p.status = "unknown" /\ p.side = orders[i].side
        /\ p.filled = orders[i].filled /\ p.amount = orders[i].amount
    BY <1>2 DEF OrderRow, Active
  <2> HIDE DEF p
  <2>3. OrderOK(p, venue[i], sends[i])
    BY <1>1, <1>2, <2>2 DEF OrderOK, Terminal
  <2>4. p.status \in Active /\ p.status # "none" /\ Unresolved \subseteq {i}
    BY <1>3, <2>2 DEF Active, OnlyUnresolved
  <2>5. Pending(p, venue[i]) => Pending(orders[i], venue[i])
    BY <1>1, <2>2 DEF Pending
  <2>6. /\ bots' \in [Bots -> Bot] /\ (\A c \in Bots : BotOK(bots'[c]))
        /\ position' \in [Bots -> Nat]
    BY <1>1 DEF AccountInv, Types
  <2>7. PositionMatchesFills'
    BY <1>1, <2>1, <2>2, OrderKnown, BooksKept DEF AccountInv, Types
  <2>8. Leaves(w)
    BY <1>1, <2>1, WorkerKnows, FinishLeaves
  <2>9. \A c \in Bots : position'[c] > 0 => position[c] > 0 \/ Buying(c)
    BY <1>1
  <2> HIDE DEF i, b
  <2> QED BY <1>1, <1>3, <2>1, <2>2, <2>3, <2>4, <2>5, <2>6, <2>7, <2>8, <2>9, RowLeaves
<1>4. CASE ~(active /\ OnlyUnresolved(i))
  <2>1. Raise(w) /\ UNCHANGED <<db, world>>
    BY <1>1, <1>4 DEF MarkUnknown, db, world
  <2> QED BY <1>1, <2>1, FinishOnly
<1> QED BY <1>3, <1>4

-----------------------------------------------------------------------------
(***************************************************************************)
(* Booking an order: apply().                                              *)
(***************************************************************************)

\* The position grows by the net amount of new purchases, or falls by new sales.
LEMMA FillsAddUp ==
  ASSUME AccountInv, NEW i \in Ids, NEW p \in OrderRow, orders[i].status # "none",
         p.status # "none", p.side = orders[i].side,
         orders[i].filled <= p.filled, WholeLots(p.filled),
         orders' = [orders EXCEPT ![i] = p],
         position' = [position EXCEPT ![i[1]] =
                        IF orders[i].side = "buy" THEN @ + Net(p.filled - orders[i].filled)
                        ELSE @ - (p.filled - orders[i].filled)]
  PROVE  PositionMatchesFills'
<1> DEFINE F == [k \in Ids |-> orders[k].filled]
           G == [k \in Ids |-> orders'[k].filled]
           NF == [k \in Ids |-> Net(orders[k].filled)]
           NG == [k \in Ids |-> Net(orders'[k].filled)]
<1>1. /\ orders \in [Ids -> OrderRow] /\ position \in [Bots -> Nat] /\ i[1] \in Bots
      /\ orders[i] \in OrderRow /\ OrderOK(orders[i], venue[i], sends[i])
  BY OrderKnown DEF Types
<1>2. /\ orders' \in [Ids -> OrderRow] /\ orders'[i] = p
      /\ \A k \in Ids \ {i} : orders'[k] = orders[k]
  BY <1>1
<1>3. \A k \in Ids : WholeLots(orders[k].filled) /\ WholeLots(orders'[k].filled)
  BY <1>2, OrderKnown DEF OrderOK
<1>4. \A k \in Ids : /\ F[k] \in Nat /\ G[k] \in Nat /\ NF[k] \in Nat /\ NG[k] \in Nat
                     /\ k # i => G[k] = F[k] /\ NG[k] = NF[k]
  <2> SUFFICES ASSUME NEW k \in Ids
               PROVE  /\ F[k] \in Nat /\ G[k] \in Nat /\ NF[k] \in Nat /\ NG[k] \in Nat
                      /\ k # i => G[k] = F[k] /\ NG[k] = NF[k]
    OBVIOUS
  <2>1. orders[k].filled \in Nat /\ orders'[k].filled \in Nat
    BY <1>1, <1>2 DEF OrderRow
  <2>2. Net(orders[k].filled) \in Nat /\ Net(orders'[k].filled) \in Nat
    BY <1>3, <2>1, NetOfLots
  <2> QED BY <1>2, <2>1, <2>2
<1>5. /\ F[i] = orders[i].filled /\ G[i] = p.filled
      /\ NF[i] = Net(orders[i].filled) /\ NG[i] = Net(p.filled)
      /\ Net(p.filled - orders[i].filled) = NG[i] - NF[i]
  BY <1>1, <1>2, <1>3, NetOfLots DEF OrderRow
<1> HIDE DEF F, G, NF, NG
<1>6. ASSUME NEW b \in Bots
      PROVE  position'[b] + Total(SideOf(b, "sell"), G) = Total(SideOf(b, "buy"), NG)
  <2> DEFINE S == SideOf(b, "sell")
             B == SideOf(b, "buy")
  <2>1. S \subseteq Ids /\ B \subseteq Ids /\ IsFiniteSet(S) /\ IsFiniteSet(B)
    <3>1. S \subseteq Ids /\ B \subseteq Ids
      BY DEF SideOf, OrdersOf
    <3> QED BY <3>1, IdsFinite, FS_Subset
  <2>2. position[b] + Total(S, F) = Total(B, NF) /\ position[b] \in Nat
    BY <1>1 DEF AccountInv, PositionMatchesFills, F, NF
  <2>3. Total(S, F) \in Nat /\ Total(B, NF) \in Nat
    BY <1>4, <2>1, TotalNat
  <2>4. /\ i \in S <=> i[1] = b /\ orders[i].side = "sell"
        /\ i \in B <=> i[1] = b /\ orders[i].side = "buy"
        /\ orders[i].side \in {"buy", "sell"}
    BY <1>1 DEF SideOf, OrdersOf, OrderOK
  <2> HIDE DEF S, B
  <2>5. CASE i[1] # b
    <3>1. Total(S, G) = Total(S, F) /\ Total(B, NG) = Total(B, NF)
      BY <1>4, <2>1, <2>4, <2>5, TotalSame
    <3>2. position'[b] = position[b]
      BY <1>1, <2>5
    <3> QED BY <2>2, <3>1, <3>2 DEF S, B
  <2>6. CASE i[1] = b /\ orders[i].side = "buy"
    <3>1. i \notin S /\ i \in B
      BY <2>4, <2>6
    <3>2. Total(S, G) = Total(S, F)
      BY <1>4, <2>1, <3>1, TotalSame
    <3>3. Total(B, NG) = Total(B, NF) - NF[i] + NG[i]
      BY <1>4, <2>1, <3>1, TotalOneChange
    <3>4. position'[b] = position[b] + (NG[i] - NF[i])
      BY <1>1, <1>5, <2>6
    <3>5. NF[i] \in Nat /\ NG[i] \in Nat
      BY <1>4
    <3> QED BY <2>2, <2>3, <3>2, <3>3, <3>4, <3>5 DEF S, B
  <2>7. CASE i[1] = b /\ orders[i].side = "sell"
    <3>1. i \in S /\ i \notin B
      BY <2>4, <2>7
    <3>2. Total(B, NG) = Total(B, NF)
      BY <1>4, <2>1, <3>1, TotalSame
    <3>3. Total(S, G) = Total(S, F) - F[i] + G[i]
      BY <1>4, <2>1, <3>1, TotalOneChange
    <3>4. position'[b] = position[b] - (G[i] - F[i])
      BY <1>1, <1>5, <2>7
    <3>5. F[i] \in Nat /\ G[i] \in Nat
      BY <1>4
    <3> QED BY <2>2, <2>3, <3>2, <3>3, <3>4, <3>5 DEF S, B
  <2> QED BY <2>4, <2>5, <2>6, <2>7
<1>7. \A b \in Bots : SideOf(b, "sell")' = SideOf(b, "sell") /\ SideOf(b, "buy")' = SideOf(b, "buy")
  BY <1>2 DEF SideOf, OrdersOf
<1>8. [k \in Ids |-> orders[k].filled]' = G
  BY DEF G
<1>9. [k \in Ids |-> Net(orders[k].filled)]' = NG
  BY DEF NG, Net
<1> QED BY <1>6, <1>7, <1>8, <1>9 DEF PositionMatchesFills

LEMMA BotAfterOK ==
  ASSUME NEW b \in Bots, bots[b] \in Bot, BotOK(bots[b]), NEW st, NEW filled, NEW held
  PROVE  /\ BotAfter(b, st, filled, held) \in Bot
         /\ BotOK(BotAfter(b, st, filled, held))
<1> DEFINE bot == bots[b]
           stopped == [bot EXCEPT !.state = "stopped", !.revision = @ + 1]
           settled == IF bot.state = "stopping" THEN stopped ELSE bot
           close == settled.close /\ held # 0
           closed == [settled EXCEPT !.close = close]
<1>1. settled \in Bot /\ BotOK(settled)
  <2>1. CASE bot.state = "stopping"
    <3>1. bot.revision + 1 \in 1 .. MaxRevision + 1
      BY <2>1, BoundsAssumption DEF Bot, BotOK
    <3>2. stopped \in Bot /\ stopped.state = "stopped"
      BY <3>1 DEF Bot, BotState
    <3> QED BY <2>1, <3>2 DEF BotOK
  <2>2. CASE bot.state # "stopping"
    BY <2>2
  <2> QED BY <2>1, <2>2
<1> HIDE DEF settled
<1>2. closed \in Bot /\ BotOK(closed)
  BY <1>1 DEF Bot, BotOK
<1>3. BotAfter(b, st, filled, held) \in {Success(bot), Strike(closed), Success(closed)}
  BY DEF BotAfter, settled
<1> HIDE DEF closed, bot
<1>4. Success(bot) \in Bot /\ BotOK(Success(bot))
  BY SuccessKeeps DEF BotOK, bot
<1>5. Success(closed) \in Bot /\ BotOK(Success(closed))
  BY <1>2, SuccessKeeps DEF BotOK
<1>6. Strike(closed) \in Bot /\ BotOK(Strike(closed))
  BY <1>2, StrikeKeeps DEF BotOK
<1> QED BY <1>3, <1>4, <1>5, <1>6

\* The row that apply() writes, from an answer of the exchange.
LEMMA BookedRow ==
  ASSUME NEW o \in OrderRow, NEW r \in Remote, NEW n \in Nat, OrderOK(o, r, n),
         o.status # "none", r.status \in Answered,
         NEW remote \in Remote, remote.status \in Answered,
         remote.status \in Final => remote = r,
         remote.filled <= r.filled, WholeLots(remote.filled), o.filled <= remote.filled,
         NEW p, p.status = StoredStatus(remote), p.filled = remote.filled,
         p.side = o.side, p.amount = o.amount
  PROVE  /\ p.status # "none"
         /\ p.status \in Terminal => r.status \in Final /\ p.filled = r.filled
         /\ OrderOK(p, r, n)
         /\ Pending(p, r) => Pending(o, r)
         /\ remote.filled # o.filled => Pending(o, r)
<1>1. StoredStatus(remote) \in Active \cup Terminal
  BY DEF StoredStatus, Active, Terminal
<1>2. StoredStatus(remote) \in Terminal => remote.status \in Final
  BY DEF StoredStatus, Active, Terminal, Answered
<1>3. p.amount \in Nat /\ p.filled \in Nat
  BY DEF OrderRow, Remote
<1>4. p.status # "none"
  BY <1>1 DEF Active, Terminal
<1>5. p.status \in Terminal => r.status \in Final /\ p.filled = r.filled
  BY <1>2
<1>6. OrderOK(p, r, n)
  BY <1>3, <1>4, <1>5 DEF OrderOK
<1>7. o.filled \in Nat /\ remote.filled \in Nat /\ r.filled \in Nat
  BY DEF OrderRow, Remote
<1>8. remote.filled # o.filled => r.filled # o.filled
  BY <1>7
<1>9. Pending(p, r) => Pending(o, r)
  BY <1>3, <1>7 DEF Pending
<1>10. remote.filled # o.filled => Pending(o, r)
  BY <1>8 DEF Pending
<1> QED BY <1>4, <1>5, <1>6, <1>9, <1>10

\* StoredStatus gives the row one of the statuses of the table.
LEMMA StoredStatusKnown ==
  ASSUME NEW remote
  PROVE  StoredStatus(remote) \in Active \cup Terminal
BY DEF StoredStatus, Active, Terminal

LEMMA BookSafe ==
  ASSUME AccountInv, NEW w \in Workers, NEW i \in Ids, job[w].pc = "apply", job[w].id = i,
         Applicable(i, job[w].remote), Book(i, job[w].remote), UNCHANGED world,
         Leaves(w) \/ Goto(w, "unknown")
  PROVE  AccountInv'
<1> DEFINE remote == job[w].remote
           held == PositionAfter(i, remote)
           p == OrderAfter(i, remote)
           bot == BotAfter(i[1], StoredStatus(remote), remote.filled, held)
<1>1. /\ i[1] = job[w].bot /\ i[1] \in Bots /\ orders[i].status # "none"
      /\ active /\ UNCHANGED <<decisions, active, venue, candle, sends>>
  BY WorkerHasOrder DEF WithOrder, Applicable, Book, world
<1>2. /\ orders[i] \in OrderRow /\ venue[i] \in Remote /\ sends[i] \in Nat
      /\ OrderOK(orders[i], venue[i], sends[i])
      /\ position \in [Bots -> Nat] /\ bots \in [Bots -> Bot]
      /\ \A b \in Bots : BotOK(bots[b])
  BY OrderKnown DEF Types, AccountInv
<1>3. /\ remote \in Remote /\ remote.status \in Answered /\ venue[i].status \in Answered
      /\ remote.status \in Final => remote = venue[i]
      /\ remote.filled <= venue[i].filled /\ WholeLots(remote.filled)
  BY WorkerKnows DEF JobOK, Job
<1>4. orders[i].filled <= remote.filled /\ held >= 0
      /\ (StoredStatus(remote) \in Active => OnlyUnresolved(i))
  BY <1>2, <1>3 DEF Applicable, OrderRow, Remote
<1>5. p = [orders[i] EXCEPT !.status = StoredStatus(remote), !.filled = remote.filled]
  BY DEF OrderAfter
<1> HIDE DEF p, remote
<1>row. /\ p \in OrderRow /\ p.status = StoredStatus(remote) /\ p.filled = remote.filled
        /\ p.side = orders[i].side /\ p.amount = orders[i].amount
  BY <1>2, <1>3, <1>5, StoredStatusKnown DEF OrderRow, Remote
<1>6. /\ p \in OrderRow /\ p.status = StoredStatus(remote) /\ p.status # "none"
      /\ p.side = orders[i].side /\ p.filled = remote.filled
      /\ OrderOK(p, venue[i], sends[i])
      /\ Pending(p, venue[i]) => Pending(orders[i], venue[i])
      /\ remote.filled # orders[i].filled => Pending(orders[i], venue[i])
  <2> DEFINE o == orders[i]
             r == venue[i]
             n == sends[i]
  <2>1. /\ o \in OrderRow /\ r \in Remote /\ n \in Nat /\ OrderOK(o, r, n)
        /\ o.status # "none" /\ r.status \in Answered
        /\ remote \in Remote /\ remote.status \in Answered
        /\ remote.status \in Final => remote = r
        /\ remote.filled <= r.filled /\ WholeLots(remote.filled) /\ o.filled <= remote.filled
        /\ p.status = StoredStatus(remote) /\ p.filled = remote.filled
        /\ p.side = o.side /\ p.amount = o.amount
    BY <1>1, <1>2, <1>3, <1>4, <1>row
  <2> HIDE DEF o, r, n
  <2>2. /\ p.status # "none"
        /\ OrderOK(p, r, n)
        /\ Pending(p, r) => Pending(o, r)
        /\ remote.filled # o.filled => Pending(o, r)
    BY <2>1, BookedRow
  <2> QED BY <1>row, <2>2 DEF o, r, n
<1>7. /\ orders' = [orders EXCEPT ![i] = p]
      /\ position' = [position EXCEPT ![i[1]] = held]
      /\ bots' = [bots EXCEPT ![i[1]] = bot]
  BY DEF Book, p, remote
<1>8. held = IF orders[i].side = "buy" THEN position[i[1]] + Net(p.filled - orders[i].filled)
             ELSE position[i[1]] - (p.filled - orders[i].filled)
  BY <1>6 DEF PositionAfter, NewFills
<1>9. PositionMatchesFills'
  BY <1>1, <1>3, <1>4, <1>6, <1>7, <1>8, FillsAddUp
<1>10. bot \in Bot /\ BotOK(bot)
  BY <1>1, <1>2, BotAfterOK
<1> HIDE DEF bot, held
<1>11. bots' \in [Bots -> Bot] /\ \A b \in Bots : BotOK(bots'[b])
  BY <1>2, <1>7, <1>10
<1>12. held \in Nat /\ (held > 0 => position[i[1]] > 0 \/ Buying(i[1]))
  <2> DEFINE new == p.filled - orders[i].filled
  <2>1. /\ new \in Nat /\ Net(new) \in Nat /\ position[i[1]] \in Nat
        /\ WholeLots(p.filled) /\ WholeLots(orders[i].filled)
    BY <1>1, <1>2, <1>3, <1>4, <1>6, NetOfLots DEF OrderRow, Remote, OrderOK
  <2>2. CASE orders[i].side = "buy"
    <3>1. held = position[i[1]] + Net(new)
      BY <1>8, <2>2
    <3>2. new # 0 => Buying(i[1])
      BY <1>2, <1>6, <2>2 DEF Buying, OrderRow
    <3>3. new = 0 => held = position[i[1]]
      BY <2>1, <3>1, NoLots
    <3> HIDE DEF new
    <3> QED BY <2>1, <3>1, <3>2, <3>3
  <2>3. CASE orders[i].side # "buy"
    <3>1. held = position[i[1]] - new
      BY <1>8, <2>3
    <3> HIDE DEF new
    <3> QED BY <1>4, <2>1, <3>1
  <2> QED BY <2>2, <2>3
<1>13. /\ position' \in [Bots -> Nat]
       /\ \A b \in Bots : position'[b] > 0 => position[b] > 0 \/ Buying(b)
  BY <1>2, <1>7, <1>12
<1>14. venue[i].status # "unsent"
  BY <1>3 DEF Answered, Final
<1>15. p.status \in Active => Unresolved \subseteq {i}
  BY <1>4, <1>6 DEF OnlyUnresolved
<1>16. CASE Leaves(w)
  BY <1>1, <1>6, <1>7, <1>9, <1>11, <1>13, <1>14, <1>15, <1>16, RowLeaves
<1>17. CASE Goto(w, "unknown")
  <2> DEFINE j == [job[w] EXCEPT !.pc = "unknown"]
  <2>1. job' = [job EXCEPT ![w] = j] /\ holder' \in Workers \cup {NoOne}
    BY <1>17, WorkerKnows DEF Goto, Types
  <2>2. j \in Job /\ j.pc = "unknown" /\ j.bot = job[w].bot /\ j.id = i
    BY WorkerKnows DEF Job, Step
  <2> HIDE DEF j
  <2>3. orders'[i].status # "none"
    BY <1>2, <1>6, <1>7, OrderKnown DEF Types
  <2>4. JobOK(j, orders', venue') /\ j.pc # "submit"
    BY <1>1, <2>2, <2>3 DEF JobOK, WithOrder
  <2> QED BY <1>1, <1>6, <1>7, <1>9, <1>11, <1>13, <1>14, <1>15, <2>1, <2>2, <2>4, RowStep
<1> QED BY <1>16, <1>17

LEMMA ApplySafe ==
  ASSUME AccountInv, NEW w \in Workers, Apply(w) \/ ApplyUnconfirmed(w)
  PROVE  AccountInv'
<1> DEFINE i == job[w].id
<1>1. /\ job[w].pc = "apply" /\ i \in Ids /\ i[1] = job[w].bot /\ job[w].bot \in Bots
      /\ orders[i].status # "none" /\ UNCHANGED world
  BY WorkerHasOrder DEF Apply, ApplyUnconfirmed, WithOrder
<1>2. CASE Applicable(i, job[w].remote)
  <2>1. Book(i, job[w].remote) /\ (Finish(w) \/ Goto(w, "unknown"))
    BY <1>2 DEF Apply, ApplyUnconfirmed
  <2>2. Leaves(w) \/ Goto(w, "unknown")
    BY <1>1, <2>1, WorkerKnows, FinishLeaves
  <2> QED BY <1>1, <1>2, <2>1, <2>2, BookSafe
<1>3. CASE ~Applicable(i, job[w].remote)
  <2>1. UNCHANGED db /\ Goto(w, "unknown")
    BY <1>3 DEF Apply, ApplyUnconfirmed
  <2> DEFINE j == [job[w] EXCEPT !.pc = "unknown"]
  <2>2. j.pc = "unknown" /\ j.bot = job[w].bot /\ j.id = i
    BY WorkerKnows DEF Job
  <2> HIDE DEF j
  <2>3. JobOK(j, orders, venue)
    BY <1>1, <2>2 DEF JobOK, WithOrder
  <2> QED BY <1>1, <2>1, <2>3, GotoOnly DEF j, Step
<1> QED BY <1>2, <1>3

-----------------------------------------------------------------------------
(***************************************************************************)
(* A new order.                                                            *)
(***************************************************************************)

\* Only an unresolved order may still trade, or has fills that are not booked.
LEMMA PendingIsActive ==
  ASSUME NEW o \in OrderRow, NEW r \in Remote, NEW n, OrderOK(o, r, n), Pending(o, r)
  PROVE  o.status \in Active
BY DEF OrderOK, Pending, Unanswered, OrderRow, Final

LEMMA NothingPending ==
  ASSUME AccountInv, Unresolved = {}
  PROVE  /\ \A k \in Ids : ~Pending(orders[k], venue[k])
         /\ Holding = {b \in Bots : position[b] > 0}
<1>1. \A k \in Ids : ~Pending(orders[k], venue[k])
  BY OrderKnown, PendingIsActive DEF Unresolved
<1> QED BY <1>1 DEF Holding, Buying

\* An order without fills adds nothing to the sums.
LEMMA NewOrderAddsNothing ==
  ASSUME AccountInv, NEW i \in Ids, orders[i].status = "none", UNCHANGED position,
         NEW p \in OrderRow, p.filled = 0, p.status # "none",
         orders' = [orders EXCEPT ![i] = p]
  PROVE  PositionMatchesFills'
<1> DEFINE F == [k \in Ids |-> orders[k].filled]
           G == [k \in Ids |-> orders'[k].filled]
           NF == [k \in Ids |-> Net(orders[k].filled)]
           NG == [k \in Ids |-> Net(orders'[k].filled)]
<1>1. /\ orders \in [Ids -> OrderRow] /\ i[1] \in Bots /\ position \in [Bots -> Nat]
  BY OrderKnown DEF Types
<1>2. /\ orders' \in [Ids -> OrderRow] /\ orders'[i] = p
      /\ \A k \in Ids \ {i} : orders'[k] = orders[k]
  BY <1>1
<1>3. \A k \in Ids : F[k] \in Nat /\ NF[k] \in Nat
  <2> SUFFICES ASSUME NEW k \in Ids
               PROVE  F[k] \in Nat /\ NF[k] \in Nat
    OBVIOUS
  <2>1. orders[k].filled \in Nat /\ WholeLots(orders[k].filled)
    BY <1>1, OrderKnown DEF OrderRow, OrderOK
  <2> QED BY <2>1, NetOfLots
<1>4. (\A k \in Ids \ {i} : G[k] = F[k] /\ NG[k] = NF[k]) /\ G[i] = 0 /\ NG[i] = 0
  BY <1>2, NoLots
<1> HIDE DEF F, G, NF, NG
<1>5. ASSUME NEW b \in Bots, NEW side \in {"buy", "sell"}, NEW f, NEW g,
             \A k \in Ids : f[k] \in Nat, \A k \in Ids \ {i} : g[k] = f[k], g[i] = 0
      PROVE  Total(SideOf(b, side)', g) = Total(SideOf(b, side), f)
  <2> DEFINE S == SideOf(b, side)
             T == SideOf(b, side)'
  <2>1. S \subseteq Ids \ {i}
    BY DEF SideOf, OrdersOf
  <2>2. IsFiniteSet(S)
    BY <2>1, IdsFinite, FS_Subset
  <2>3. T = S \/ T = S \cup {i}
    BY <1>2, <2>1 DEF SideOf, OrdersOf
  <2>4. Total(S, f) \in Nat
    BY <1>5, <2>1, <2>2, TotalNat
  <2> HIDE DEF S, T
  <2>5. CASE T = S
    <3>1. Total(S, g) = Total(S, f)
      BY <1>5, <2>1, TotalSame
    <3> QED BY <2>5, <3>1 DEF S, T
  <2>6. CASE T = S \cup {i}
    <3>0. i \notin S /\ g[i] \in Nat /\ \A k \in S : f[k] \in Nat /\ g[k] = f[k]
      BY <1>5, <2>1
    <3>1. Total(S \cup {i}, g) = Total(S, f) + g[i]
      <4>1. \A k \in S \cup {i} : g[k] \in Nat
        BY <3>0
      <4>2. Total(S \cup {i}, g) = Total(S, g) + g[i]
        BY <2>2, <3>0, <4>1, TotalAdd
      <4>3. Total(S, f) = Total(S, g)
        BY <3>0, TotalSame
      <4> QED BY <4>2, <4>3
    <3>2. Total(S \cup {i}, g) = Total(S, f)
      BY <1>5, <2>4, <3>1
    <3> QED BY <2>6, <3>2 DEF S, T
  <2> QED BY <2>3, <2>5, <2>6
<1>6. ASSUME NEW b \in Bots
      PROVE  position'[b] + Total(SideOf(b, "sell")', G) = Total(SideOf(b, "buy")', NG)
  <2>1. position[b] + Total(SideOf(b, "sell"), F) = Total(SideOf(b, "buy"), NF)
    BY DEF AccountInv, PositionMatchesFills, F, NF
  <2>2. Total(SideOf(b, "sell")', G) = Total(SideOf(b, "sell"), F)
    BY <1>3, <1>4, <1>5
  <2>3. Total(SideOf(b, "buy")', NG) = Total(SideOf(b, "buy"), NF)
    BY <1>3, <1>4, <1>5
  <2> QED BY <2>1, <2>2, <2>3
<1>7. [k \in Ids |-> orders[k].filled]' = G
  BY DEF G
<1>8. [k \in Ids |-> Net(orders[k].filled)]' = NG
  BY DEF NG, Net
<1> QED BY <1>6, <1>7, <1>8 DEF PositionMatchesFills

LEMMA ReserveOrderSafe ==
  ASSUME AccountInv, NEW w \in Workers, ReserveOrder(w)
  PROVE  AccountInv'
<1> DEFINE b == job[w].bot
           i == job[w].id
           p == [status |-> "submitting", side |-> job[w].side, amount |-> job[w].amount,
                 filled |-> 0]
           j == [job[w] EXCEPT !.pc = "submit", !.snap = NoSnap, !.side = "none", !.amount = 0]
<1>1. /\ job[w].pc = "reserve" /\ active /\ ~Decided(w) /\ job[w].side # "hold"
      /\ Unresolved = {} /\ ~PositionsFull(w) /\ Decide(w)
      /\ UNCHANGED <<bots, position, active, venue, candle, sends, holder>>
  BY DEF ReserveOrder, MayReserve, RiskRefuses, OrderOutstanding, world
<1>2. /\ i \in Ids /\ i[1] = b /\ b \in Bots
      /\ job[w].side \in {"buy", "sell"} /\ job[w].amount > 0 /\ WholeLots(job[w].amount)
      /\ job[w].amount \in Nat
  BY <1>1, WorkerKnows DEF JobOK, WithOrder, Job
<1>3. /\ Types /\ orders \in [Ids -> OrderRow] /\ venue \in [Ids -> Remote]
      /\ OrdersOK /\ decisions \in [Bots -> SUBSET Keys]
  BY DEF AccountInv, Types
<1>4. orders[i] = NoOrder /\ venue[i] = NoRemote /\ sends[i] = 0 /\ orders[i].status = "none"
  <2>1. orders[i].status = "none"
    BY <1>1, <1>2, <1>3 DEF Decided, OrdersOK
  <2> QED BY <1>2, <1>3, <2>1 DEF OrdersOK, OrderOK
<1>5. orders' = [orders EXCEPT ![i] = p]
  BY DEF ReserveOrder
<1>6. job' = [job EXCEPT ![w] = j]
  BY <1>3 DEF ReserveOrder, Types
<1>7. p \in OrderRow /\ p.status = "submitting" /\ p.filled = 0
      /\ p.side = job[w].side /\ p.amount = job[w].amount
  BY <1>2 DEF OrderRow, Active
<1>8. j \in Job /\ j.pc = "submit" /\ j.bot = b /\ j.id = i
  <2>1. NoSnap \in Snap
    BY DEF NoSnap, Snap
  <2> QED BY <2>1, WorkerKnows DEF Job, Step
<1> HIDE DEF p, j
<1>9. /\ orders' \in [Ids -> OrderRow] /\ orders'[i] = p
      /\ \A k \in Ids \ {i} : orders'[k] = orders[k]
  BY <1>2, <1>3, <1>5, <1>7
<1>10. /\ decisions' \in [Bots -> SUBSET Keys] /\ i[2] \in decisions'[i[1]]
       /\ \A c \in Bots : decisions[c] \subseteq decisions'[c]
  BY <1>1, <1>2, <1>3, DecideAdds DEF Decide
<1>11. /\ job' \in [Workers -> Job]
       /\ \A v \in Workers : JobOK(job'[v], orders', venue')
       /\ SubmittersDiffer'
  <2>1. venue' = [venue EXCEPT ![i] = venue[i]] /\ venue' \in [Ids -> Remote]
    BY <1>1, <1>3
  <2>2. GoesOn(orders[i], venue[i], p, venue[i])
    BY <1>2, <1>3, <1>4 DEF GoesOn, Remote
  <2>3. \A k \in Ids : GoesOn(orders[k], venue[k], orders'[k], venue'[k])
    BY <1>2, <1>3, <1>5, <2>1, <2>2, OthersGoOn
  <2>4. JobOK(j, orders', venue')
    BY <1>1, <1>2, <1>4, <1>7, <1>8, <1>9 DEF JobOK, WithOrder, NoRemote, Active
  <2>5. ASSUME NEW v \in Workers \ {w}, job[v].pc = "submit"
        PROVE  /\ venue'[job[v].id].status = "unsent" /\ orders'[job[v].id].status \in Active
               /\ j.pc = "submit" => job[v].id # j.id
    <3>1. /\ job[v].id \in Ids /\ venue[job[v].id].status = "unsent"
          /\ orders[job[v].id].status \in Active
      BY <2>5, WorkerKnows DEF JobOK, WithOrder
    <3>2. job[v].id # i
      BY <1>4, <3>1 DEF Active
    <3> QED BY <1>1, <1>8, <1>9, <3>1, <3>2
  <2> QED BY <1>6, <1>8, <2>1, <2>3, <2>4, <2>5, WorkerStep DEF AccountInv
<1>12. Types'
  BY <1>1, <1>3, <1>9, <1>10, <1>11 DEF Types
<1>13. \A c \in Bots : BotOK(bots[c])'
  BY <1>1 DEF AccountInv, BotOK
<1>14. OrdersOK'
  <2>1. OrderOK(p, venue[i], sends[i])
    BY <1>2, <1>4, <1>7, NoLots DEF OrderOK, NoRemote, Answered, Final, Terminal
  <2>2. ASSUME NEW k \in Ids
        PROVE  /\ OrderOK(orders'[k], venue'[k], sends'[k])
               /\ orders'[k].status # "none" => k[2] \in decisions'[k[1]]
    <3>1. k[1] \in Bots
      BY DEF Ids
    <3> QED BY <1>1, <1>3, <1>9, <1>10, <2>1, <3>1 DEF OrdersOK
  <2> QED BY <2>2 DEF OrdersOK, OrderOK
<1>15. \A v \in Workers : JobOK(job[v], orders, venue)'
  BY <1>11 DEF JobOK
<1>16. OneUnresolved'
  <2>1. Unresolved' \subseteq {i}
    BY <1>1, <1>9 DEF Unresolved
  <2> QED BY <2>1 DEF OneUnresolved
<1>17. PositionMatchesFills'
  BY <1>1, <1>2, <1>4, <1>5, <1>7, NewOrderAddsNothing
<1>18. HoldingBounded'
  <2> DEFINE H == {c \in Bots : position[c] > 0}
  <2>1. Holding = H /\ \A k \in Ids : ~Pending(orders[k], venue[k])
    BY <1>1, NothingPending
  <2>2. IsFiniteSet(H) /\ Cardinality(H) \in Nat /\ Cardinality(H) <= MaxPositions
    BY <2>1, IdsFinite, FS_Subset, FS_CardinalityType DEF AccountInv, HoldingBounded
  <2>3. ASSUME NEW c \in Bots, Buying(c)'
        PROVE  c = b /\ p.side = "buy"
    <3>1. PICK k \in Ids : k[1] = c /\ orders'[k].side = "buy" /\ Pending(orders'[k], venue'[k])
      BY <2>3 DEF Buying, Pending
    <3>2. k = i
      BY <1>1, <1>9, <2>1, <3>1
    <3> QED BY <1>2, <1>9, <3>1, <3>2
  <2>4. CASE job[w].side = "buy"
    <3>1. Cardinality(H) < MaxPositions
      BY <1>1, <2>2, <2>4, BoundsAssumption DEF PositionsFull
    <3>2. Holding' \subseteq H \cup {b}
      BY <1>1, <2>3 DEF Holding
    <3> HIDE DEF H, b
    <3>3. IsFiniteSet(H \cup {b}) /\ Cardinality(H \cup {b}) <= Cardinality(H) + 1
      <4>1. CASE b \in H
        <5>1. H \cup {b} = H
          BY <4>1
        <5> QED BY <2>2, <5>1
      <4>2. CASE b \notin H
        <5>1. IsFiniteSet(H \cup {b}) /\ Cardinality(H \cup {b}) = Cardinality(H) + 1
          BY <2>2, <4>2, FS_AddElement
        <5> QED BY <2>2, <5>1
      <4> QED BY <4>1, <4>2
    <3>4. /\ Cardinality(Holding') <= Cardinality(H \cup {b})
          /\ Cardinality(Holding') \in Nat /\ Cardinality(H \cup {b}) \in Nat
      BY <3>2, <3>3, FS_Subset, FS_CardinalityType
    <3> QED BY <2>2, <3>1, <3>3, <3>4, BoundsAssumption DEF HoldingBounded
  <2>5. CASE job[w].side # "buy"
    <3>1. Holding' \subseteq H
      BY <1>1, <1>7, <2>3, <2>5 DEF Holding
    <3> HIDE DEF H
    <3>2. Cardinality(Holding') <= Cardinality(H) /\ Cardinality(Holding') \in Nat
      BY <2>2, <3>1, FS_Subset, FS_CardinalityType
    <3> QED BY <2>2, <3>2, BoundsAssumption DEF HoldingBounded
  <2> QED BY <2>4, <2>5
<1>19. QuietWhenInactive'
  BY <1>1 DEF QuietWhenInactive
<1> QED BY <1>11, <1>12, <1>13, <1>14, <1>15, <1>16, <1>17, <1>18, <1>19 DEF AccountInv

-----------------------------------------------------------------------------
(***************************************************************************)
(* The API and the clock.                                                  *)
(***************************************************************************)
LEMMA ChangedIsBot ==
  ASSUME NEW bot \in Bot, bot.revision < MaxRevision, NEW state \in BotState
  PROVE  /\ Changed(bot, state) \in Bot /\ BotOK(Changed(bot, state))
         /\ Changed(bot, state).revision = bot.revision + 1
         /\ Changed(bot, state).state = state
         /\ Changed(bot, state).close = bot.close
<1> DEFINE c == [bot EXCEPT !.state = state, !.revision = @ + 1, !.failures = 0]
<1>1. bot.revision + 1 \in 1 .. MaxRevision + 1 /\ bot.revision + 1 <= MaxRevision
  BY BoundsAssumption DEF Bot
<1>2. 0 \in 0 .. FailureLimit
  BY BoundsAssumption
<1>3. c \in Bot /\ c.revision = bot.revision + 1 /\ c.state = state /\ c.close = bot.close
  BY <1>1, <1>2 DEF Bot
<1>4. Changed(bot, state) = c
  BY DEF Changed
<1> HIDE DEF c
<1> QED BY <1>1, <1>3, <1>4 DEF BotOK

LEMMA ApiSafe ==
  ASSUME AccountInv, NEW b \in Bots, Start(b) \/ Reset(b) \/ Stop(b) \/ Update(b) \/ Close(b)
  PROVE  AccountInv'
<1> DEFINE old == bots[b]
<1>1. active /\ old.revision < MaxRevision
  BY DEF Start, Reset, Stop, Update, Close, MayChange
<1>2. old \in Bot /\ bots \in [Bots -> Bot]
  BY DEF AccountInv, Types
<1>3. ASSUME NEW bot \in Bot, BotOK(bot), ApiChanges(b, bot)
      PROVE  AccountInv'
  <2>1. /\ bots' = [bots EXCEPT ![b] = bot]
        /\ UNCHANGED <<position, decisions, orders, active, venue, candle, sends, job, holder>>
    BY <1>3 DEF ApiChanges, world
  <2>2. decisions' \in [Bots -> SUBSET Keys] /\ \A c \in Bots : decisions[c] \subseteq decisions'[c]
    BY <2>1 DEF AccountInv, Types
  <2> QED BY <1>1, <1>3, <2>1, <2>2, BotRow
<1> HIDE DEF old
<1>4. ASSUME NEW state \in BotState, ApiChanges(b, Changed(old, state))
      PROVE  AccountInv'
  BY <1>1, <1>2, <1>3, <1>4, ChangedIsBot
<1>5. CASE Start(b)
  BY <1>4, <1>5 DEF Start, BotState, old
<1>6. CASE Reset(b)
  BY <1>4, <1>6 DEF Reset, BotState, old
<1>7. CASE Stop(b)
  BY <1>4, <1>7 DEF Stop, StopTarget, BotState, old
<1>8. CASE Update(b)
  <2> DEFINE bot == [old EXCEPT !.revision = @ + 1]
  <2>1. bot \in Bot /\ BotOK(bot)
    BY <1>1, <1>2, BoundsAssumption DEF Bot, BotOK
  <2>2. ApiChanges(b, bot)
    BY <1>8 DEF Update, old
  <2> HIDE DEF bot
  <2> QED BY <1>3, <2>1, <2>2
<1>9. CASE Close(b)
  <2> DEFINE bot == [old EXCEPT !.close = TRUE, !.revision = @ + 1]
  <2>0. old.revision + 1 \in 1 .. MaxRevision + 1 /\ old.revision + 1 <= MaxRevision
    BY <1>1, <1>2, BoundsAssumption DEF Bot
  <2>1. bot \in Bot /\ BotOK(bot)
    BY <1>2, <2>0 DEF Bot, BotOK
  <2>2. ApiChanges(b, bot)
    BY <1>9 DEF Close, old
  <2> HIDE DEF bot
  <2> QED BY <1>3, <2>1, <2>2
<1> QED BY <1>5, <1>6, <1>7, <1>8, <1>9

LEMMA OutsideSafe ==
  ASSUME AccountInv, NextCandle \/ (\E value \in BOOLEAN : SetActive(value)) \/ UNCHANGED vars
  PROVE  AccountInv'
<1>1. UNCHANGED <<bots, position, decisions, orders, venue, sends, holder, job>>
  BY DEF NextCandle, SetActive, vars, db, world
<1>2. /\ active \in BOOLEAN /\ candle \in 1 .. MaxCandle /\ holder \in Workers \cup {NoOne}
      /\ bots \in [Bots -> Bot] /\ decisions \in [Bots -> SUBSET Keys]
      /\ job \in [Workers -> Job] /\ \A b \in Bots : BotOK(bots[b])
      /\ \A v \in Workers : JobOK(job[v], orders, venue)
      /\ SubmittersDiffer
  BY DEF AccountInv, Types
<1>3. candle' \in 1 .. MaxCandle
  BY <1>2, BoundsAssumption DEF NextCandle, SetActive, world, vars
<1>4. active' \in BOOLEAN
  BY <1>2 DEF NextCandle, SetActive, db, vars
<1>5. ~active' => Unresolved = {} /\ \A b \in Bots : bots'[b].state \in {"stopped", "error"}
  <2>1. CASE active' = active
    BY <1>1, <2>1 DEF AccountInv, QuietWhenInactive
  <2>2. CASE active' # active
    <3>1. PICK value \in BOOLEAN : SetActive(value)
      BY <2>2 DEF NextCandle, db, vars
    <3>2. ~active' => Quiet
      BY <3>1 DEF SetActive
    <3>3. ASSUME NEW b \in Bots, bots[b].state \notin {"running", "stopping"}
          PROVE  bots'[b].state \in {"stopped", "error"}
      <4>1. bots[b].state \in BotState /\ bots'[b] = bots[b]
        BY <1>1, <1>2 DEF Bot
      <4> QED BY <3>3, <4>1 DEF BotState
    <3> QED BY <3>2, <3>3 DEF Quiet, NobodyRuns
  <2> QED BY <2>1, <2>2
<1>6. SubmittersDiffer'
  BY <1>1, <1>2 DEF SubmittersDiffer
<1>7. /\ bots' \in [Bots -> Bot] /\ (\A b \in Bots : BotOK(bots'[b]))
      /\ decisions' \in [Bots -> SUBSET Keys]
      /\ (\A b \in Bots : decisions[b] \subseteq decisions'[b])
      /\ holder' \in Workers \cup {NoOne}
      /\ job' \in [Workers -> Job] /\ \A v \in Workers : JobOK(job'[v], orders', venue')
  BY <1>1, <1>2
<1> QED BY <1>1, <1>3, <1>4, <1>5, <1>6, <1>7, Unbooked

LEMMA InitSafe ==
  ASSUME Init
  PROVE  AccountInv
<1>1. Types
  <2>1. NoOrder \in OrderRow /\ NoRemote \in Remote
    BY DEF NoOrder, OrderRow, NoRemote, Remote, VenueStatus
  <2>2. [state |-> "stopped", revision |-> 1, failures |-> 0, close |-> FALSE] \in Bot
    BY BoundsAssumption DEF Bot, BotState
  <2>3. 1 \in 1 .. MaxCandle
    BY BoundsAssumption
  <2> QED BY <2>1, <2>2, <2>3, IdleIsJob DEF Init, Types
<1>2. \A b \in Bots : BotOK(bots[b])
  BY DEF Init, BotOK
<1>3. OrdersOK
  BY NoLots DEF Init, OrdersOK, OrderOK, NoOrder, NoRemote, Answered, Final, Terminal
<1>4. \A w \in Workers : JobOK(job[w], orders, venue)
  BY DEF Init, Idle, JobOK, WithOrder
<1>5. SubmittersDiffer
  BY DEF Init, Idle, SubmittersDiffer
<1>6. Unresolved = {}
  BY DEF Init, Unresolved, NoOrder, Active
<1>7. OneUnresolved /\ QuietWhenInactive
  BY <1>6 DEF Init, OneUnresolved, QuietWhenInactive
<1>8. PositionMatchesFills
  <2>1. \A b \in Bots : SideOf(b, "sell") = {} /\ SideOf(b, "buy") = {}
    BY DEF Init, SideOf, OrdersOf, NoOrder
  <2>2. ASSUME NEW b \in Bots, NEW f, NEW g
        PROVE  position[b] + Total(SideOf(b, "sell"), f) = Total(SideOf(b, "buy"), g)
    <3>1. Total({}, f) = 0 /\ Total({}, g) = 0 /\ position[b] = 0
      BY TotalEmpty DEF Init
    <3> QED BY <2>1, <3>1
  <2> QED BY <2>2 DEF PositionMatchesFills
<1>9. HoldingBounded
  <2>1. Holding = {}
    BY DEF Init, Holding, Buying, NoOrder
  <2> QED BY <2>1, FS_EmptySet, BoundsAssumption DEF HoldingBounded
<1> QED BY <1>1, <1>2, <1>3, <1>4, <1>5, <1>7, <1>8, <1>9 DEF AccountInv

LEMMA NextSafe ==
  ASSUME AccountInv, [Next]_vars
  PROVE  AccountInv'
<1>1. CASE NextCandle \/ UNCHANGED vars
  BY <1>1, OutsideSafe
<1>2. ASSUME NEW w \in Workers, NEW b \in Bots, Poll(w, b)
      PROVE  AccountInv'
  BY <1>2, PollSafe
<1>3. ASSUME NEW w \in Workers, Serve(w)
      PROVE  AccountInv'
  BY <1>3, LockSafe, LoadSafe, OutstandingSafe, FailureSafe, NothingOutstandingSafe,
     FinishStopSafe, DecideExitSafe, ClearCloseSafe, DecidePredictionSafe, ReserveNothingSafe,
     RefuseOrderSafe, ReserveOrderSafe, SubmitSafe, AnswerSafe, RecordRejectionSafe, LookupSafe,
     CancelSafe, ReconcileSafe, ApplySafe, MarkUnknownSafe, RecordFailureSafe DEF Serve
<1>4. ASSUME NEW w \in Workers, Misfortune(w)
      PROVE  AccountInv'
  BY <1>4, AnswerSafe, ReconcileSafe, ApplySafe, FailureSafe DEF Misfortune
<1>5. CASE Api
  BY <1>5, ApiSafe, OutsideSafe DEF Api
<1>6. ASSUME NEW i \in Ids, Exchange(i) \/ Lose(i)
      PROVE  AccountInv'
  BY <1>6, ExchangeSafe
<1> QED BY <1>1, <1>2, <1>3, <1>4, <1>5, <1>6 DEF Next

-----------------------------------------------------------------------------
(***************************************************************************)
(* The theorems that hold whatever happens, a lost lock included.          *)
(***************************************************************************)

\* The invariant is inductive: every step of every worker, of the API and of
\* the exchange preserves it, through every fault (sandbox.py, service.py).
THEOREM AccountInvariance == Spec => []AccountInv
<1>1. Init => AccountInv
  BY InitSafe
<1>2. AccountInv /\ [Next]_vars => AccountInv'
  BY NextSafe
<1> QED BY <1>1, <1>2, PTL DEF Spec

\* No order reaches the exchange twice: an order that was sent is not an order
\* that a worker is about to submit (sandbox.py:31-32 and 146-151).
THEOREM NeverResubmitted == Spec => []SubmittedOnce
<1>1. AccountInv => SubmittedOnce
  BY DEF AccountInv, OrdersOK, OrderOK, SubmittedOnce
<1> QED BY <1>1, AccountInvariance, PTL

\* What the exchange may still trade on is unresolved in the database.
LEMMA LiveIsPending ==
  ASSUME AccountInv, NEW i \in Ids, Live(i)
  PROVE  Pending(orders[i], venue[i]) /\ i \in Unresolved
<1>1. orders[i].status # "none" /\ venue[i].status \in Unanswered
  <2>1. CASE AboutToSubmit(i)
    <3>1. PICK w \in Workers : job[w].pc = "submit" /\ job[w].id = i
      BY <2>1 DEF AboutToSubmit
    <3> QED BY <3>1, WorkerKnows DEF JobOK, WithOrder, Unanswered
  <2>2. CASE venue[i].status \in {"sent", "NEW"}
    BY <2>2, OrderKnown, AtTheExchange DEF Unanswered
  <2> QED BY <2>1, <2>2 DEF Live
<1>2. Pending(orders[i], venue[i])
  BY <1>1 DEF Pending
<1> QED BY <1>2, OrderKnown, PendingIsActive DEF Unresolved

\* One order at a time may trade on the account (index
\* sandbox_one_unresolved_order, sandbox.py:172).
THEOREM OneAtATime == Spec => []OneLiveOrder
<1> DEFINE L == {i \in Ids : Live(i)}
<1>1. ASSUME AccountInv
      PROVE  Cardinality(L) <= 1
  <2>1. ASSUME NEW i \in L, NEW k \in L
        PROVE  i = k
    <3>1. i \in Unresolved /\ k \in Unresolved
      BY <1>1, LiveIsPending
    <3> QED BY <1>1, <3>1 DEF AccountInv, OneUnresolved
  <2> HIDE DEF L
  <2>2. CASE L = {}
    BY <2>2, FS_EmptySet
  <2>3. CASE L # {}
    <3>1. PICK i : L = {i}
      BY <2>1, <2>3
    <3>2. Cardinality({i}) = 1
      BY FS_Singleton
    <3> QED BY <3>1, <3>2
  <2> QED BY <2>2, <2>3
<1>2. AccountInv => OneLiveOrder
  BY <1>1 DEF OneLiveOrder
<1> QED BY <1>2, AccountInvariance, PTL

\* The books are the exchange's: a settled order cannot trade and is booked in
\* full, and the position is what the fills add up to (sandbox.py:190-282).
THEOREM BooksAreTheExchanges == Spec => []BooksMatchExchange
<1>1. ASSUME AccountInv
      PROVE  SettledIsFinal
  <2> SUFFICES ASSUME NEW i \in Ids, orders[i].status \in Terminal
               PROVE  ~Live(i) /\ orders[i].filled = venue[i].filled
    BY DEF SettledIsFinal
  <2>1. i \notin Unresolved
    BY DEF Unresolved, Active, Terminal
  <2>2. ~Live(i)
    BY <1>1, <2>1, LiveIsPending
  <2>3. orders[i].filled = venue[i].filled
    BY <1>1, OrderKnown DEF OrderOK
  <2> QED BY <2>2, <2>3
<1>2. AccountInv => BooksMatchExchange
  BY <1>1 DEF AccountInv, BooksMatchExchange
<1> QED BY <1>2, AccountInvariance, PTL

\* A deactivated user's bots neither run nor trade (admin/repository.py:81-86,
\* trading/repository.py:94-96).
THEOREM DeactivationIsQuiet == Spec => []InactiveIsQuiet
<1>1. AccountInv => InactiveIsQuiet
  BY LiveIsPending DEF AccountInv, QuietWhenInactive, InactiveIsQuiet
<1> QED BY <1>1, AccountInvariance, PTL

\* Fills that the exchange has count as much in the position, once booked.
LEMMA UnheldIsEven ==
  ASSUME AccountInv, NEW b \in Bots, b \notin Holding
  PROVE  BoughtNet(b) <= Sold(b)
<1> DEFINE S == SideOf(b, "sell")
           B == SideOf(b, "buy")
           F == [k \in Ids |-> orders[k].filled]
           NF == [k \in Ids |-> Net(orders[k].filled)]
           V == [k \in Ids |-> venue[k].filled]
           NV == [k \in Ids |-> Net(venue[k].filled)]
<1>1. S \subseteq Ids /\ B \subseteq Ids /\ IsFiniteSet(S) /\ IsFiniteSet(B)
  <2>1. S \subseteq Ids /\ B \subseteq Ids
    BY DEF SideOf, OrdersOf
  <2> QED BY <2>1, IdsFinite, FS_Subset
<1>2. position[b] = 0 /\ \A k \in B : orders[k].filled = venue[k].filled
  <2>1. position[b] \in Nat /\ ~Buying(b) /\ position[b] = 0
    BY DEF Holding, AccountInv, Types
  <2> QED BY <2>1 DEF SideOf, OrdersOf, Buying, Pending
<1>3. \A k \in B : NF[k] = NV[k]
  BY <1>1, <1>2
<1>4. \A k \in Ids : F[k] \in Nat /\ V[k] \in Nat /\ F[k] <= V[k]
  BY OrderKnown DEF OrderRow, Remote, OrderOK
<1>5. position[b] + Total(S, F) = Total(B, NF)
  BY DEF AccountInv, PositionMatchesFills
<1> HIDE DEF F, NF, V, NV, S, B
<1>6. Total(B, NV) = Total(B, NF)
  BY <1>3, TotalSame
<1>7. Total(S, F) <= Total(S, V) /\ Total(S, F) \in Nat
  BY <1>1, <1>4, TotalMonotone, TotalNat
<1>8. Total(B, NV) <= Total(S, V)
  BY <1>2, <1>5, <1>6, <1>7
<1> QED BY <1>8 DEF BoughtNet, Sold, B, S, V, NV

\* No more than max_open_positions symbols are held or being bought, although
\* each bot decides on its own (sandbox.py:182-185).
THEOREM PositionsLimited == Spec => []PositionsBounded
<1> DEFINE P == {b \in Bots : \/ BoughtNet(b) > Sold(b)
                             \/ \E i \in SideOf(b, "buy") : Live(i)}
<1>1. ASSUME AccountInv
      PROVE  Cardinality(P) <= MaxPositions
  <2>1. ASSUME NEW b \in Bots, NEW i \in SideOf(b, "buy"), Live(i)
        PROVE  b \in Holding
    BY <1>1, <2>1, LiveIsPending DEF SideOf, OrdersOf, Holding, Buying
  <2>2. ASSUME NEW b \in Bots, BoughtNet(b) > Sold(b)
        PROVE  b \in Holding
    <3>1. BoughtNet(b) \in Nat /\ Sold(b) \in Nat
      <4> DEFINE V == [k \in Ids |-> venue[k].filled]
                 NV == [k \in Ids |-> Net(venue[k].filled)]
      <4>1. \A k \in Ids : V[k] \in Nat /\ NV[k] \in Nat
        BY <1>1, OrderKnown, NetOfLots DEF Remote, OrderOK
      <4>2. /\ SideOf(b, "buy") \subseteq Ids /\ SideOf(b, "sell") \subseteq Ids
        BY DEF SideOf, OrdersOf
      <4>3. IsFiniteSet(SideOf(b, "buy")) /\ IsFiniteSet(SideOf(b, "sell"))
        BY <4>2, IdsFinite, FS_Subset
      <4> HIDE DEF V, NV
      <4>4. Total(SideOf(b, "buy"), NV) \in Nat /\ Total(SideOf(b, "sell"), V) \in Nat
        BY <4>1, <4>2, <4>3, TotalNat
      <4> QED BY <4>4 DEF BoughtNet, Sold, V, NV
    <3> QED BY <1>1, <2>2, <3>1, UnheldIsEven
  <2>3. P \subseteq Holding
    BY <2>1, <2>2
  <2>4. IsFiniteSet(Holding) /\ Cardinality(Holding) <= MaxPositions
    BY <1>1, IdsFinite, FS_Subset DEF Holding, AccountInv, HoldingBounded
  <2> HIDE DEF P
  <2>5. /\ Cardinality(P) <= Cardinality(Holding)
        /\ Cardinality(P) \in Nat /\ Cardinality(Holding) \in Nat
    BY <2>3, <2>4, FS_Subset, FS_CardinalityType
  <2> QED BY <2>4, <2>5, BoundsAssumption
<1>2. AccountInv => PositionsBounded
  BY <1>1 DEF PositionsBounded
<1> QED BY <1>2, AccountInvariance, PTL

-----------------------------------------------------------------------------
(***************************************************************************)
(* While the lock is kept: one worker at a time is at work on the account. *)
(***************************************************************************)

\* What a worker that holds no lock believes is never used.
LEMMA UnlockedIsOK ==
  ASSUME NEW j, ~Locked(j.pc), NEW botRows, NEW held, NEW rows
  PROVE  LockedOK(j, botRows, held, rows) /\ j.pc # "submit"
BY DEF Locked, LockedOK, WithOrder, Undecided

LEMMA AloneAtWork ==
  ASSUME LockInv, NEW w \in Workers, Locked(job[w].pc)
  PROVE  holder = w /\ \A v \in Workers \ {w} : ~Locked(job[v].pc)
BY DEF LockInv, LockHeld

\* The parts of the invariant that are about workers.
WorkersLocked ==
  /\ LockHeld
  /\ \A w \in Workers : LockedOK(job[w], bots, position, orders)

NoNewSubmitter ==
  \A v \in Workers : job'[v].pc = "submit" => job[v].pc = "submit" /\ job'[v].id = job[v].id

\* The worker at work goes on.
LEMMA KeepsLock ==
  ASSUME LockInv, NEW w \in Workers, Locked(job[w].pc), NEW j,
         job' = [job EXCEPT ![w] = j], UNCHANGED holder,
         Locked(j.pc), LockedOK(j, bots', position', orders')
  PROVE  WorkersLocked' /\ (j.pc # "submit" => NoNewSubmitter)
<1>1. holder = w /\ (\A v \in Workers \ {w} : ~Locked(job[v].pc)) /\ holder \in Workers
  BY AloneAtWork
<1>2. job'[w] = j /\ \A v \in Workers \ {w} : job'[v] = job[v]
  BY DEF LockInv, AccountInv, Types
<1>3. \A v \in Workers : holder' = v <=> Locked(job'[v].pc)
  BY <1>1, <1>2
<1>4. ASSUME NEW v \in Workers
      PROVE  LockedOK(job'[v], bots', position', orders')
  BY <1>1, <1>2, UnlockedIsOK
<1>5. WorkersLocked'
  BY <1>3, <1>4 DEF WorkersLocked, LockHeld, Locked, LockedOK, SnapOK
<1>6. j.pc # "submit" => NoNewSubmitter
  BY <1>2 DEF NoNewSubmitter
<1> QED BY <1>5, <1>6

\* The worker at work leaves run(), and nobody is at work.
LEMMA Released ==
  ASSUME LockInv, NEW w \in Workers, Locked(job[w].pc), NEW j,
         job' = [job EXCEPT ![w] = j], ~Locked(j.pc), holder' = NoOne
  PROVE  WorkersLocked' /\ NoNewSubmitter /\ \A v \in Workers : ~Locked(job'[v].pc)
<1>1. \A v \in Workers \ {w} : ~Locked(job[v].pc)
  BY AloneAtWork
<1>3. job'[w] = j /\ \A v \in Workers \ {w} : job'[v] = job[v]
  BY DEF LockInv, AccountInv, Types
<1>4. \A v \in Workers : ~Locked(job'[v].pc)
  BY <1>1, <1>3
<1>5. \A v \in Workers : v # holder'
  BY BoundsAssumption
<1>6. LockHeld'
  BY <1>4, <1>5 DEF LockHeld, Locked
<1>7. ASSUME NEW v \in Workers
      PROVE  LockedOK(job'[v], bots', position', orders') /\ job'[v].pc # "submit"
  BY <1>4, UnlockedIsOK
<1>8. WorkersLocked'
  BY <1>6, <1>7 DEF WorkersLocked, LockedOK, SnapOK
<1>9. NoNewSubmitter
  BY <1>7 DEF NoNewSubmitter
<1> QED BY <1>4, <1>8, <1>9

\* With the lock in hand, run() returns or raises and releases it.
LEMMA FinishReleases ==
  ASSUME LockInv, NEW w \in Workers, Locked(job[w].pc), Finish(w) \/ Raise(w)
  PROVE  WorkersLocked' /\ NoNewSubmitter /\ \A v \in Workers : ~Locked(job'[v].pc)
<1>1. holder = w
  BY AloneAtWork
<1>2. job \in [Workers -> Job]
  BY DEF LockInv, AccountInv, Types
<1> DEFINE f == [Idle EXCEPT !.pc = "failing", !.bot = job[w].bot, !.revision = job[w].revision]
<1>3. /\ holder' = NoOne
      /\ job' = [job EXCEPT ![w] = Idle] \/ job' = [job EXCEPT ![w] = f]
  BY <1>1 DEF Finish, Raise, Unlock
<1>4. ~Locked(Idle.pc) /\ ~Locked(f.pc)
  BY DEF Idle, Locked
<1> HIDE DEF f
<1> QED BY <1>3, <1>4, Released

\* The invariant after a step that books no fill: nothing else becomes pending
\* or live, and a bot stops only when it has no live purchase.
LEMMA Unfilled ==
  ASSUME LockInv, AccountInv', WorkersLocked', UNCHANGED position,
         \A k \in Ids : /\ orders'[k].status = "none" <=> orders[k].status = "none"
                        /\ orders'[k].side = orders[k].side
                        /\ orders'[k].amount = orders[k].amount
                        /\ orders'[k].filled = orders[k].filled
                        /\ Pending(orders'[k], venue'[k]) => Pending(orders[k], venue[k])
                        /\ Live(k)' => Live(k),
         \A b \in Bots : bots'[b].state = "stopped" =>
           \/ bots[b].state = "stopped"
           \/ \A k \in SideOf(b, "buy") : ~Live(k)'
  PROVE  LockInv'
<1>1. ASSUME NEW k \in Ids
      PROVE  Backed(orders'[k], venue'[k], position'[k[1]])
  BY DEF LockInv, Backed
<1>2. \A k \in Ids : Backed(orders[k], venue[k], position[k[1]])'
  BY <1>1 DEF Backed, Pending, Net
<1>3. \A b \in Bots : (position[b] <= OrderAmount)'
  BY DEF LockInv
<1>4. \A b \in Bots : SideOf(b, "buy")' = SideOf(b, "buy")
  BY DEF SideOf, OrdersOf
<1>5. \A b \in Bots : SideOf(b, "buy") \subseteq Ids
  BY DEF SideOf, OrdersOf
<1>6. ASSUME NEW b \in Bots, bots'[b].state = "stopped", NEW k \in SideOf(b, "buy")
      PROVE  ~Live(k)'
  BY <1>5, <1>6 DEF LockInv, StoppedNeverBuys
<1>7. StoppedNeverBuys'
  BY <1>4, <1>6 DEF StoppedNeverBuys
<1> QED BY <1>2, <1>3, <1>7 DEF LockInv, WorkersLocked

\* Nothing becomes live when the exchange does nothing and nobody new submits.
LEMMA LiveFalls ==
  ASSUME NoNewSubmitter, NEW k, venue'[k] = venue[k], Live(k)'
  PROVE  Live(k)
BY DEF NoNewSubmitter, Live, AboutToSubmit

\* A step that changes neither orders nor positions nor the exchange.
LEMMA NothingTraded ==
  ASSUME LockInv, AccountInv', WorkersLocked', NoNewSubmitter,
         UNCHANGED <<position, orders, venue>>,
         \A b \in Bots : bots'[b].state = "stopped" =>
           bots[b].state = "stopped" \/ UnresolvedOf(b) = {}
  PROVE  LockInv'
<1>1. \A k \in Ids : Live(k)' => Live(k)
  BY LiveFalls
<1>2. ASSUME NEW b \in Bots, bots'[b].state = "stopped"
      PROVE  \/ bots[b].state = "stopped"
             \/ \A k \in SideOf(b, "buy") : ~Live(k)'
  <2> SUFFICES ASSUME UnresolvedOf(b) = {}, NEW k \in SideOf(b, "buy")
               PROVE  ~Live(k)'
    BY <1>2
  <2>1. k \in Ids /\ k[1] = b
    BY DEF SideOf, OrdersOf
  <2>2. ~Live(k)
    BY <2>1, LiveIsPending DEF LockInv, UnresolvedOf
  <2> QED BY <1>1, <2>1, <2>2
<1>3. ASSUME NEW k \in Ids
      PROVE  /\ orders'[k].status = "none" <=> orders[k].status = "none"
             /\ orders'[k].side = orders[k].side
             /\ orders'[k].amount = orders[k].amount
             /\ orders'[k].filled = orders[k].filled
             /\ Pending(orders'[k], venue'[k]) => Pending(orders[k], venue[k])
             /\ Live(k)' => Live(k)
  BY <1>1
<1>4. UNCHANGED position
  OBVIOUS
<1> QED BY <1>2, <1>3, <1>4, Unfilled

\* The worker at work goes on, and has only read something.
LEMMA OnlyReads ==
  ASSUME LockInv, AccountInv', NEW w \in Workers, Locked(job[w].pc), NEW j,
         job' = [job EXCEPT ![w] = j], UNCHANGED holder, UNCHANGED <<db, venue>>,
         Locked(j.pc), j.pc # "submit", LockedOK(j, bots, position, orders)
  PROVE  LockInv'
<1>1. UNCHANGED <<bots, position, orders, venue>>
  BY DEF db
<1>2. WorkersLocked' /\ NoNewSubmitter
  BY <1>1, KeepsLock
<1> QED BY <1>1, <1>2, NothingTraded

\* The worker at work leaves run(), and has changed at most a bot's row.
LEMMA OnlyLeaves ==
  ASSUME LockInv, AccountInv', NEW w \in Workers, Locked(job[w].pc), Finish(w) \/ Raise(w),
         UNCHANGED <<position, orders, venue>>,
         \A b \in Bots : bots'[b].state = "stopped" =>
           bots[b].state = "stopped" \/ UnresolvedOf(b) = {}
  PROVE  LockInv'
BY FinishReleases, NothingTraded

-----------------------------------------------------------------------------
(***************************************************************************)
(* The steps that trade nothing, while the lock is kept.                   *)
(***************************************************************************)

\* What LockInv says of one worker, for use with the lemmas on AccountInv.
LEMMA LockedKnows ==
  ASSUME LockInv, NEW w \in Workers
  PROVE  /\ AccountInv /\ Types /\ job \in [Workers -> Job] /\ job[w] \in Job
         /\ LockedOK(job[w], bots, position, orders)
         /\ job[w].pc # "idle" => job[w].bot \in Bots
         /\ job[w].pc \in WithOrder => job[w].id \in Ids
BY WorkerKnows, WorkerHasOrder DEF LockInv, Types

\* A bot's row that gets a new revision, or fewer wishes, leaves snapshots good.
LEMMA SnapsStay ==
  ASSUME LockInv, NEW v \in Workers, UNCHANGED <<position, orders>>, bots' \in [Bots -> Bot],
         \A c \in Bots : \/ bots[c].revision < bots'[c].revision
                         \/ /\ bots[c].revision = bots'[c].revision
                            /\ bots'[c].close => bots[c].close
  PROVE  LockedOK(job[v], bots', position', orders')
<1> DEFINE j == job[v]
<1>1. /\ LockedOK(j, bots, position, orders) /\ j \in Job
      /\ j.pc \in Undecided => j.bot \in Bots
  BY LockedKnows DEF Undecided
<1>2. \A c \in Bots : bots[c].revision \in Nat /\ bots'[c].revision \in Nat
  BY LockedKnows DEF Types, Bot, LockInv, AccountInv
<1>3. j.snap.revision \in Nat
  BY <1>1 DEF Job, Snap
<1> HIDE DEF j
<1>4. ASSUME j.pc \in Undecided
      PROVE  SnapOK(j, bots'[j.bot], position'[j.bot])
  <2>1. SnapOK(j, bots[j.bot], position[j.bot]) /\ j.bot \in Bots
    BY <1>1, <1>4 DEF LockedOK
  <2> QED BY <1>2, <1>3, <2>1 DEF SnapOK
<1>5. LockedOK(j, bots', position', orders')
  BY <1>1, <1>4 DEF LockedOK
<1> QED BY <1>5 DEF j

\* A worker without the lock moves.
LEMMA UnlockedStep ==
  ASSUME LockInv, NEW w \in Workers, ~Locked(job[w].pc), NEW j,
         job' = [job EXCEPT ![w] = j], ~Locked(j.pc), UNCHANGED holder,
         \A v \in Workers : LockedOK(job[v], bots', position', orders')
  PROVE  WorkersLocked' /\ NoNewSubmitter
<1>1. job'[w] = j /\ \A v \in Workers \ {w} : job'[v] = job[v]
  BY LockedKnows
<1>2. \A v \in Workers : holder' = v <=> Locked(job'[v].pc)
  BY <1>1 DEF LockInv, LockHeld
<1>3. ASSUME NEW v \in Workers
      PROVE  LockedOK(job'[v], bots', position', orders')
  BY <1>1, UnlockedIsOK
<1>4. WorkersLocked'
  BY <1>2, <1>3 DEF WorkersLocked, LockHeld, Locked, LockedOK, SnapOK
<1>5. NoNewSubmitter
  BY <1>1, UnlockedIsOK DEF NoNewSubmitter
<1> QED BY <1>4, <1>5

LEMMA PollLocked ==
  ASSUME LockInv, AccountInv', NEW w \in Workers, NEW b \in Bots, Poll(w, b)
  PROVE  LockInv'
<1> DEFINE j == [Idle EXCEPT !.pc = "lock", !.bot = b, !.revision = bots[b].revision]
<1>1. /\ job[w].pc = "idle" /\ job' = [job EXCEPT ![w] = j]
      /\ UNCHANGED <<bots, position, orders, venue, holder>>
  BY DEF Poll, db, world
<1>2. j.pc = "lock"
  BY DEF Idle
<1> HIDE DEF j
<1>3. \A v \in Workers : LockedOK(job[v], bots', position', orders')
  BY <1>1, LockedKnows
<1>4. WorkersLocked' /\ NoNewSubmitter
  BY <1>1, <1>2, <1>3, UnlockedStep DEF Locked
<1> QED BY <1>1, <1>4, NothingTraded

LEMMA LockLocked ==
  ASSUME LockInv, AccountInv', NEW w \in Workers, Lock(w)
  PROVE  LockInv'
<1>1. job[w].pc = "lock" /\ UNCHANGED <<bots, position, orders, venue>>
  BY DEF Lock, db, world
<1>2. \A v \in Workers : LockedOK(job[v], bots', position', orders')
  BY <1>1, LockedKnows
<1>3. CASE LockFree
  <2> DEFINE j == [job[w] EXCEPT !.pc = "load"]
  <2>1. holder = NoOne /\ holder' = w /\ job' = [job EXCEPT ![w] = j] /\ j.pc = "load"
    BY <1>3, LockedKnows DEF Lock, LockFree, Job
  <2> HIDE DEF j
  <2>2. job'[w] = j /\ \A v \in Workers \ {w} : job'[v] = job[v]
    BY <2>1, LockedKnows
  <2>3. \A v \in Workers : ~Locked(job[v].pc)
    BY <2>1, BoundsAssumption DEF LockInv, LockHeld
  <2>4. \A v \in Workers : holder' = v <=> Locked(job'[v].pc)
    BY <2>1, <2>2, <2>3 DEF Locked
  <2>5. LockedOK(j, bots', position', orders')
    BY <2>1 DEF LockedOK, WithOrder, Undecided
  <2>6. ASSUME NEW v \in Workers
        PROVE  LockedOK(job'[v], bots', position', orders')
    BY <1>2, <2>2, <2>5
  <2>7. WorkersLocked'
    BY <2>4, <2>6 DEF WorkersLocked, LockHeld, Locked, LockedOK, SnapOK
  <2>8. NoNewSubmitter
    BY <2>1, <2>2 DEF NoNewSubmitter
  <2> QED BY <1>1, <2>7, <2>8, NothingTraded
<1>4. CASE ~LockFree
  <2>1. UNCHANGED holder /\ job' = [job EXCEPT ![w] = Idle] /\ ~Locked(Idle.pc) /\ ~Locked(job[w].pc)
    BY <1>1, <1>4 DEF Lock, Locked, Idle
  <2>2. WorkersLocked' /\ NoNewSubmitter
    BY <1>2, <2>1, UnlockedStep
  <2> QED BY <1>1, <2>2, NothingTraded
<1> QED BY <1>3, <1>4

LEMMA RecordFailureLocked ==
  ASSUME LockInv, AccountInv', NEW w \in Workers, RecordFailure(w)
  PROVE  LockInv'
<1> DEFINE b == job[w].bot
<1>1. /\ job[w].pc = "failing" /\ b \in Bots /\ job' = [job EXCEPT ![w] = Idle]
      /\ UNCHANGED <<position, orders, venue, holder>>
      /\ UNCHANGED bots \/ bots' = [bots EXCEPT ![b] = Strike(@)]
  BY LockedKnows DEF RecordFailure, world
<1>2. bots \in [Bots -> Bot] /\ bots[b] \in Bot
  BY <1>1, LockedKnows DEF Types
<1>3. ASSUME NEW c \in Bots
      PROVE  /\ bots[c].revision = bots'[c].revision
             /\ bots'[c].close => bots[c].close
             /\ bots'[c].state \in {bots[c].state, "error"}
  BY <1>1, <1>2, StrikeKeeps
<1>4. bots' \in [Bots -> Bot]
  BY DEF AccountInv, Types
<1>5. \A v \in Workers : LockedOK(job[v], bots', position', orders')
  BY <1>1, <1>3, <1>4, SnapsStay
<1>6. ~Locked(Idle.pc) /\ ~Locked(job[w].pc)
  BY <1>1 DEF Locked, Idle
<1>7. WorkersLocked' /\ NoNewSubmitter
  BY <1>1, <1>5, <1>6, UnlockedStep
<1> HIDE DEF b
<1> QED BY <1>1, <1>3, <1>7, NothingTraded

LEMMA ApiLocked ==
  ASSUME LockInv, AccountInv', NEW b \in Bots,
         Start(b) \/ Reset(b) \/ Stop(b) \/ Update(b) \/ Close(b)
  PROVE  LockInv'
<1> DEFINE old == bots[b]
<1>1. /\ UNCHANGED <<position, orders, venue, holder, job>>
      /\ \A c \in Bots \ {b} : bots'[c] = bots[c]
      /\ bots' \in [Bots -> Bot] /\ bots \in [Bots -> Bot]
  BY DEF Start, Reset, Stop, Update, Close, ApiChanges, world, LockInv, AccountInv, Types
<1>2. old \in Bot /\ old.revision < MaxRevision
  BY <1>1 DEF Start, Reset, Stop, Update, Close, MayChange
<1>3. /\ bots'[b].revision = old.revision + 1
      /\ bots'[b].state = "stopped" => old.state = "stopped" \/ UnresolvedOf(b) = {}
  <2>1. ASSUME NEW state \in BotState, ApiChanges(b, Changed(old, state))
        PROVE  bots'[b].revision = old.revision + 1 /\ bots'[b].state = state
    BY <1>1, <1>2, <2>1, ChangedIsBot DEF ApiChanges
  <2>2. CASE Start(b)
    BY <2>1, <2>2 DEF Start, BotState
  <2>3. CASE Reset(b)
    BY <2>1, <2>3 DEF Reset, BotState
  <2>4. CASE Stop(b)
    <3>1. StopTarget(b) \in BotState /\ (StopTarget(b) = "stopped" => UnresolvedOf(b) = {})
      BY DEF StopTarget, BotState
    <3> QED BY <2>1, <2>4, <3>1 DEF Stop
  <2>5. CASE Update(b)
    <3>1. bots' = [bots EXCEPT ![b] = [old EXCEPT !.revision = @ + 1]]
      BY <2>5 DEF Update, ApiChanges
    <3> QED BY <1>1, <1>2, <3>1 DEF Bot
  <2>6. CASE Close(b)
    <3>1. bots' = [bots EXCEPT ![b] = [old EXCEPT !.close = TRUE, !.revision = @ + 1]]
      BY <2>6 DEF Close, ApiChanges
    <3> QED BY <1>1, <1>2, <3>1 DEF Bot
  <2> QED BY <2>2, <2>3, <2>4, <2>5, <2>6
<1>4. \A c \in Bots : \/ bots[c].revision < bots'[c].revision
                      \/ bots[c].revision = bots'[c].revision /\ bots'[c].close = bots[c].close
  BY <1>1, <1>2, <1>3 DEF Bot
<1>5. \A v \in Workers : LockedOK(job'[v], bots', position', orders')
  BY <1>1, <1>4, SnapsStay
<1>6. WorkersLocked'
  BY <1>1, <1>5 DEF LockInv, WorkersLocked, LockHeld, Locked, LockedOK, SnapOK
<1>7. NoNewSubmitter
  BY <1>1 DEF NoNewSubmitter
<1> HIDE DEF old
<1>8. \A c \in Bots : bots'[c].state = "stopped" =>
        bots[c].state = "stopped" \/ UnresolvedOf(c) = {}
  BY <1>1, <1>3 DEF old
<1> QED BY <1>1, <1>6, <1>7, <1>8, NothingTraded

LEMMA OutsideLocked ==
  ASSUME LockInv, AccountInv',
         NextCandle \/ (\E value \in BOOLEAN : SetActive(value)) \/ UNCHANGED vars
  PROVE  LockInv'
<1>1. UNCHANGED <<bots, position, orders, venue, holder, job>>
  BY DEF NextCandle, SetActive, vars, db, world
<1>2. WorkersLocked'
  BY <1>1 DEF LockInv, WorkersLocked, LockHeld, Locked, LockedOK, SnapOK
<1>3. NoNewSubmitter
  BY <1>1 DEF NoNewSubmitter
<1> QED BY <1>1, <1>2, <1>3, NothingTraded

-----------------------------------------------------------------------------
(***************************************************************************)
(* What the worker at work reads, decides and looks up.                    *)
(***************************************************************************)

\* A worker with an unresolved order goes on with it.
LEMMA OrderGoesOn ==
  ASSUME LockInv, AccountInv', NEW w \in Workers, job[w].pc \in WithOrder \ {"unknown"},
         NEW j, j.id = job[w].id, j.pc \in WithOrder \ {"submit"},
         job' = [job EXCEPT ![w] = j], UNCHANGED <<db, venue, holder>>
  PROVE  LockInv'
<1>1. Locked(job[w].pc) /\ Locked(j.pc)
  BY DEF WithOrder, Locked
<1>2. orders[j.id].status \in Active
  BY LockedKnows DEF LockedOK
<1>3. LockedOK(j, bots, position, orders)
  BY <1>2 DEF LockedOK, WithOrder, Undecided
<1> QED BY <1>1, <1>3, OnlyReads

LEMMA GotoLocked ==
  ASSUME LockInv, AccountInv', NEW w \in Workers, job[w].pc \in WithOrder \ {"unknown"},
         NEW pc \in WithOrder \ {"submit"}, Goto(w, pc), UNCHANGED <<db, venue>>
  PROVE  LockInv'
<1> DEFINE j == [job[w] EXCEPT !.pc = pc]
<1>1. job' = [job EXCEPT ![w] = j] /\ j.pc = pc /\ j.id = job[w].id /\ UNCHANGED holder
  BY LockedKnows DEF Goto, Job
<1> HIDE DEF j
<1> QED BY <1>1, OrderGoesOn

LEMMA LookupLocked ==
  ASSUME LockInv, AccountInv', NEW w \in Workers, Lookup(w) \/ LookupAgain(w)
  PROVE  LockInv'
<1>1. CASE Lookup(w)
  <2> DEFINE i == job[w].id
             pc == IF ~Known(i) THEN "unknown" ELSE IF venue[i].status = "NEW" THEN "cancel" ELSE "fills"
             j == [job[w] EXCEPT !.pc = pc, !.remote = IF Known(i) THEN venue[i] ELSE NoRemote]
  <2>1. /\ job[w].pc = "lookup" /\ UNCHANGED <<db, venue, holder>>
        /\ job' = [job EXCEPT ![w] = j]
    BY <1>1, LockedKnows DEF Lookup, world
  <2>2. pc \in WithOrder \ {"submit", "await"}
    BY DEF WithOrder
  <2>3. j.id = job[w].id /\ j.pc = pc
    BY LockedKnows DEF Job
  <2> HIDE DEF j, pc
  <2> QED BY <2>1, <2>2, <2>3, OrderGoesOn DEF WithOrder
<1>2. CASE LookupAgain(w)
  <2> DEFINE j == [job[w] EXCEPT !.pc = "fills", !.remote = venue[job[w].id]]
  <2>1. /\ job[w].pc = "lookup2" /\ UNCHANGED <<db, venue, holder>>
        /\ job' = [job EXCEPT ![w] = j]
    BY <1>2, LockedKnows DEF LookupAgain, world
  <2>2. j.id = job[w].id /\ j.pc = "fills"
    BY LockedKnows DEF Job
  <2> HIDE DEF j
  <2> QED BY <2>1, <2>2, OrderGoesOn DEF WithOrder
<1> QED BY <1>1, <1>2

\* The steps of a submission and its reconciliation that change nothing else.
LEMMA AnswersLocked ==
  ASSUME LockInv, AccountInv', NEW w \in Workers,
         \/ Acknowledged(w) \/ NoAnswer(w) \/ SubmissionRejected(w)
         \/ CancelFails(w) \/ Fills(w) \/ ReconcileFails(w)
  PROVE  LockInv'
<1>1. PICK pc \in WithOrder \ {"submit"} : Goto(w, pc)
  BY DEF Acknowledged, NoAnswer, SubmissionRejected, CancelFails, Fills, ReconcileFails, WithOrder
<1>2. /\ job[w].pc \in {"await", "cancel", "lookup", "lookup2", "fills", "apply"}
      /\ UNCHANGED <<db, venue>>
  BY DEF Acknowledged, NoAnswer, SubmissionRejected, CancelFails, Fills, ReconcileFails, world
<1> QED BY <1>1, <1>2, GotoLocked DEF WithOrder

LEMMA LoadLocked ==
  ASSUME LockInv, AccountInv', NEW w \in Workers, Load(w)
  PROVE  LockInv'
<1> DEFINE b == job[w].bot
           snap == [revision |-> bots[b].revision, state |-> bots[b].state,
                    close |-> bots[b].close, position |-> position[b]]
           j == [job[w] EXCEPT !.pc = "outstanding", !.snap = snap]
<1>1. /\ job[w].pc = "load" /\ UNCHANGED <<db, venue, holder>> /\ b \in Bots
      /\ job' = [job EXCEPT ![w] = j]
  BY LockedKnows DEF Load, world
<1>2. j.pc = "outstanding" /\ j.bot = b /\ j.snap = snap
  BY LockedKnows DEF Job
<1>3. bots[b].revision \in Nat
  BY <1>1, LockedKnows DEF Types, Bot
<1> HIDE DEF j
<1>4. SnapOK(j, bots[b], position[b])
  BY <1>2, <1>3 DEF SnapOK
<1>5. LockedOK(j, bots, position, orders)
  BY <1>2, <1>4 DEF LockedOK, WithOrder
<1>6. Locked(job[w].pc) /\ Locked(j.pc) /\ j.pc # "submit"
  BY <1>1, <1>2 DEF Locked
<1> QED BY <1>1, <1>5, <1>6, OnlyReads

LEMMA OutstandingLocked ==
  ASSUME LockInv, AccountInv', NEW w \in Workers, Outstanding(w)
  PROVE  LockInv'
<1>1. PICK i \in Unresolved :
        job' = [job EXCEPT ![w].pc = "lookup", ![w].id = i, ![w].snap = NoSnap]
  BY DEF Outstanding, NextStep
<1> DEFINE j == [job[w] EXCEPT !.pc = "lookup", !.id = i, !.snap = NoSnap]
<1>2. /\ job[w].pc = "outstanding" /\ UNCHANGED <<db, venue, holder>>
      /\ job' = [job EXCEPT ![w] = j]
  BY <1>1, LockedKnows DEF Outstanding, world
<1>3. j.pc = "lookup" /\ j.id = i
  BY LockedKnows DEF Job
<1>4. orders[i].status \in Active
  BY DEF Unresolved
<1> HIDE DEF j
<1>5. LockedOK(j, bots, position, orders)
  BY <1>3, <1>4 DEF LockedOK, Undecided
<1>6. Locked(job[w].pc) /\ Locked(j.pc) /\ j.pc # "submit"
  BY <1>2, <1>3 DEF Locked
<1> QED BY <1>2, <1>5, <1>6, OnlyReads

LEMMA LeavesLocked ==
  ASSUME LockInv, AccountInv', NEW w \in Workers, Locked(job[w].pc), Finish(w) \/ Raise(w),
         UNCHANGED <<db, venue>>
  PROVE  LockInv'
BY OnlyLeaves DEF db

LEMMA NothingOutstandingLocked ==
  ASSUME LockInv, AccountInv', NEW w \in Workers, NothingOutstanding(w)
  PROVE  LockInv'
<1>1. /\ job[w].pc = "outstanding" /\ Unresolved = {} /\ UNCHANGED <<db, venue>>
      /\ Finish(w) \/ \E pc \in {"finish", "decide"} : Goto(w, pc)
  BY DEF NothingOutstanding, world
<1>2. ASSUME NEW pc \in {"finish", "decide"}, Goto(w, pc)
      PROVE  LockInv'
  <2> DEFINE j == [job[w] EXCEPT !.pc = pc]
  <2>1. /\ job' = [job EXCEPT ![w] = j] /\ UNCHANGED holder
        /\ j.pc = pc /\ j.bot = job[w].bot /\ j.snap = job[w].snap
    BY <1>2, LockedKnows DEF Goto, Job
  <2> HIDE DEF j
  <2>2. SnapOK(job[w], bots[job[w].bot], position[job[w].bot])
    BY <1>1, LockedKnows DEF LockedOK, Undecided
  <2>3. SnapOK(j, bots[j.bot], position[j.bot])
    BY <1>1, <2>1, <2>2 DEF SnapOK, Undecided
  <2>4. \A i \in Ids : orders[i].status \notin Active
    BY <1>1 DEF Unresolved
  <2>5. LockedOK(j, bots, position, orders)
    BY <2>1, <2>3, <2>4 DEF LockedOK, WithOrder
  <2>6. Locked(job[w].pc) /\ Locked(j.pc) /\ j.pc # "submit"
    BY <1>1, <2>1 DEF Locked
  <2> QED BY <1>1, <2>1, <2>5, <2>6, OnlyReads
<1>3. CASE Finish(w)
  BY <1>1, <1>3, LeavesLocked DEF Locked
<1> QED BY <1>1, <1>2, <1>3

LEMMA IntendLocked ==
  ASSUME LockInv, AccountInv', NEW w \in Workers, job[w].pc = "decide",
         NEW key, NEW side, NEW amount, Intend(w, key, side, amount),
         side = "buy" =>
           amount = OrderAmount /\ job[w].snap.position = 0 /\ ~job[w].snap.close,
         side = "sell" => amount <= job[w].snap.position,
         UNCHANGED <<db, venue>>
  PROVE  LockInv'
<1>0. Locked(job[w].pc)
  BY DEF Locked
<1>1. CASE side # "hold" /\ amount = 0
  BY <1>0, <1>1, LeavesLocked DEF Intend
<1>2. CASE ~(side # "hold" /\ amount = 0)
  <2> DEFINE i == <<job[w].bot, key>>
             j == [job[w] EXCEPT !.pc = "reserve", !.id = i, !.side = side, !.amount = amount]
  <2>1. /\ job' = [job EXCEPT ![w] = j] /\ UNCHANGED holder
        /\ j.pc = "reserve" /\ j.bot = job[w].bot /\ j.snap = job[w].snap
        /\ j.side = side /\ j.amount = amount
    BY <1>2, LockedKnows DEF Intend, Job
  <2> HIDE DEF j
  <2>2. SnapOK(job[w], bots[job[w].bot], position[job[w].bot])
    BY LockedKnows DEF LockedOK, Undecided
  <2>3. SnapOK(j, bots[j.bot], position[j.bot])
    BY <2>1, <2>2 DEF SnapOK, Undecided
  <2>4. \A k \in Ids : orders[k].status \notin Active
    BY LockedKnows DEF LockedOK
  <2>5. LockedOK(j, bots, position, orders)
    BY <2>1, <2>3, <2>4 DEF LockedOK, WithOrder
  <2>6. Locked(j.pc) /\ j.pc # "submit"
    BY <2>1 DEF Locked
  <2> QED BY <1>0, <2>1, <2>5, <2>6, OnlyReads
<1> QED BY <1>1, <1>2

LEMMA DecideExitLocked ==
  ASSUME LockInv, AccountInv', NEW w \in Workers, DecideExit(w)
  PROVE  LockInv'
<1> DEFINE key == <<"exit", ExitsTried(job[w].bot)>>
           amount == Truncate(job[w].snap.position)
<1>1. job[w].pc = "decide" /\ Intend(w, key, "sell", amount) /\ UNCHANGED <<db, venue>>
  BY DEF DecideExit, world
<1>2. job[w].snap.position \in Nat
  BY LockedKnows DEF Job, Snap
<1>3. amount <= job[w].snap.position
  BY <1>2, TruncateToLots
<1> HIDE DEF key, amount
<1> QED BY <1>1, <1>3, IntendLocked

LEMMA DecidePredictionLocked ==
  ASSUME LockInv, AccountInv', NEW w \in Workers, NEW signal \in {"buy", "sell", "hold"},
         DecidePrediction(w, signal)
  PROVE  LockInv'
<1> DEFINE held == job[w].snap.position
           side == Wanted(signal, held)
           amount == CASE side = "buy" -> OrderAmount
                       [] side = "sell" -> Truncate(held)
                       [] side = "hold" -> 0
           key == <<"candle", candle>>
<1>1. /\ job[w].pc = "decide" /\ Intend(w, key, side, amount) /\ UNCHANGED <<db, venue>>
      /\ ~job[w].snap.close
  BY DEF DecidePrediction, world
<1>2. held \in Nat
  BY LockedKnows DEF Job, Snap
<1>3. side \in {"buy", "sell", "hold"} /\ (side = "buy" => held = 0)
  BY <1>2 DEF Wanted
<1>4. /\ side = "buy" => amount = OrderAmount
      /\ side = "sell" => amount <= held
  <2> HIDE DEF side, held
  <2> QED BY <1>2, <1>3, TruncateToLots
<1> HIDE DEF key, amount, side
<1> QED BY <1>1, <1>3, <1>4, IntendLocked

LEMMA PostponeLocked ==
  ASSUME LockInv, AccountInv', NEW w \in Workers, Postpone(w)
  PROVE  LockInv'
<1>1. job[w].pc = "outstanding" /\ Finish(w) /\ UNCHANGED <<db, venue>>
  BY DEF Postpone, world
<1> QED BY <1>1, LeavesLocked DEF Locked

\* A stop is finished when nothing is unresolved.
LEMMA FinishStopLocked ==
  ASSUME LockInv, AccountInv', NEW w \in Workers, FinishStop(w)
  PROVE  LockInv'
<1>1. /\ job[w].pc = "finish"
      /\ Finish(w) \/ Raise(w)
      /\ UNCHANGED <<position, orders, venue>>
  BY DEF FinishStop, world
<1>2. \A b \in Bots : UnresolvedOf(b) = {}
  <2>1. \A i \in Ids : orders[i].status \notin Active
    BY <1>1, LockedKnows DEF LockedOK
  <2> QED BY <2>1 DEF UnresolvedOf, Unresolved
<1>3. Locked(job[w].pc)
  BY <1>1 DEF Locked
<1> QED BY <1>1, <1>2, <1>3, OnlyLeaves

\* A worker leaves and has changed its bot's row, but not its state.
LEMMA RowLocked ==
  ASSUME LockInv, AccountInv', NEW w \in Workers, Locked(job[w].pc), Finish(w) \/ Raise(w),
         UNCHANGED <<position, orders, venue>>,
         NEW bot, bot.state = bots[job[w].bot].state,
         UNCHANGED bots \/ bots' = [bots EXCEPT ![job[w].bot] = bot]
  PROVE  LockInv'
<1>1. bots \in [Bots -> Bot]
  BY LockedKnows DEF Types
<1>2. \A c \in Bots : bots'[c].state = bots[c].state
  BY <1>1
<1> QED BY <1>2, OnlyLeaves

LEMMA ClearCloseLocked ==
  ASSUME LockInv, AccountInv', NEW w \in Workers, ClearClose(w)
  PROVE  LockInv'
<1> DEFINE bot == [bots[job[w].bot] EXCEPT !.close = FALSE]
<1>1. /\ job[w].pc = "decide" /\ Finish(w) /\ UNCHANGED <<position, orders, venue>>
      /\ job[w].bot \in Bots
  BY LockedKnows DEF ClearClose, world
<1>2. bots \in [Bots -> Bot]
  BY LockedKnows DEF Types
<1>3. bots' = [bots EXCEPT ![job[w].bot] = bot]
  BY <1>2 DEF ClearClose
<1>4. bot.state = bots[job[w].bot].state
  BY <1>1, <1>2 DEF Bot
<1> HIDE DEF bot
<1> QED BY <1>1, <1>3, <1>4, RowLocked DEF Locked

LEMMA ReserveNothingLocked ==
  ASSUME LockInv, AccountInv', NEW w \in Workers, ReserveNothing(w) \/ RefuseOrder(w)
  PROVE  LockInv'
<1> DEFINE bot == Success(bots[job[w].bot])
<1>1. /\ job[w].pc = "reserve" /\ job[w].bot \in Bots
      /\ Finish(w) \/ Raise(w)
  BY LockedKnows DEF ReserveNothing, RefuseOrder, MayReserve, world
<1>2. bots[job[w].bot] \in Bot
  BY <1>1, LockedKnows DEF Types
<1>3. UNCHANGED bots \/ bots' = [bots EXCEPT ![job[w].bot] = bot]
  BY DEF ReserveNothing, RefuseOrder
<1>4. bot.state = bots[job[w].bot].state
  BY <1>2 DEF Bot, Success
<1>5. UNCHANGED <<position, orders, venue>>
  BY DEF ReserveNothing, RefuseOrder, world
<1> HIDE DEF bot
<1> QED BY <1>1, <1>3, <1>4, <1>5, RowLocked DEF Locked

LEMMA StepFailsLocked ==
  ASSUME LockInv, AccountInv', NEW w \in Workers, StepFails(w)
  PROVE  LockInv'
<1> DEFINE j == [Idle EXCEPT !.pc = "failing", !.bot = job[w].bot, !.revision = job[w].revision]
<1>1. Raise(w) /\ UNCHANGED <<db, venue>>
  BY DEF StepFails, world
<1>2. CASE Locked(job[w].pc)
  BY <1>1, <1>2, LeavesLocked
\* the lock was not to be had
<1>3. CASE ~Locked(job[w].pc)
  <2>1. job' = [job EXCEPT ![w] = j] /\ Unlock(w)
    BY <1>1 DEF Raise
  <2>2. ~Locked(j.pc)
    BY DEF Idle, Locked
  <2>3. UNCHANGED holder
    BY <1>3, <2>1 DEF Unlock, LockInv, LockHeld
  <2>4. \A v \in Workers : LockedOK(job[v], bots', position', orders')
    BY <1>1, LockedKnows DEF db
  <2> HIDE DEF j
  <2> QED BY <1>1, <1>3, <2>1, <2>2, <2>3, <2>4, UnlockedStep, NothingTraded DEF db
<1> QED BY <1>2, <1>3

LEMMA CrashLocked ==
  ASSUME LockInv, AccountInv', NEW w \in Workers, Crash(w)
  PROVE  LockInv'
<1>1. /\ job' = [job EXCEPT ![w] = Idle] /\ Unlock(w) /\ ~Locked(Idle.pc)
      /\ UNCHANGED <<bots, position, orders, venue>>
  BY DEF Crash, db, world, Idle, Locked
<1>2. CASE Locked(job[w].pc)
  <2>1. holder' = NoOne
    BY <1>1, <1>2, AloneAtWork DEF Unlock
  <2> QED BY <1>1, <1>2, <2>1, Released, NothingTraded
<1>3. CASE ~Locked(job[w].pc)
  <2>1. UNCHANGED holder
    BY <1>1, <1>3 DEF Unlock, LockInv, LockHeld
  <2>2. \A v \in Workers : LockedOK(job[v], bots', position', orders')
    BY <1>1, LockedKnows
  <2> QED BY <1>1, <1>3, <2>1, <2>2, UnlockedStep, NothingTraded
<1> QED BY <1>2, <1>3

-----------------------------------------------------------------------------
(***************************************************************************)
(* The exchange, and the rows of orders that are not booked.               *)
(***************************************************************************)

\* What the exchange does to one order leaves it pending and live, or less so.
LEMMA VenueLocked ==
  ASSUME LockInv, AccountInv', WorkersLocked', NoNewSubmitter, NEW i \in Ids, NEW s,
         venue' = [venue EXCEPT ![i] = s], UNCHANGED <<bots, position, orders>>,
         Pending(orders[i], s) => Pending(orders[i], venue[i]),
         s.status \in {"sent", "NEW"} => Live(i)
  PROVE  LockInv'
<1>1. venue'[i] = s /\ \A k \in Ids \ {i} : venue'[k] = venue[k]
  BY LockedKnows DEF LockInv, AccountInv, Types
<1>2. Live(i)' => Live(i)
  <2>1. AboutToSubmit(i)' => AboutToSubmit(i)
    BY DEF NoNewSubmitter, AboutToSubmit
  <2> QED BY <1>1, <2>1 DEF Live
<1>3. \A k \in Ids \ {i} : Live(k)' => Live(k)
  BY <1>1, LiveFalls
<1>4. \A k \in Ids : Pending(orders[k], venue'[k]) => Pending(orders[k], venue[k])
  BY <1>1
<1>5. ASSUME NEW b \in Bots, bots'[b].state = "stopped"
      PROVE  \/ bots[b].state = "stopped"
             \/ \A k \in SideOf(b, "buy") : ~Live(k)'
  BY <1>5
<1>6. UNCHANGED position
  OBVIOUS
<1>7. ASSUME NEW k \in Ids
      PROVE  /\ orders'[k].status = "none" <=> orders[k].status = "none"
             /\ orders'[k].side = orders[k].side
             /\ orders'[k].amount = orders[k].amount
             /\ orders'[k].filled = orders[k].filled
             /\ Pending(orders'[k], venue'[k]) => Pending(orders[k], venue[k])
             /\ Live(k)' => Live(k)
  BY <1>2, <1>3, <1>4
<1> QED BY <1>5, <1>6, <1>7, Unfilled

LEMMA ExchangeLocked ==
  ASSUME LockInv, AccountInv', NEW i \in Ids, Exchange(i) \/ Lose(i)
  PROVE  LockInv'
<1>1. venue[i].status \in {"sent", "NEW"} /\ \E st, f : VenueMoves(i, st, f)
  BY DEF Exchange, Accept, Refuse, Match, Complete, Lose
<1>2. PICK st, f : VenueMoves(i, st, f)
  BY <1>1
<1> DEFINE s == [status |-> st, filled |-> f]
<1>3. /\ venue' = [venue EXCEPT ![i] = s]
      /\ UNCHANGED <<bots, position, orders, holder, job>>
  BY <1>2 DEF VenueMoves, db
<1>4. Pending(orders[i], venue[i]) /\ Live(i)
  <2>1. AccountInv
    BY DEF LockInv
  <2> QED BY <1>1, <2>1, OrderKnown, AtTheExchange DEF Live
<1>5. WorkersLocked'
  BY <1>3 DEF LockInv, WorkersLocked, LockHeld, Locked, LockedOK, SnapOK
<1>6. NoNewSubmitter
  BY <1>3 DEF NoNewSubmitter
<1> HIDE DEF s
<1> QED BY <1>3, <1>4, <1>5, <1>6, VenueLocked

\* A worker with an order goes on while the exchange acts on it.
LEMMA StepsOn ==
  ASSUME LockInv, NEW w \in Workers, job[w].pc \in {"submit", "cancel"},
         NEW pc \in {"await", "lookup2"}, Goto(w, pc), UNCHANGED db
  PROVE  WorkersLocked' /\ NoNewSubmitter
<1> DEFINE j == [job[w] EXCEPT !.pc = pc]
<1>1. /\ job' = [job EXCEPT ![w] = j] /\ UNCHANGED holder
      /\ j.pc = pc /\ j.id = job[w].id
  BY LockedKnows DEF Goto, Job
<1> HIDE DEF j
<1>2. orders[j.id].status \in Active
  BY <1>1, LockedKnows DEF LockedOK, WithOrder
<1>3. UNCHANGED <<bots, position, orders>>
  BY DEF db
<1>4. LockedOK(j, bots', position', orders')
  BY <1>1, <1>2, <1>3 DEF LockedOK, WithOrder, Undecided
<1>5. Locked(job[w].pc) /\ Locked(j.pc) /\ j.pc # "submit"
  BY <1>1 DEF Locked
<1> QED BY <1>1, <1>4, <1>5, KeepsLock

LEMMA SubmitLocked ==
  ASSUME LockInv, AccountInv', NEW w \in Workers, Submit(w) \/ CancelRemainder(w)
  PROVE  LockInv'
<1> DEFINE i == job[w].id
<1>1. /\ job[w].pc \in WithOrder /\ i \in Ids /\ AccountInv
      /\ UNCHANGED <<bots, position, orders>> /\ UNCHANGED db
  BY LockedKnows DEF Submit, CancelRemainder, WithOrder, db
<1>2. /\ venue[i] \in Remote /\ venue \in [Ids -> Remote]
      /\ orders[i].status # "none"
  BY <1>1, OrderKnown, WorkerHasOrder DEF Types
<1>3. CASE Submit(w)
  <2> DEFINE s == [venue[i] EXCEPT !.status = "sent"]
  <2>1. venue' = [venue EXCEPT ![i] = s] /\ job[w].pc = "submit" /\ Goto(w, "await")
    BY <1>2, <1>3 DEF Submit
  <2>2. venue[i].status = "unsent" /\ Live(i)
    BY <1>1, <2>1, WorkerKnows DEF JobOK, Live, AboutToSubmit
  <2>3. Pending(orders[i], venue[i])
    BY <1>2, <2>2 DEF Pending, Unanswered
  <2>4. WorkersLocked' /\ NoNewSubmitter
    BY <1>1, <2>1, StepsOn
  <2> HIDE DEF s, i
  <2> QED BY <1>1, <2>1, <2>2, <2>3, <2>4, VenueLocked
<1>4. CASE CancelRemainder(w)
  <2> DEFINE st == IF venue[i].status = "NEW" THEN "CANCELED" ELSE venue[i].status
             s == [venue[i] EXCEPT !.status = st]
  <2>1. venue' = [venue EXCEPT ![i] = s] /\ job[w].pc = "cancel" /\ Goto(w, "lookup2")
    BY <1>2, <1>4 DEF CancelRemainder
  <2>2. /\ s.status = st /\ s.filled = venue[i].filled
        /\ st \in {"CANCELED", venue[i].status} /\ st # "NEW"
    BY <1>2 DEF Remote
  <2> HIDE DEF s, st
  <2>3. /\ Pending(orders[i], s) => Pending(orders[i], venue[i])
        /\ s.status \in {"sent", "NEW"} => Live(i)
    BY <2>2 DEF Pending, Unanswered, Live
  <2>4. WorkersLocked' /\ NoNewSubmitter
    BY <1>1, <2>1, StepsOn
  <2> HIDE DEF i
  <2> QED BY <1>1, <2>1, <2>3, <2>4, VenueLocked
<1> QED BY <1>3, <1>4

\* A worker that leaves writes a status, and no fills, to its order's row.
LEMMA StatusLocked ==
  ASSUME LockInv, AccountInv', NEW w \in Workers, Locked(job[w].pc), Finish(w), NEW i \in Ids,
         orders[i].status # "none", NEW st, st # "none",
         orders' = [orders EXCEPT ![i].status = st], UNCHANGED <<position, venue>>,
         \A b \in Bots : bots'[b].state = "stopped" =>
           \/ bots[b].state = "stopped"
           \/ \A k \in SideOf(b, "buy") : ~Live(k)
  PROVE  LockInv'
<1>1. WorkersLocked' /\ NoNewSubmitter
  BY FinishReleases
<1>2. \A k \in Ids : Live(k)' => Live(k)
  BY <1>1, LiveFalls
<1>3. ASSUME NEW k \in Ids
      PROVE  /\ orders'[k].status = "none" <=> orders[k].status = "none"
             /\ orders'[k].side = orders[k].side
             /\ orders'[k].amount = orders[k].amount
             /\ orders'[k].filled = orders[k].filled
             /\ Pending(orders'[k], venue'[k]) => Pending(orders[k], venue[k])
             /\ Live(k)' => Live(k)
  <2>1. orders \in [Ids -> OrderRow]
    BY LockedKnows DEF Types, LockInv, AccountInv
  <2>2. /\ orders'[k].side = orders[k].side
        /\ orders'[k].amount = orders[k].amount
        /\ orders'[k].filled = orders[k].filled
        /\ orders'[k].status = IF k = i THEN st ELSE orders[k].status
    BY <2>1 DEF OrderRow
  <2> QED BY <1>2, <2>2 DEF Pending
<1>4. \A b \in Bots : SideOf(b, "buy") \subseteq Ids
  BY DEF SideOf, OrdersOf
<1>5. ASSUME NEW b \in Bots, bots'[b].state = "stopped"
      PROVE  \/ bots[b].state = "stopped"
             \/ \A k \in SideOf(b, "buy") : ~Live(k)'
  BY <1>2, <1>4, <1>5
<1>6. UNCHANGED position
  OBVIOUS
<1> QED BY <1>1, <1>3, <1>5, <1>6, Unfilled

\* Of a bot whose unresolved order the exchange cannot trade on, nothing is live.
LEMMA NothingLiveOf ==
  ASSUME AccountInv, NEW i \in Ids, i \in Unresolved, venue[i].status \notin Unanswered
  PROVE  \A k \in Ids : ~Live(k)
<1> SUFFICES ASSUME NEW k \in Ids, Live(k)
             PROVE  FALSE
  OBVIOUS
<1>1. k \in Unresolved
  BY LiveIsPending
<1>2. k = i
  BY <1>1 DEF AccountInv, OneUnresolved
<1>3. AboutToSubmit(i)
  BY <1>2 DEF Live, Unanswered
<1> QED BY <1>3, WorkerKnows DEF AboutToSubmit, JobOK, Unanswered

LEMMA RecordRejectionLocked ==
  ASSUME LockInv, AccountInv', NEW w \in Workers, RecordRejection(w)
  PROVE  LockInv'
<1> DEFINE i == job[w].id
<1>1. /\ job[w].pc = "rejected" /\ i \in Ids /\ AccountInv /\ orders[i].status \in Active
      /\ UNCHANGED <<position, venue>>
  BY LockedKnows DEF RecordRejection, WithOrder, LockedOK, world
<1>2. Locked(job[w].pc) /\ orders[i].status # "none"
  BY <1>1 DEF Locked, Active
<1>3. \A k \in Ids : ~Live(k)
  <2>1. venue[i].status = "refused" /\ i \in Unresolved
    BY <1>1, WorkerKnows DEF JobOK, Unresolved
  <2> QED BY <1>1, <2>1, NothingLiveOf DEF Unanswered
<1>4. CASE active
  <2>1. orders' = [orders EXCEPT ![i].status = "rejected"] /\ Finish(w)
    BY <1>4 DEF RecordRejection
  <2>2. \A b \in Bots : \A k \in SideOf(b, "buy") : ~Live(k)
    BY <1>3 DEF SideOf, OrdersOf
  <2> HIDE DEF i
  <2> QED BY <1>1, <1>2, <2>1, <2>2, StatusLocked
<1>5. CASE ~active
  <2>1. Raise(w) /\ UNCHANGED <<bots, orders>>
    BY <1>5 DEF RecordRejection
  <2>2. \A b \in Bots : bots'[b].state = "stopped" => bots[b].state = "stopped"
    BY <2>1
  <2> QED BY <1>1, <1>2, <2>1, <2>2, OnlyLeaves
<1> QED BY <1>4, <1>5

LEMMA MarkUnknownLocked ==
  ASSUME LockInv, AccountInv', NEW w \in Workers, MarkUnknown(w)
  PROVE  LockInv'
<1> DEFINE i == job[w].id
<1>1. /\ job[w].pc = "unknown" /\ i \in Ids /\ AccountInv /\ orders[i].status # "none"
      /\ UNCHANGED <<bots, position, venue>>
  BY LockedKnows, WorkerHasOrder DEF MarkUnknown, WithOrder, world
<1>2. Locked(job[w].pc)
  BY <1>1 DEF Locked
<1>3. \A b \in Bots : bots'[b].state = "stopped" => bots[b].state = "stopped"
  BY <1>1
<1>4. CASE orders' = [orders EXCEPT ![i].status = "unknown"] /\ Finish(w)
  <2> HIDE DEF i
  <2> QED BY <1>1, <1>2, <1>3, <1>4, StatusLocked
<1>5. CASE UNCHANGED orders /\ Raise(w)
  BY <1>1, <1>2, <1>3, <1>5, OnlyLeaves
<1> QED BY <1>4, <1>5 DEF MarkUnknown

-----------------------------------------------------------------------------
(***************************************************************************)
(* Booking an order and reserving one, while the lock is kept.             *)
(***************************************************************************)

\* With an unresolved order at hand, no other order can trade.
LEMMA OthersRest ==
  ASSUME AccountInv, NEW i \in Ids, orders[i].status \in Active
  PROVE  \A k \in Ids \ {i} : ~Pending(orders[k], venue[k]) /\ ~Live(k)
<1> SUFFICES ASSUME NEW k \in Ids \ {i}
             PROVE  ~Pending(orders[k], venue[k]) /\ ~Live(k)
  OBVIOUS
<1>1. k \notin Unresolved
  BY DEF AccountInv, OneUnresolved, Unresolved
<1>2. ~Pending(orders[k], venue[k])
  BY <1>1, OrderKnown, PendingIsActive DEF Unresolved
<1> QED BY <1>2, LiveIsPending

\* Booking keeps an order backed, and the position within one order's amount.
LEMMA BookedIsBacked ==
  ASSUME NEW o \in OrderRow, NEW p \in OrderRow, NEW r \in Remote, NEW before \in Nat, NEW held \in Nat,
         o.side \in {"buy", "sell"}, p.side = o.side, p.amount = o.amount,
         p.filled <= r.filled, r.filled <= o.amount,
         o.filled <= p.filled, WholeLots(o.filled), WholeLots(p.filled),
         Pending(p, r) => Pending(o, r),
         p.filled # o.filled => Pending(o, r),
         held = IF o.side = "buy" THEN before + Net(p.filled - o.filled)
                ELSE before - (p.filled - o.filled),
         Backed(o, r, before), before <= OrderAmount
  PROVE  Backed(p, r, held) /\ held <= OrderAmount
<1>1. /\ o.filled \in Nat /\ p.filled \in Nat /\ r.filled \in Nat /\ o.amount \in Nat
      /\ OrderAmount \in Nat
  BY BoundsAssumption DEF OrderRow, Remote
<1>2. o.amount <= OrderAmount
  BY DEF Backed
<1> DEFINE new == p.filled - o.filled
<1>3. CASE o.side = "sell"
  <2>1. held = before - new /\ new \in Nat
    BY <1>1, <1>3
  <2>2. held <= OrderAmount
    <3> HIDE DEF new
    <3> QED BY <1>1, <2>1
  <2>3. Pending(p, r) => p.amount <= held + p.filled
    BY <1>1, <1>3, <2>1 DEF Backed
  <2> QED BY <1>2, <1>3, <2>2, <2>3 DEF Backed
<1>4. CASE o.side = "buy"
  <2>1. held = before + Net(new) /\ new \in Nat
    BY <1>1, <1>4
  <2>2. Net(p.filled) \in Nat /\ Net(p.filled) <= p.filled /\ Net(o.filled) \in Nat
        /\ Net(new) = Net(p.filled) - Net(o.filled)
    BY <1>1, NetOfLots
  <2>3. Pending(o, r) => held = Net(p.filled)
    <3>1. Pending(o, r) => before = Net(o.filled)
      BY <1>4 DEF Backed
    <3> HIDE DEF new
    <3> QED BY <2>1, <2>2, <3>1
  <2>4. held <= OrderAmount
    <3>1. CASE new = 0
      BY <2>1, <3>1, NoLots
    <3>2. CASE new # 0
      <4>1. held = Net(p.filled)
        BY <1>1, <2>3, <3>2
      <4> QED BY <1>1, <1>2, <2>2, <4>1
    <3> QED BY <3>1, <3>2
  <2>5. Pending(p, r) => held = Net(p.filled)
    BY <2>3
  <2> QED BY <1>2, <1>4, <2>4, <2>5 DEF Backed
<1> QED BY <1>3, <1>4

\* What apply() does to the bot's row stops it only with a final order.
LEMMA BotAfterStops ==
  ASSUME NEW b \in Bots, bots[b] \in Bot, NEW st, NEW filled, NEW held,
         BotAfter(b, st, filled, held).state = "stopped"
  PROVE  bots[b].state = "stopped" \/ st \in Terminal
<1>1. CASE st \notin Terminal
  <2>1. BotAfter(b, st, filled, held) = Success(bots[b])
    BY <1>1 DEF BotAfter
  <2>2. Success(bots[b]).state = bots[b].state
    BY DEF Success, Bot
  <2> QED BY <2>1, <2>2
<1> QED BY <1>1

LEMMA BookLocked ==
  ASSUME LockInv, AccountInv', NEW w \in Workers, NEW i \in Ids, job[w].pc = "apply", job[w].id = i,
         Applicable(i, job[w].remote), Book(i, job[w].remote), UNCHANGED venue,
         Finish(w) \/ Goto(w, "unknown")
  PROVE  LockInv'
<1> DEFINE remote == job[w].remote
           held == PositionAfter(i, remote)
           p == OrderAfter(i, remote)
           bot == BotAfter(i[1], StoredStatus(remote), remote.filled, held)
<1>1. /\ AccountInv /\ Locked(job[w].pc) /\ i[1] \in Bots
      /\ orders[i].status \in Active /\ orders[i].status # "none"
  BY LockedKnows, OrderKnown DEF LockedOK, WithOrder, Locked, Active
<1>2. /\ orders[i] \in OrderRow /\ venue[i] \in Remote /\ sends[i] \in Nat
      /\ OrderOK(orders[i], venue[i], sends[i])
      /\ position \in [Bots -> Nat] /\ bots \in [Bots -> Bot] /\ orders \in [Ids -> OrderRow]
  BY <1>1, OrderKnown DEF Types
<1>3. /\ remote \in Remote /\ remote.status \in Answered /\ venue[i].status \in Answered
      /\ remote.status \in Final => remote = venue[i]
      /\ remote.filled <= venue[i].filled /\ WholeLots(remote.filled)
  BY <1>1, WorkerKnows DEF JobOK, Job
<1>4. orders[i].filled <= remote.filled /\ held >= 0
  BY <1>2, <1>3 DEF Applicable, OrderRow, Remote
<1>5. p = [orders[i] EXCEPT !.status = StoredStatus(remote), !.filled = remote.filled]
  BY DEF OrderAfter
<1>6. /\ orders' = [orders EXCEPT ![i] = p]
      /\ position' = [position EXCEPT ![i[1]] = held]
      /\ bots' = [bots EXCEPT ![i[1]] = bot]
  BY DEF Book
<1> HIDE DEF p, remote
<1>7. /\ p \in OrderRow /\ p.status = StoredStatus(remote) /\ p.filled = remote.filled
      /\ p.side = orders[i].side /\ p.amount = orders[i].amount
  BY <1>2, <1>3, <1>5, StoredStatusKnown DEF OrderRow, Remote
<1>8. /\ p.status # "none"
      /\ p.status \in Terminal => venue[i].status \in Final
      /\ Pending(p, venue[i]) => Pending(orders[i], venue[i])
      /\ p.filled # orders[i].filled => Pending(orders[i], venue[i])
  <2> DEFINE o == orders[i]
             r == venue[i]
             n == sends[i]
  <2>1. /\ o \in OrderRow /\ r \in Remote /\ n \in Nat /\ OrderOK(o, r, n)
        /\ o.status # "none" /\ r.status \in Answered
        /\ remote \in Remote /\ remote.status \in Answered
        /\ remote.status \in Final => remote = r
        /\ remote.filled <= r.filled /\ WholeLots(remote.filled) /\ o.filled <= remote.filled
        /\ p.status = StoredStatus(remote) /\ p.filled = remote.filled
        /\ p.side = o.side /\ p.amount = o.amount
    BY <1>1, <1>2, <1>3, <1>4, <1>7
  <2> HIDE DEF o, r, n
  <2>2. /\ p.status # "none"
        /\ p.status \in Terminal => r.status \in Final
        /\ Pending(p, r) => Pending(o, r)
        /\ remote.filled # o.filled => Pending(o, r)
    BY <2>1, BookedRow
  <2> QED BY <1>7, <2>2 DEF o, r, n
<1>9. held = IF orders[i].side = "buy" THEN position[i[1]] + Net(p.filled - orders[i].filled)
             ELSE position[i[1]] - (p.filled - orders[i].filled)
  BY <1>7 DEF PositionAfter, NewFills
<1> HIDE DEF held
<1>10. held \in Nat
  <2>1. position' \in [Bots -> Nat]
    BY DEF AccountInv, Types
  <2> QED BY <1>1, <1>2, <1>6, <2>1
<1>11. Backed(p, venue[i], held) /\ held <= OrderAmount
  <2> DEFINE o == orders[i]
             r == venue[i]
             before == position[i[1]]
  <2>1. /\ o.side \in {"buy", "sell"} /\ r.filled <= o.amount /\ WholeLots(o.filled)
    BY <1>1, <1>2 DEF OrderOK
  <2>2. Backed(o, r, before) /\ before <= OrderAmount /\ before \in Nat
    BY <1>1, <1>2 DEF LockInv
  <2>3. /\ o \in OrderRow /\ r \in Remote
        /\ p.side = o.side /\ p.amount = o.amount
        /\ p.filled <= r.filled /\ o.filled <= p.filled /\ WholeLots(p.filled)
        /\ Pending(p, r) => Pending(o, r)
        /\ p.filled # o.filled => Pending(o, r)
        /\ held = IF o.side = "buy" THEN before + Net(p.filled - o.filled)
                  ELSE before - (p.filled - o.filled)
    BY <1>2, <1>3, <1>4, <1>7, <1>8, <1>9
  <2> HIDE DEF o, r, before
  <2>4. Backed(p, r, held) /\ held <= OrderAmount
    BY <1>7, <1>10, <2>1, <2>2, <2>3, BookedIsBacked
  <2> QED BY <2>4 DEF r
<1>12. WorkersLocked' /\ NoNewSubmitter
  <2>1. CASE Finish(w)
    BY <1>1, <2>1, FinishReleases
  <2>2. CASE Goto(w, "unknown")
    <3> DEFINE j == [job[w] EXCEPT !.pc = "unknown"]
    <3>1. job' = [job EXCEPT ![w] = j] /\ UNCHANGED holder /\ j.pc = "unknown"
      BY <2>2, LockedKnows DEF Goto, Job
    <3> HIDE DEF j
    <3>2. LockedOK(j, bots', position', orders') /\ Locked(j.pc)
      BY <3>1 DEF LockedOK, WithOrder, Undecided, Locked
    <3> QED BY <1>1, <3>1, <3>2, KeepsLock
  <2> QED BY <2>1, <2>2
<1>13. \A k \in Ids : Live(k)' => Live(k)
  BY <1>12, LiveFalls
<1>14. \A k \in Ids \ {i} : ~Pending(orders[k], venue[k]) /\ ~Live(k)
  BY <1>1, OthersRest
<1>15. /\ orders'[i] = p /\ \A k \in Ids \ {i} : orders'[k] = orders[k]
       /\ position'[i[1]] = held /\ \A b \in Bots \ {i[1]} : position'[b] = position[b]
       /\ bots'[i[1]] = bot /\ \A b \in Bots \ {i[1]} : bots'[b] = bots[b]
  BY <1>1, <1>2, <1>6
<1>16. ASSUME NEW k \in Ids
       PROVE  Backed(orders'[k], venue'[k], position'[k[1]])
  <2>1. CASE k = i
    BY <1>11, <1>15, <2>1
  <2>2. CASE k # i
    <3>1. orders[k].amount <= OrderAmount
      BY DEF LockInv, Backed
    <3> QED BY <1>14, <1>15, <2>2, <3>1 DEF Backed
  <2> QED BY <2>1, <2>2
<1>17. \A k \in Ids : Backed(orders[k], venue[k], position[k[1]])'
  BY <1>16 DEF Backed, Pending, Net
<1>18. \A b \in Bots : position'[b] <= OrderAmount
  BY <1>11, <1>15 DEF LockInv
<1>19. ASSUME NEW b \in Bots, bots'[b].state = "stopped", NEW k \in SideOf(b, "buy")'
       PROVE  ~Live(k)'
  <2> SUFFICES ASSUME Live(k)'
               PROVE  FALSE
    OBVIOUS
  <2>1. k \in Ids /\ k[1] = b /\ orders'[k].side = "buy"
    BY DEF SideOf, OrdersOf
  <2>2. k = i /\ Live(i)
    BY <1>13, <1>14, <2>1
  <2>3. i \in SideOf(b, "buy")
    BY <1>1, <1>7, <1>15, <2>1, <2>2 DEF SideOf, OrdersOf
  <2>4. bots[b].state # "stopped"
    BY <2>2, <2>3 DEF LockInv, StoppedNeverBuys
  <2>5. p.status \in Terminal
    <3> HIDE DEF remote
    <3>1. b = i[1] /\ bot.state = "stopped"
      BY <1>15, <1>19, <2>1, <2>2
    <3> QED BY <1>1, <1>2, <1>7, <2>4, <3>1, BotAfterStops
  <2>6. venue[i].status \notin Unanswered /\ i \in Unresolved
    BY <1>1, <1>8, <2>5 DEF Final, Unanswered, Unresolved
  <2> QED BY <1>1, <2>2, <2>6, NothingLiveOf
<1>20. StoppedNeverBuys'
  BY <1>19 DEF StoppedNeverBuys
<1> QED BY <1>12, <1>17, <1>18, <1>20 DEF LockInv, WorkersLocked

LEMMA ApplyLocked ==
  ASSUME LockInv, AccountInv', NEW w \in Workers, Apply(w) \/ ApplyUnconfirmed(w)
  PROVE  LockInv'
<1> DEFINE i == job[w].id
<1>1. job[w].pc = "apply" /\ i \in Ids /\ UNCHANGED venue
  BY LockedKnows DEF Apply, ApplyUnconfirmed, WithOrder, world
<1>2. CASE Applicable(i, job[w].remote)
  <2>1. Book(i, job[w].remote) /\ (Finish(w) \/ Goto(w, "unknown"))
    BY <1>2 DEF Apply, ApplyUnconfirmed
  <2> QED BY <1>1, <1>2, <2>1, BookLocked
<1>3. CASE ~Applicable(i, job[w].remote)
  <2>1. UNCHANGED db /\ Goto(w, "unknown")
    BY <1>3 DEF Apply, ApplyUnconfirmed
  <2> QED BY <1>1, <2>1, GotoLocked DEF WithOrder
<1> QED BY <1>2, <1>3

LEMMA ReserveOrderLocked ==
  ASSUME LockInv, AccountInv', NEW w \in Workers, ReserveOrder(w)
  PROVE  LockInv'
<1> DEFINE b == job[w].bot
           i == job[w].id
           p == [status |-> "submitting", side |-> job[w].side, amount |-> job[w].amount,
                 filled |-> 0]
           j == [job[w] EXCEPT !.pc = "submit", !.snap = NoSnap, !.side = "none", !.amount = 0]
<1>1. /\ job[w].pc = "reserve" /\ job[w].side # "hold" /\ StillWanted(w) /\ Unresolved = {}
      /\ UNCHANGED <<bots, position, venue, holder>>
      /\ job' = [job EXCEPT ![w] = j] /\ orders' = [orders EXCEPT ![i] = p]
  BY LockedKnows DEF ReserveOrder, MayReserve, RiskRefuses, OrderOutstanding, world
<1>2. /\ AccountInv /\ i \in Ids /\ i[1] = b /\ b \in Bots
      /\ job[w].side \in {"buy", "sell"} /\ job[w].amount \in Nat
  BY <1>1, LockedKnows, WorkerKnows DEF JobOK, WithOrder, Job
<1>3. /\ orders \in [Ids -> OrderRow] /\ position \in [Bots -> Nat] /\ bots \in [Bots -> Bot]
      /\ position[b] <= OrderAmount /\ OrderAmount \in Nat
  BY <1>2, LockedKnows, BoundsAssumption DEF Types, LockInv
<1>4. SnapOK(job[w], bots[b], position[b]) /\ job[w].snap.position = position[b]
  BY <1>1, LockedKnows DEF LockedOK, SnapOK, Undecided
<1>5. /\ p.status = "submitting" /\ p.side = job[w].side /\ p.amount = job[w].amount /\ p.filled = 0
      /\ j.pc = "submit" /\ j.id = i
  BY LockedKnows DEF Job
<1> HIDE DEF p, j
<1>6. orders'[i] = p /\ (\A k \in Ids \ {i} : orders'[k] = orders[k])
  BY <1>1, <1>2, <1>3
<1>7. /\ job'[w] = j /\ (\A v \in Workers \ {w} : job'[v] = job[v])
      /\ WorkersLocked'
  <2>1. LockedOK(j, bots', position', orders')
    BY <1>5, <1>6 DEF LockedOK, WithOrder, Undecided, Active
  <2>2. Locked(job[w].pc) /\ Locked(j.pc)
    BY <1>1, <1>5 DEF Locked
  <2> QED BY <1>1, <2>1, <2>2, KeepsLock, LockedKnows
<1>8. \A k \in Ids : ~Pending(orders[k], venue[k]) /\ ~Live(k)
  BY <1>1, <1>2, NothingPending, LiveIsPending
<1>9. Backed(p, venue[i], position[b])
  <2>1. CASE job[w].side = "buy"
    <3>1. job[w].amount = OrderAmount /\ position[b] = 0
      BY <1>1, <1>4, <2>1 DEF SnapOK
    <3> QED BY <1>3, <1>5, <2>1, <3>1, NoLots DEF Backed
  <2>2. CASE job[w].side = "sell"
    <3>1. job[w].amount <= position[b]
      BY <1>1, <1>4, <2>2 DEF SnapOK
    <3> QED BY <1>2, <1>3, <1>5, <2>2, <3>1 DEF Backed
  <2> QED BY <1>2, <2>1, <2>2
<1>10. ASSUME NEW k \in Ids
       PROVE  Backed(orders'[k], venue'[k], position'[k[1]])
  <2>1. CASE k = i
    BY <1>1, <1>2, <1>6, <1>9, <2>1
  <2>2. CASE k # i
    <3>1. orders[k].amount <= OrderAmount
      BY DEF LockInv, Backed
    <3> QED BY <1>1, <1>6, <1>8, <2>2, <3>1 DEF Backed
  <2> QED BY <2>1, <2>2
<1>11. \A k \in Ids : Backed(orders[k], venue[k], position[k[1]])'
  BY <1>10 DEF Backed, Pending, Net
<1>12. \A c \in Bots : position'[c] <= OrderAmount
  BY <1>1 DEF LockInv
<1>13. \A k \in Ids \ {i} : ~Live(k)'
  <2> SUFFICES ASSUME NEW k \in Ids \ {i}, Live(k)'
               PROVE  FALSE
    OBVIOUS
  <2>1. AboutToSubmit(k)'
    BY <1>1, <1>8 DEF Live
  <2>2. AboutToSubmit(k)
    BY <1>5, <1>7, <2>1 DEF AboutToSubmit
  <2> QED BY <1>8, <2>2 DEF Live
<1>14. ASSUME NEW c \in Bots, bots'[c].state = "stopped", NEW k \in SideOf(c, "buy")'
       PROVE  ~Live(k)'
  <2> SUFFICES ASSUME Live(k)'
               PROVE  FALSE
    OBVIOUS
  <2>1. k \in Ids /\ k[1] = c /\ orders'[k].side = "buy"
    BY DEF SideOf, OrdersOf
  <2>2. k = i
    BY <1>13, <2>1
  <2>3. c = b /\ job[w].side = "buy"
    BY <1>2, <1>5, <1>6, <2>1, <2>2
  <2>4. bots[b].state = "stopped"
    BY <1>1, <1>14, <2>3
  <2>5. bots[b].close /\ bots[b].revision = job[w].snap.revision
    BY <1>1, <2>4 DEF StillWanted
  <2>6. job[w].snap.close /\ ~job[w].snap.close
    BY <1>1, <1>4, <2>3, <2>5 DEF SnapOK, Undecided
  <2> QED BY <2>6
<1>15. StoppedNeverBuys'
  BY <1>14 DEF StoppedNeverBuys
<1> QED BY <1>7, <1>11, <1>12, <1>15 DEF LockInv, WorkersLocked

-----------------------------------------------------------------------------
(***************************************************************************)
(* The invariant while the lock is kept.                                   *)
(***************************************************************************)
LEMMA InitLock ==
  ASSUME Init
  PROVE  LockInv
<1>1. AccountInv
  BY InitSafe
<1>2. /\ \A w \in Workers : job[w].pc = "idle"
      /\ \A i \in Ids : orders[i] = NoOrder /\ i[1] \in Bots
      /\ \A b \in Bots : position[b] = 0
      /\ holder = NoOne
  BY DEF Init, Idle, Ids
<1>3. LockHeld
  BY <1>2, BoundsAssumption DEF LockHeld, Locked
<1>4. \A w \in Workers : LockedOK(job[w], bots, position, orders)
  BY <1>2, UnlockedIsOK DEF Locked
<1>5. \A i \in Ids : Backed(orders[i], venue[i], position[i[1]])
  BY <1>2, BoundsAssumption DEF Backed, NoOrder
<1>6. \A b \in Bots : position[b] <= OrderAmount
  BY <1>2, BoundsAssumption
<1>7. StoppedNeverBuys
  BY <1>2 DEF StoppedNeverBuys, SideOf, OrdersOf, NoOrder
<1> QED BY <1>1, <1>3, <1>4, <1>5, <1>6, <1>7 DEF LockInv

LEMMA NextLock ==
  ASSUME LockKept, LockInv, [Next]_vars
  PROVE  LockInv'
<1>1. AccountInv'
  BY NextSafe DEF LockInv
<1>2. CASE UNCHANGED vars \/ NextCandle
  BY <1>1, <1>2, OutsideLocked
<1>3. CASE Api
  BY <1>1, <1>3, ApiLocked, OutsideLocked DEF Api
<1>4. ASSUME NEW w \in Workers, NEW b \in Bots, Poll(w, b)
      PROVE  LockInv'
  BY <1>1, <1>4, PollLocked
<1>5. ASSUME NEW w \in Workers, Serve(w)
      PROVE  LockInv'
  <2>1. CASE \/ Lock(w) \/ Load(w) \/ Outstanding(w) \/ Postpone(w) \/ NothingOutstanding(w)
             \/ FinishStop(w) \/ DecideExit(w) \/ ClearClose(w)
    BY <1>1, <2>1, LockLocked, LoadLocked, OutstandingLocked, PostponeLocked,
       NothingOutstandingLocked, FinishStopLocked, DecideExitLocked, ClearCloseLocked
  <2>2. CASE \E signal \in {"buy", "sell", "hold"} : DecidePrediction(w, signal)
    BY <1>1, <2>2, DecidePredictionLocked
  <2>3. CASE \/ ReserveNothing(w) \/ RefuseOrder(w) \/ ReserveOrder(w) \/ Submit(w)
             \/ CancelRemainder(w) \/ Apply(w)
    BY <1>1, <2>3, ReserveNothingLocked, ReserveOrderLocked, SubmitLocked, ApplyLocked
  <2>4. CASE \/ Acknowledged(w) \/ SubmissionRejected(w) \/ RecordRejection(w) \/ Lookup(w)
             \/ LookupAgain(w) \/ Fills(w) \/ MarkUnknown(w) \/ RecordFailure(w)
    BY <1>1, <2>4, AnswersLocked, RecordRejectionLocked, LookupLocked, MarkUnknownLocked,
       RecordFailureLocked
  <2> QED BY <1>5, <2>1, <2>2, <2>3, <2>4 DEF Serve
<1>6. ASSUME NEW w \in Workers, Misfortune(w)
      PROVE  LockInv'
  <2>1. ~LoseLock(w)
    BY DEF LoseLock, Fault, LockKept
  <2> QED BY <1>1, <1>6, <2>1, AnswersLocked, ApplyLocked, StepFailsLocked, CrashLocked
          DEF Misfortune
<1>7. ASSUME NEW i \in Ids, Exchange(i) \/ Lose(i)
      PROVE  LockInv'
  BY <1>1, <1>7, ExchangeLocked
<1> QED BY <1>2, <1>3, <1>4, <1>5, <1>6, <1>7 DEF Next

\* While no worker loses the account's lock, what each worker has read of its
\* bot stays true as far as it decides by it, and each order that may trade is
\* backed by the position (sandbox.py:29-49, 83-145).
THEOREM LockInvariance ==
  ASSUME LockKept
  PROVE  Spec => []LockInv
<1>1. Init => LockInv
  BY InitLock
<1>2. LockInv /\ [Next]_vars => LockInv'
  BY NextLock
<1> QED BY <1>1, <1>2, PTL DEF Spec

\* A stopped bot cannot buy any more (service.py:40-48, sandbox.py:122, 274-276).
THEOREM StoppedBotsDoNotBuy ==
  ASSUME LockKept
  PROVE  Spec => []StoppedNeverBuys
<1>1. LockInv => StoppedNeverBuys
  BY DEF LockInv
<1> QED BY <1>1, LockInvariance, PTL

\* Every variable has its type: no position, order or fill exceeds one order's
\* amount (sandbox.py:83-113).
THEOREM TypesHold ==
  ASSUME LockKept
  PROVE  Spec => []TypeOK
<1>1. LockInv => TypeOK
  <2> SUFFICES ASSUME LockInv
               PROVE  TypeOK
    OBVIOUS
  <2>1. /\ Types /\ OrderAmount \in Nat /\ AccountInv
        /\ \A b \in Bots : position[b] <= OrderAmount
    BY BoundsAssumption DEF LockInv, AccountInv
  <2>2. bots \in [Bots -> [state: BotState, revision: 1 .. MaxRevision + 1,
                           failures: 0 .. FailureLimit, close: BOOLEAN]]
    BY <2>1 DEF Types, Bot
  <2>3. position \in [Bots -> 0 .. OrderAmount]
    <3>1. position \in [Bots -> Nat]
      BY <2>1 DEF Types
    <3>2. \A b \in Bots : position[b] \in 0 .. OrderAmount
      BY <2>1, <3>1
    <3> QED BY <3>1, <3>2
  <2>4. ASSUME NEW i \in Ids
        PROVE  /\ orders[i] \in [status: {"none"} \cup Active \cup Terminal,
                                 side: {"none", "buy", "sell"}, amount: 0 .. OrderAmount,
                                 filled: 0 .. OrderAmount]
               /\ venue[i] \in [status: VenueStatus, filled: 0 .. OrderAmount]
    <3>1. /\ orders[i] \in OrderRow /\ venue[i] \in Remote
          /\ orders[i].filled <= venue[i].filled /\ venue[i].filled <= orders[i].amount
          /\ orders[i].amount <= OrderAmount
      BY <2>1, OrderKnown DEF OrderOK, LockInv, Backed
    <3>2. /\ orders[i].amount \in 0 .. OrderAmount /\ orders[i].filled \in 0 .. OrderAmount
          /\ venue[i].filled \in 0 .. OrderAmount
      BY <2>1, <3>1 DEF OrderRow, Remote
    <3> QED BY <3>1, <3>2 DEF OrderRow, Remote
  <2>5. /\ orders \in [Ids -> [status: {"none"} \cup Active \cup Terminal,
                               side: {"none", "buy", "sell"}, amount: 0 .. OrderAmount,
                               filled: 0 .. OrderAmount]]
        /\ venue \in [Ids -> [status: VenueStatus, filled: 0 .. OrderAmount]]
    BY <2>1, <2>4 DEF Types
  <2>6. \A w \in Workers : job[w].pc \in Step
    BY <2>1 DEF Types, Job
  <2>7. decisions \in [Bots -> SUBSET Keys] /\ active \in BOOLEAN
        /\ holder \in Workers \cup {NoOne} /\ candle \in 1 .. MaxCandle
    BY <2>1 DEF Types
  <2> QED BY <2>2, <2>3, <2>5, <2>6, <2>7 DEF TypeOK
<1> QED BY <1>1, LockInvariance, PTL

\* What the orders of one bot may trade, what they did and what is booked.
LEMMA ExposureOfBot ==
  ASSUME LockInv, NEW b \in Bots
  PROVE  /\ Exposure(b, "sell") <= BoughtNet(b)
         /\ Exposure(b, "buy") <= OrderAmount + Sold(b) + (Bought(b) - BoughtNet(b))
<1> DEFINE S == SideOf(b, "sell")
           B == SideOf(b, "buy")
           held == position[b]
           F == [k \in Ids |-> orders[k].filled]
           V == [k \in Ids |-> venue[k].filled]
           M == [k \in Ids |-> MayTrade(k)]
           NF == [k \in Ids |-> Net(orders[k].filled)]
           NV == [k \in Ids |-> Net(venue[k].filled)]
           P == [k \in Ids |-> Pending(orders[k], venue[k])]
<1>1. /\ S \subseteq Ids /\ B \subseteq Ids /\ IsFiniteSet(S) /\ IsFiniteSet(B)
      /\ \A k \in S : orders[k].side = "sell" /\ k[1] = b
      /\ \A k \in B : orders[k].side = "buy" /\ k[1] = b
  <2>1. S \subseteq Ids /\ B \subseteq Ids
    BY DEF SideOf, OrdersOf
  <2>2. IsFiniteSet(S) /\ IsFiniteSet(B)
    BY <2>1, IdsFinite, FS_Subset
  <2> QED BY <2>1, <2>2 DEF SideOf, OrdersOf
<1>2. AccountInv /\ held \in Nat /\ held <= OrderAmount /\ OrderAmount \in Nat
  BY BoundsAssumption DEF LockInv, AccountInv, Types
<1>3. ASSUME NEW k \in Ids
      PROVE  /\ F[k] \in Nat /\ V[k] \in Nat /\ M[k] \in Nat /\ NF[k] \in Nat /\ NV[k] \in Nat
             /\ F[k] <= V[k] /\ NF[k] <= NV[k] /\ NV[k] <= V[k]
             /\ M[k] <= orders[k].amount /\ orders[k].amount <= OrderAmount
             /\ orders[k].amount \in Nat
             /\ ~P[k] => F[k] = V[k] /\ M[k] = V[k] /\ NF[k] = NV[k]
             /\ Backed(orders[k], venue[k], position[k[1]])
  <2>1. /\ orders[k] \in OrderRow /\ venue[k] \in Remote
        /\ OrderOK(orders[k], venue[k], sends[k])
        /\ Backed(orders[k], venue[k], position[k[1]])
    BY <1>2, OrderKnown DEF LockInv
  <2>2. /\ F[k] \in Nat /\ V[k] \in Nat /\ F[k] <= V[k] /\ WholeLots(F[k]) /\ WholeLots(V[k])
        /\ orders[k].amount \in Nat /\ V[k] <= orders[k].amount
    BY <2>1 DEF OrderOK, OrderRow, Remote
  <2>3. NF[k] = Net(F[k]) /\ NV[k] = Net(V[k])
    OBVIOUS
  <2>4. NF[k] \in Nat /\ NV[k] \in Nat /\ NF[k] <= NV[k] /\ NV[k] <= V[k]
    <3> DEFINE f == F[k]
               v == V[k]
    <3>1. f \in Nat /\ v \in Nat /\ f <= v /\ WholeLots(f) /\ WholeLots(v)
      BY <2>2
    <3>2. NF[k] = Net(f) /\ NV[k] = Net(v)
      BY <2>3
    <3> HIDE DEF f, v, NF, NV
    <3>3. /\ Net(f) \in Nat /\ Net(v - f) = Net(v) - Net(f) /\ Net(v - f) \in Nat
      BY <3>1, NetOfLots
    <3>4. Net(v) \in Nat /\ Net(v) <= v
      BY <3>1, NetOfLots
    <3>5. Net(f) <= Net(v)
      BY <3>3, <3>4
    <3> QED BY <3>2, <3>3, <3>4, <3>5 DEF v
  <2>5. M[k] = IF Live(k) THEN orders[k].amount ELSE V[k]
    BY DEF MayTrade
  <2>6. ~P[k] => F[k] = V[k] /\ ~Live(k)
    <3>1. ~P[k] => ~Live(k)
      BY <1>2, LiveIsPending
    <3>2. ~P[k] /\ orders[k].status = "none" => F[k] = V[k]
      BY <2>1 DEF OrderOK, NoOrder, NoRemote
    <3> QED BY <3>1, <3>2 DEF Pending
  <2>7. orders[k].amount <= OrderAmount
    BY <2>1 DEF Backed
  <2>8. ~P[k] => M[k] = V[k] /\ NF[k] = NV[k]
    BY <2>3, <2>5, <2>6
  <2> HIDE DEF F, V, M, NF, NV, P
  <2> QED BY <2>1, <2>2, <2>4, <2>5, <2>6, <2>7, <2>8
<1>4. \A k, l \in Ids : P[k] /\ P[l] => k = l
  <2> SUFFICES ASSUME NEW k \in Ids, NEW l \in Ids, P[k], P[l]
               PROVE  k = l
    OBVIOUS
  <2>1. k \in Unresolved /\ l \in Unresolved
    BY <1>2, OrderKnown, PendingIsActive DEF Unresolved
  <2> QED BY <1>2, <2>1 DEF AccountInv, OneUnresolved
<1>5. held + Total(S, F) = Total(B, NF)
  BY <1>2 DEF AccountInv, PositionMatchesFills
<1>6. \A k \in S : P[k] => M[k] <= held + F[k]
  <2> SUFFICES ASSUME NEW k \in S, P[k]
               PROVE  M[k] <= held + F[k]
    OBVIOUS
  <2>1. orders[k].amount <= held + F[k]
    BY <1>1, <1>3 DEF Backed
  <2>2. M[k] \in Nat /\ F[k] \in Nat /\ M[k] <= orders[k].amount /\ orders[k].amount \in Nat
    BY <1>1, <1>3
  <2> HIDE DEF M, F, held
  <2> QED BY <1>2, <2>1, <2>2
<1>7. \A k \in B : P[k] => held = NF[k]
  BY <1>1, <1>3 DEF Backed
<1>8. /\ Exposure(b, "sell") = Total(S, M) /\ Exposure(b, "buy") = Total(B, M)
      /\ Bought(b) = Total(B, V) /\ BoughtNet(b) = Total(B, NV) /\ Sold(b) = Total(S, V)
  BY DEF Exposure, Bought, BoughtNet, Sold
<1> HIDE DEF S, B, held, F, V, M, NF, NV, P
<1>9. /\ Total(S, F) \in Nat /\ Total(S, V) \in Nat /\ Total(S, M) \in Nat
      /\ Total(B, V) \in Nat /\ Total(B, M) \in Nat
      /\ Total(B, NF) \in Nat /\ Total(B, NV) \in Nat
  BY <1>1, <1>3, TotalNat
<1>10. Total(B, NF) <= Total(B, NV) /\ Total(S, F) <= Total(S, V)
  BY <1>1, <1>3, TotalMonotone
<1>11. Total(S, M) <= Total(B, NV)
  <2>1. \/ Total(S, M) = Total(S, F)
        \/ \E i \in S : P[i] /\ Total(S, M) = Total(S, F) - F[i] + M[i]
    <3>1. \A k \in S : F[k] \in Nat /\ M[k] \in Nat /\ (~P[k] => F[k] = M[k])
      BY <1>1, <1>3
    <3>2. CASE \A k \in S : ~P[k]
      <4>1. \A k \in S : F[k] = M[k]
        BY <3>1, <3>2
      <4> QED BY <4>1, TotalSame
    <3>3. ASSUME NEW i \in S, P[i]
          PROVE  Total(S, M) = Total(S, F) - F[i] + M[i]
      <4>1. \A k \in S \ {i} : M[k] = F[k]
        BY <1>1, <1>4, <3>1, <3>3
      <4> QED BY <1>1, <3>1, <4>1, TotalOneChange
    <3> QED BY <3>2, <3>3
  <2>2. Total(S, M) <= Total(S, F) + held
    <3>1. CASE Total(S, M) = Total(S, F)
      BY <1>2, <1>9, <3>1
    <3>2. ASSUME NEW i \in S, P[i], Total(S, M) = Total(S, F) - F[i] + M[i]
          PROVE  Total(S, M) <= Total(S, F) + held
      <4>1. M[i] <= held + F[i] /\ M[i] \in Nat /\ F[i] \in Nat
        BY <1>1, <1>3, <1>6, <3>2
      <4> QED BY <1>2, <1>9, <3>2, <4>1
    <3> QED BY <2>1, <3>1, <3>2
  <2> QED BY <1>2, <1>5, <1>9, <1>10, <2>2
<1>12. Total(B, M) <= OrderAmount + Total(S, V) + (Total(B, V) - Total(B, NV))
  <2>1. \A k, l \in B : P[k] /\ P[l] => k = l
    BY <1>1, <1>4
  <2>2. CASE \A k \in B : ~P[k]
    <3>1. Total(B, M) = Total(B, V) /\ Total(B, NV) = Total(B, NF)
      <4>1. \A k \in B : V[k] = M[k] /\ NV[k] = NF[k]
        BY <1>1, <1>3, <2>2
      <4>2. Total(B, V) = Total(B, M)
        BY <4>1, TotalSame
      <4>3. Total(B, NV) = Total(B, NF)
        BY <4>1, TotalSame
      <4> QED BY <4>2, <4>3
    <3> QED BY <1>2, <1>5, <1>9, <1>10, <3>1
  <2>3. ASSUME NEW i \in B, P[i]
        PROVE  Total(B, M) <= OrderAmount + Total(S, V) + (Total(B, V) - Total(B, NV))
    <3>1. \A k \in B \ {i} : M[k] = V[k] /\ NV[k] = NF[k]
      BY <1>1, <1>3, <2>1, <2>3
    <3>2. \A k \in B : M[k] \in Nat /\ V[k] \in Nat /\ NV[k] \in Nat /\ NF[k] \in Nat
      BY <1>1, <1>3
    <3>3. Total(B, M) = Total(B, V) - V[i] + M[i]
      BY <1>1, <3>1, <3>2, TotalOneChange
    <3>4. Total(B, NV) = Total(B, NF) - NF[i] + NV[i]
      BY <1>1, <3>1, <3>2, TotalOneChange
    <3>5. held = NF[i] /\ NV[i] <= V[i] /\ M[i] <= OrderAmount
      <4>1. M[i] <= orders[i].amount /\ orders[i].amount <= OrderAmount /\ orders[i].amount \in Nat
        BY <1>1, <1>3
      <4> QED BY <1>1, <1>2, <1>3, <1>7, <2>3, <3>2, <4>1
    <3> QED BY <1>2, <1>5, <1>9, <1>10, <2>3, <3>2, <3>3, <3>4, <3>5
  <2> QED BY <2>2, <2>3
<1> QED BY <1>8, <1>11, <1>12

\* Counting what live orders may still trade, a bot never sells more than it
\* bought and never holds more than one order's amount (sandbox.py:83-113).
THEOREM ExposureIsBounded ==
  ASSUME LockKept
  PROVE  Spec => []ExposureBounded
<1>1. LockInv => ExposureBounded
  BY ExposureOfBot DEF ExposureBounded
<1> QED BY <1>1, LockInvariance, PTL

-----------------------------------------------------------------------------
(***************************************************************************)
(* Refinement: the ledger's variables, as functions of the engine's.       *)
(***************************************************************************)
Phases == [i \in Ids |-> Phase(orders[i].status)]
Executed == [i \in Ids |-> venue[i].filled]
Booked == [i \in Ids |-> orders[i].filled]

LedgerStep == [Ledger!Next]_<<Phases, Executed, Booked>>

LEMMA LedgerOpens ==
  ASSUME NEW i \in Ids, \A k \in Ids : Phases[k] # "open", Phases[i] \in {"new", "settled"},
         Phases' = [Phases EXCEPT ![i] = "open"], UNCHANGED <<Executed, Booked>>
  PROVE  LedgerStep
<1>1. Ledger!Open(i)
  BY DEF Ledger!Open, Ledger!OpenOrders, Phases, Executed, Booked
<1> QED BY <1>1 DEF LedgerStep, Ledger!Next

LEMMA LedgerExecutes ==
  ASSUME NEW i \in Ids, Phases[i] = "open", NEW q \in Executed[i] + 1 .. OrderAmount,
         Executed' = [Executed EXCEPT ![i] = q], UNCHANGED <<Phases, Booked>>
  PROVE  LedgerStep
<1>1. Ledger!Execute(i)
  BY DEF Ledger!Execute, Phases, Executed, Booked
<1> QED BY <1>1 DEF LedgerStep, Ledger!Next

LEMMA LedgerRecords ==
  ASSUME NEW i \in Ids, Phases[i] = "open", NEW q \in Booked[i] .. Executed[i],
         Booked' = [Booked EXCEPT ![i] = q], UNCHANGED <<Phases, Executed>>
  PROVE  LedgerStep
<1>1. Ledger!Record(i)
  BY DEF Ledger!Record, Phases, Executed, Booked
<1> QED BY <1>1 DEF LedgerStep, Ledger!Next

LEMMA LedgerSettles ==
  ASSUME NEW i \in Ids, Phases[i] = "open",
         Booked' = [Booked EXCEPT ![i] = Executed[i]],
         Phases' = [Phases EXCEPT ![i] = "settled"], UNCHANGED Executed
  PROVE  LedgerStep
<1>1. Ledger!Settle(i)
  BY DEF Ledger!Settle, Phases, Executed, Booked
<1> QED BY <1>1 DEF LedgerStep, Ledger!Next

LEMMA LedgerRests ==
  ASSUME UNCHANGED <<Phases, Executed, Booked>>
  PROVE  LedgerStep
BY DEF LedgerStep

LEMMA PhaseOf ==
  ASSUME NEW st \in {"none"} \cup Active \cup Terminal
  PROVE  /\ Phase(st) = "new" <=> st = "none"
         /\ Phase(st) = "open" <=> st \in Active
         /\ Phase(st) = "settled" <=> st \in Terminal
BY DEF Phase, Active, Terminal

\* Two functions that differ in one place.
LEMMA DifferInOne ==
  ASSUME NEW S, NEW f, NEW g, f = [k \in S |-> f[k]], g = [k \in S |-> g[k]], NEW i \in S,
         \A k \in S \ {i} : g[k] = f[k]
  PROVE  g = [f EXCEPT ![i] = g[i]]
<1>1. [f EXCEPT ![i] = g[i]] = [k \in S |-> IF k = i THEN g[i] ELSE f[k]]
  OBVIOUS
<1>2. \A k \in S : g[k] = IF k = i THEN g[i] ELSE f[k]
  OBVIOUS
<1>3. [k \in S |-> g[k]] = [k \in S |-> IF k = i THEN g[i] ELSE f[k]]
  BY <1>2
<1> QED BY <1>1, <1>3

\* A step that writes one order's row.
LEMMA RowInLedger ==
  ASSUME Types, NEW i \in Ids, NEW p, orders' = [orders EXCEPT ![i] = p], UNCHANGED venue
  PROVE  /\ Phases' = [Phases EXCEPT ![i] = Phase(p.status)]
         /\ Booked' = [Booked EXCEPT ![i] = p.filled]
         /\ UNCHANGED Executed
<1> DEFINE P == [k \in Ids |-> Phase(orders'[k].status)]
           B == [k \in Ids |-> orders'[k].filled]
<1>1. /\ orders'[i] = p
      /\ \A k \in Ids \ {i} : orders'[k] = orders[k]
  BY DEF Types
<1>2. Phases' = P /\ Booked' = B
  BY DEF Phases, Phase, Booked
<1>3. /\ P[i] = Phase(p.status) /\ B[i] = p.filled
      /\ \A k \in Ids \ {i} : P[k] = Phases[k] /\ B[k] = Booked[k]
  BY <1>1 DEF Phases, Booked
<1>4. /\ P = [k \in Ids |-> P[k]] /\ B = [k \in Ids |-> B[k]]
      /\ Phases = [k \in Ids |-> Phases[k]] /\ Booked = [k \in Ids |-> Booked[k]]
  BY DEF Phases, Booked
<1> HIDE DEF P, B
<1>5. P = [Phases EXCEPT ![i] = P[i]]
  BY <1>3, <1>4, DifferInOne
<1>6. B = [Booked EXCEPT ![i] = B[i]]
  BY <1>3, <1>4, DifferInOne
<1>7. UNCHANGED Executed
  BY DEF Executed
<1> QED BY <1>2, <1>3, <1>5, <1>6, <1>7

\* A step at the exchange.
LEMMA VenueInLedger ==
  ASSUME Types, NEW i \in Ids, NEW s, venue' = [venue EXCEPT ![i] = s], UNCHANGED orders
  PROVE  /\ Executed' = [Executed EXCEPT ![i] = s.filled]
         /\ UNCHANGED <<Phases, Booked>>
<1> DEFINE E == [k \in Ids |-> venue'[k].filled]
<1>1. /\ venue'[i] = s
      /\ \A k \in Ids \ {i} : venue'[k] = venue[k]
  BY DEF Types
<1>2. Executed' = E
  BY DEF Executed
<1>3. E[i] = s.filled /\ \A k \in Ids \ {i} : E[k] = Executed[k]
  BY <1>1 DEF Executed
<1>4. E = [k \in Ids |-> E[k]] /\ Executed = [k \in Ids |-> Executed[k]]
  BY DEF Executed
<1> HIDE DEF E
<1>5. E = [Executed EXCEPT ![i] = E[i]]
  BY <1>3, <1>4, DifferInOne
<1>6. UNCHANGED <<Phases, Booked>>
  BY DEF Phases, Booked, Phase
<1> QED BY <1>2, <1>3, <1>5, <1>6

\* What the ledger sees of one order.
LEMMA LedgerKnows ==
  ASSUME LockInv, NEW i \in Ids
  PROVE  /\ AccountInv /\ Types /\ orders[i] \in OrderRow /\ venue[i] \in Remote
         /\ OrderOK(orders[i], venue[i], sends[i])
         /\ Phases[i] = Phase(orders[i].status)
         /\ Phases[i] = "new" <=> orders[i].status = "none"
         /\ Phases[i] = "open" <=> orders[i].status \in Active
         /\ Phases[i] = "settled" <=> orders[i].status \in Terminal
         /\ Executed[i] = venue[i].filled /\ Booked[i] = orders[i].filled
         /\ Phases = [Phases EXCEPT ![i] = Phases[i]]
         /\ Booked = [Booked EXCEPT ![i] = Booked[i]]
         /\ Executed = [Executed EXCEPT ![i] = Executed[i]]
<1>1. /\ AccountInv /\ Types /\ orders[i] \in OrderRow /\ venue[i] \in Remote
      /\ OrderOK(orders[i], venue[i], sends[i])
  BY OrderKnown DEF LockInv
<1>2. orders[i].status \in {"none"} \cup Active \cup Terminal
  BY <1>1 DEF OrderRow
<1>3. /\ Phases[i] = Phase(orders[i].status)
      /\ Executed[i] = venue[i].filled /\ Booked[i] = orders[i].filled
  BY DEF Phases, Executed, Booked
<1>4. /\ Phases = [k \in Ids |-> Phases[k]] /\ Booked = [k \in Ids |-> Booked[k]]
      /\ Executed = [k \in Ids |-> Executed[k]]
  BY DEF Phases, Booked, Executed
<1>5. /\ Phases = [Phases EXCEPT ![i] = Phases[i]]
      /\ Booked = [Booked EXCEPT ![i] = Booked[i]]
      /\ Executed = [Executed EXCEPT ![i] = Executed[i]]
  BY <1>4, DifferInOne
<1> QED BY <1>1, <1>2, <1>3, <1>5, PhaseOf

\* A step without orders or exchange is none of the ledger's.
LEMMA OrdersRest ==
  ASSUME UNCHANGED <<orders, venue>>
  PROVE  LedgerStep
<1>1. UNCHANGED <<Phases, Executed, Booked>>
  BY DEF Phases, Executed, Booked, Phase
<1> QED BY <1>1, LedgerRests

\* What the exchange trades is an execution, what else it does is no step.
LEMMA ExchangeInLedger ==
  ASSUME LockInv, NEW i \in Ids, Exchange(i) \/ Lose(i)
  PROVE  LedgerStep
<1>1. /\ Types /\ Phases[i] = "open" /\ Executed[i] = venue[i].filled /\ venue[i].filled \in Nat
      /\ orders[i].amount \in Nat /\ orders[i].amount <= OrderAmount /\ OrderAmount \in Nat
      /\ Executed = [Executed EXCEPT ![i] = Executed[i]]
      /\ venue[i].status = "sent" => venue[i].filled = 0
      /\ venue[i].status = "NEW" => venue[i].filled < orders[i].amount
  <2>1. venue[i].status \in {"sent", "NEW"}
    BY DEF Exchange, Accept, Refuse, Match, Complete, Lose
  <2>2. orders[i].status \in Active
    BY <2>1, LedgerKnows, AtTheExchange, PendingIsActive, OrderKnown
  <2>3. orders[i].amount <= OrderAmount
    BY DEF LockInv, Backed
  <2> QED BY <2>2, <2>3, LedgerKnows, BoundsAssumption DEF OrderOK, OrderRow, Remote, Answered, Final
<1>2. ASSUME NEW st, NEW f, VenueMoves(i, st, f)
      PROVE  Executed' = [Executed EXCEPT ![i] = f] /\ UNCHANGED <<Phases, Booked>>
  <2> DEFINE s == [status |-> st, filled |-> f]
  <2>1. venue' = [venue EXCEPT ![i] = s] /\ UNCHANGED orders /\ s.filled = f
    BY <1>2 DEF VenueMoves, db
  <2> HIDE DEF s
  <2> QED BY <1>1, <2>1, VenueInLedger
<1>3. ASSUME NEW st, VenueMoves(i, st, venue[i].filled)
      PROVE  LedgerStep
  <2>1. UNCHANGED <<Phases, Executed, Booked>>
    BY <1>1, <1>2, <1>3
  <2> QED BY <2>1, LedgerRests
<1>4. ASSUME NEW st, NEW q \in Nat, VenueMoves(i, st, q), q > venue[i].filled, q <= orders[i].amount
      PROVE  LedgerStep
  <2>1. q \in Executed[i] + 1 .. OrderAmount
    BY <1>1, <1>4
  <2> QED BY <1>1, <1>2, <1>4, <2>1, LedgerExecutes
<1>5. CASE Accept(i) \/ Refuse(i) \/ Lose(i)
  BY <1>1, <1>3, <1>5 DEF Accept, Refuse, Lose
<1>6. CASE Match(i)
  <2>1. PICK q \in LotsUpTo(orders[i].amount) :
          q > venue[i].filled /\ q < orders[i].amount /\ VenueMoves(i, "NEW", q)
    BY <1>6 DEF Match
  <2>2. q \in Nat /\ q <= orders[i].amount
    BY <1>1, <2>1 DEF LotsUpTo
  <2> QED BY <1>4, <2>1, <2>2
<1>7. CASE Complete(i)
  <2>1. orders[i].amount > venue[i].filled
    BY <1>1, <1>7 DEF Complete
  <2> QED BY <1>1, <1>3, <1>4, <1>7, <2>1 DEF Complete
<1> QED BY <1>5, <1>6, <1>7 DEF Exchange

\* A submission and a cancellation trade nothing.
LEMMA SubmitInLedger ==
  ASSUME LockInv, NEW w \in Workers, Submit(w) \/ CancelRemainder(w)
  PROVE  LedgerStep
<1> DEFINE i == job[w].id
           st == IF venue[i].status = "NEW" THEN "CANCELED" ELSE venue[i].status
<1>1. i \in Ids /\ UNCHANGED orders
  BY LockedKnows DEF Submit, CancelRemainder, WithOrder, db
<1>2. /\ Types /\ venue \in [Ids -> Remote] /\ venue[i] \in Remote
      /\ Executed[i] = venue[i].filled
      /\ Executed = [Executed EXCEPT ![i] = Executed[i]]
  BY <1>1, LedgerKnows DEF Types
<1>3. \E s : venue' = [venue EXCEPT ![i] = s] /\ s.filled = venue[i].filled
  <2>1. CASE Submit(w)
    <3> DEFINE s == [venue[i] EXCEPT !.status = "sent"]
    <3>1. venue' = [venue EXCEPT ![i] = s] /\ s.filled = venue[i].filled
      BY <1>2, <2>1 DEF Submit, Remote
    <3> QED BY <3>1
  <2>2. CASE CancelRemainder(w)
    <3> DEFINE s == [venue[i] EXCEPT !.status = st]
    <3>1. venue' = [venue EXCEPT ![i] = s] /\ s.filled = venue[i].filled
      BY <1>2, <2>2 DEF CancelRemainder, Remote
    <3> QED BY <3>1
  <2> QED BY <2>1, <2>2
<1>4. PICK s : venue' = [venue EXCEPT ![i] = s] /\ s.filled = venue[i].filled
  BY <1>3
<1> HIDE DEF i
<1>5. UNCHANGED <<Phases, Executed, Booked>>
  BY <1>1, <1>2, <1>4, VenueInLedger
<1> QED BY <1>5, LedgerRests

\* A reservation opens an order.
LEMMA ReserveInLedger ==
  ASSUME LockInv, NEW w \in Workers, ReserveOrder(w)
  PROVE  LedgerStep
<1> DEFINE i == job[w].id
           p == [status |-> "submitting", side |-> job[w].side, amount |-> job[w].amount,
                 filled |-> 0]
<1>1. /\ job[w].pc = "reserve" /\ ~Decided(w) /\ Unresolved = {} /\ UNCHANGED venue
      /\ orders' = [orders EXCEPT ![i] = p]
  BY DEF ReserveOrder, MayReserve, RiskRefuses, OrderOutstanding, world
<1>2. i \in Ids /\ AccountInv /\ i[1] = job[w].bot
  BY <1>1, LockedKnows, WorkerKnows DEF JobOK, WithOrder
<1>3. /\ orders[i] = NoOrder /\ Phases[i] = "new" /\ Booked[i] = 0 /\ Types
      /\ Booked = [Booked EXCEPT ![i] = Booked[i]]
  <2>1. orders[i].status = "none"
    BY <1>1, <1>2 DEF Decided, AccountInv, OrdersOK
  <2>2. orders[i] = NoOrder
    BY <1>2, <2>1, OrderKnown DEF OrderOK
  <2> QED BY <1>2, <2>1, <2>2, LedgerKnows DEF NoOrder
<1>4. p.filled = 0 /\ Phase(p.status) = "open"
  BY DEF Phase, Active
<1>5. \A k \in Ids : Phases[k] # "open"
  BY <1>1, LedgerKnows DEF Unresolved
<1> HIDE DEF i, p
<1>6. Phases' = [Phases EXCEPT ![i] = "open"] /\ UNCHANGED <<Executed, Booked>>
  <2>1. /\ Phases' = [Phases EXCEPT ![i] = Phase(p.status)]
        /\ Booked' = [Booked EXCEPT ![i] = p.filled] /\ UNCHANGED Executed
    BY <1>1, <1>2, <1>3, RowInLedger
  <2> QED BY <1>3, <1>4, <2>1
<1> QED BY <1>2, <1>3, <1>5, <1>6, LedgerOpens

\* The exchange's refusal settles an order without fills.
LEMMA RejectionInLedger ==
  ASSUME LockInv, NEW w \in Workers, RecordRejection(w)
  PROVE  LedgerStep
<1> DEFINE i == job[w].id
           p == [orders[i] EXCEPT !.status = "rejected"]
<1>1. job[w].pc = "rejected" /\ i \in Ids /\ UNCHANGED venue /\ orders[i].status \in Active
  BY LockedKnows DEF RecordRejection, WithOrder, LockedOK, world
<1>2. /\ Types /\ orders[i] \in OrderRow /\ Phases[i] = "open"
      /\ Executed[i] = venue[i].filled /\ Booked[i] = orders[i].filled
      /\ OrderOK(orders[i], venue[i], sends[i]) /\ venue[i] \in Remote
  BY <1>1, LedgerKnows
<1>3. CASE active
  <2>1. venue[i].status = "refused"
    BY <1>1, LockedKnows, WorkerKnows DEF JobOK
  <2>2. orders[i].filled = 0 /\ venue[i].filled = 0
    BY <1>2, <2>1 DEF OrderOK, OrderRow, Remote, Answered, Final
  <2>3. orders' = [orders EXCEPT ![i] = p]
    BY <1>1, <1>2, <1>3 DEF RecordRejection, Types
  <2>4. p.filled = Executed[i] /\ Phase(p.status) = "settled"
    BY <1>2, <2>2 DEF OrderRow, Phase, Active
  <2> HIDE DEF i, p
  <2>5. /\ Booked' = [Booked EXCEPT ![i] = Executed[i]]
        /\ Phases' = [Phases EXCEPT ![i] = "settled"] /\ UNCHANGED Executed
    <3>1. /\ Phases' = [Phases EXCEPT ![i] = Phase(p.status)]
          /\ Booked' = [Booked EXCEPT ![i] = p.filled] /\ UNCHANGED Executed
      BY <1>1, <1>2, <2>3, RowInLedger
    <3> QED BY <2>4, <3>1
  <2> QED BY <1>1, <1>2, <2>5, LedgerSettles
<1>4. CASE ~active
  <2>1. UNCHANGED <<orders, venue>>
    BY <1>1, <1>4 DEF RecordRejection
  <2> QED BY <2>1, OrdersRest
<1> QED BY <1>3, <1>4

\* An order that is marked unresolved stays open, or is opened again.
LEMMA UnknownInLedger ==
  ASSUME LockInv, NEW w \in Workers, MarkUnknown(w)
  PROVE  LedgerStep
<1> DEFINE i == job[w].id
           p == [orders[i] EXCEPT !.status = "unknown"]
<1>1. /\ job[w].pc = "unknown" /\ i \in Ids /\ UNCHANGED venue /\ orders[i].status # "none"
  BY LockedKnows, WorkerHasOrder DEF MarkUnknown, WithOrder, world
<1>2. /\ Types /\ orders[i] \in OrderRow
      /\ Phases[i] = "open" <=> orders[i].status \in Active
      /\ Phases[i] \in {"open", "settled"}
      /\ Booked[i] = orders[i].filled
      /\ Phases = [Phases EXCEPT ![i] = Phases[i]]
      /\ Booked = [Booked EXCEPT ![i] = Booked[i]]
  BY <1>1, LedgerKnows DEF OrderRow
<1>3. CASE active /\ OnlyUnresolved(i)
  <2>1. orders' = [orders EXCEPT ![i] = p]
    BY <1>1, <1>2, <1>3 DEF MarkUnknown, Types
  <2>2. p.filled = Booked[i] /\ Phase(p.status) = "open"
    BY <1>2 DEF OrderRow, Phase, Active
  <2> HIDE DEF i, p
  <2>3. Phases' = [Phases EXCEPT ![i] = "open"] /\ UNCHANGED <<Executed, Booked>>
    <3>1. /\ Phases' = [Phases EXCEPT ![i] = Phase(p.status)]
          /\ Booked' = [Booked EXCEPT ![i] = p.filled] /\ UNCHANGED Executed
      BY <1>1, <1>2, <2>1, RowInLedger
    <3> QED BY <1>2, <2>2, <3>1
  <2>4. CASE Phases[i] = "open"
    <3>1. UNCHANGED <<Phases, Executed, Booked>>
      BY <1>2, <2>3, <2>4
    <3> QED BY <3>1, LedgerRests
  <2>5. CASE Phases[i] = "settled"
    <3>1. \A k \in Ids : Phases[k] # "open"
      <4> SUFFICES ASSUME NEW k \in Ids, Phases[k] = "open"
                   PROVE  FALSE
        OBVIOUS
      <4>1. k \in Unresolved
        BY LedgerKnows DEF Unresolved
      <4>2. k = i
        BY <1>3, <4>1 DEF OnlyUnresolved
      <4> QED BY <2>5, <4>2
    <3> QED BY <1>1, <2>3, <2>5, <3>1, LedgerOpens
  <2> QED BY <1>2, <2>4, <2>5
<1>4. CASE ~(active /\ OnlyUnresolved(i))
  <2>1. UNCHANGED <<orders, venue>>
    BY <1>1, <1>4 DEF MarkUnknown
  <2> QED BY <2>1, OrdersRest
<1> QED BY <1>3, <1>4

\* Booking records what was traded, and with a final answer settles the order.
LEMMA ApplyInLedger ==
  ASSUME LockInv, NEW w \in Workers, Apply(w) \/ ApplyUnconfirmed(w)
  PROVE  LedgerStep
<1> DEFINE i == job[w].id
           remote == job[w].remote
           p == OrderAfter(i, remote)
<1>1. /\ job[w].pc = "apply" /\ i \in Ids /\ UNCHANGED venue /\ orders[i].status \in Active
  BY LockedKnows DEF Apply, ApplyUnconfirmed, WithOrder, LockedOK, world
<1>2. /\ AccountInv /\ Types /\ orders[i] \in OrderRow /\ venue[i] \in Remote /\ sends[i] \in Nat
      /\ Phases[i] = "open" /\ OrderOK(orders[i], venue[i], sends[i])
      /\ Executed[i] = venue[i].filled /\ Booked[i] = orders[i].filled
      /\ Phases = [Phases EXCEPT ![i] = Phases[i]]
  BY <1>1, LedgerKnows, OrderKnown
<1>3. CASE ~Applicable(i, remote)
  <2>1. UNCHANGED <<orders, venue>>
    BY <1>1, <1>3 DEF Apply, ApplyUnconfirmed, db
  <2> QED BY <2>1, OrdersRest
<1>4. CASE Applicable(i, remote)
  <2>1. orders' = [orders EXCEPT ![i] = p]
    BY <1>4 DEF Apply, ApplyUnconfirmed, Book
  <2>2. /\ remote \in Remote /\ remote.status \in Answered /\ venue[i].status \in Answered
        /\ remote.status \in Final => remote = venue[i]
        /\ remote.filled <= venue[i].filled /\ WholeLots(remote.filled)
    BY <1>1, <1>2, WorkerKnows DEF JobOK, Job
  <2>3. orders[i].filled <= remote.filled
    BY <1>2, <1>4, <2>2 DEF Applicable, OrderRow, Remote
  <2>4. /\ p.status = StoredStatus(remote) /\ p.filled = remote.filled
        /\ p.side = orders[i].side /\ p.amount = orders[i].amount
    BY <1>2 DEF OrderAfter, OrderRow
  <2> HIDE DEF i, p, remote
  <2>5. p.status \in Terminal => p.filled = venue[i].filled
    <3> DEFINE o == orders[i]
               r == venue[i]
               n == sends[i]
    <3>1. /\ o \in OrderRow /\ r \in Remote /\ n \in Nat /\ OrderOK(o, r, n)
          /\ o.status # "none" /\ r.status \in Answered
          /\ remote.status \in Final => remote = r
          /\ remote.filled <= r.filled /\ o.filled <= remote.filled
          /\ p.side = o.side /\ p.amount = o.amount
      BY <1>1, <1>2, <2>2, <2>3, <2>4 DEF Active
    <3> HIDE DEF o, r, n
    <3>2. p.status \in Terminal => p.filled = r.filled
      BY <2>2, <2>4, <3>1, BookedRow
    <3> QED BY <3>2 DEF r
  <2>6. p.status \in Active \cup Terminal
    BY <2>4, StoredStatusKnown
  <2>7. /\ Phases' = [Phases EXCEPT ![i] = Phase(p.status)]
        /\ Booked' = [Booked EXCEPT ![i] = p.filled] /\ UNCHANGED Executed
    BY <1>1, <1>2, <2>1, RowInLedger
  <2>8. CASE p.status \in Terminal
    <3>1. Phase(p.status) = "settled" /\ p.filled = Executed[i]
      BY <1>2, <2>5, <2>8, PhaseOf
    <3> QED BY <1>1, <1>2, <2>7, <3>1, LedgerSettles
  <2>9. CASE p.status \in Active
    <3>1. Phase(p.status) = "open"
      BY <2>9 DEF Phase, Active
    <3>2. p.filled \in Booked[i] .. Executed[i]
      BY <1>2, <2>2, <2>3, <2>4 DEF OrderRow, Remote
    <3>3. UNCHANGED Phases
      BY <1>2, <2>7, <3>1
    <3> QED BY <1>1, <1>2, <2>7, <3>2, <3>3, LedgerRecords
  <2> QED BY <2>6, <2>8, <2>9
<1> QED BY <1>3, <1>4

LEMMA NextInLedger ==
  ASSUME LockInv, [Next]_vars
  PROVE  LedgerStep
<1>1. CASE \/ NextCandle \/ Api \/ UNCHANGED vars \/ \E w \in Workers, b \in Bots : Poll(w, b)
  <2>1. UNCHANGED <<orders, venue>>
    BY <1>1 DEF NextCandle, Api, Start, Reset, Stop, Update, Close, SetActive, ApiChanges, Poll,
                vars, db, world
  <2> QED BY <2>1, OrdersRest
<1>2. ASSUME NEW w \in Workers, Serve(w)
      PROVE  LedgerStep
  <2>1. CASE \/ Lock(w) \/ Load(w) \/ Outstanding(w) \/ Postpone(w) \/ NothingOutstanding(w)
             \/ FinishStop(w) \/ DecideExit(w) \/ ClearClose(w) \/ ReserveNothing(w) \/ RefuseOrder(w)
             \/ \E signal \in {"buy", "sell", "hold"} : DecidePrediction(w, signal)
    <3>1. UNCHANGED <<orders, venue>>
      BY <2>1 DEF Lock, Load, Outstanding, Postpone, NothingOutstanding, FinishStop, DecideExit,
                  ClearClose, ReserveNothing, RefuseOrder, DecidePrediction, db, world
    <3> QED BY <3>1, OrdersRest
  <2>2. CASE \/ Acknowledged(w) \/ SubmissionRejected(w) \/ Lookup(w) \/ LookupAgain(w)
             \/ Fills(w) \/ RecordFailure(w)
    <3>1. UNCHANGED <<orders, venue>>
      BY <2>2 DEF Acknowledged, SubmissionRejected, Lookup, LookupAgain, Fills, RecordFailure,
                  db, world
    <3> QED BY <3>1, OrdersRest
  <2>3. CASE \/ ReserveOrder(w) \/ Submit(w) \/ RecordRejection(w) \/ CancelRemainder(w)
             \/ Apply(w) \/ MarkUnknown(w)
    BY <2>3, ReserveInLedger, SubmitInLedger, RejectionInLedger, ApplyInLedger, UnknownInLedger
  <2> QED BY <1>2, <2>1, <2>2, <2>3 DEF Serve
<1>3. ASSUME NEW w \in Workers, Misfortune(w)
      PROVE  LedgerStep
  <2>1. CASE ApplyUnconfirmed(w)
    BY <2>1, ApplyInLedger
  <2>2. CASE \/ NoAnswer(w) \/ CancelFails(w) \/ ReconcileFails(w) \/ StepFails(w) \/ Crash(w)
             \/ LoseLock(w)
    <3>1. UNCHANGED <<orders, venue>>
      BY <2>2 DEF NoAnswer, CancelFails, ReconcileFails, StepFails, Crash, LoseLock, db, world
    <3> QED BY <3>1, OrdersRest
  <2> QED BY <1>3, <2>1, <2>2 DEF Misfortune
<1>4. ASSUME NEW i \in Ids, Exchange(i) \/ Lose(i)
      PROVE  LedgerStep
  BY <1>4, ExchangeInLedger
<1> QED BY <1>1, <1>2, <1>3, <1>4 DEF Next

\* The engine implements the ledger: orders are opened one at a time, traded,
\* booked and settled as by a client that never loses a message
\* (sandbox.py:51-282).
THEOREM EngineImplementsLedger ==
  ASSUME LockKept
  PROVE  Spec => ImplementsLedger
<1>1. Init => Ledger!Init
  BY DEF Init, Ledger!Init, NoOrder, NoRemote, Phase
<1>2. LockInv /\ [Next]_vars => [Ledger!Next]_(Ledger!lvars)
  BY NextInLedger DEF LedgerStep, Ledger!lvars, Phases, Executed, Booked
<1> QED BY <1>1, <1>2, LockInvariance, PTL DEF Spec, ImplementsLedger, Ledger!Spec
=============================================================================
