---------------------------- MODULE PriceAlerts ----------------------------
(***************************************************************************)
(* Price alerts: backend/app/notifications/alerts.py.  A request creates   *)
(* or deletes an alert; a market worker evaluates each refreshed batch of  *)
(* quotes in ONE transaction that claims every due alert and writes its    *)
(* notification.  Statements of different transactions interleave; a row   *)
(* a transaction has written, or a user it has locked, blocks the others   *)
(* that need it, and PostgreSQL breaks a cycle of waiting transactions.    *)
(***************************************************************************)
EXTENDS Integers, Sequences, FiniteSets

CONSTANTS
  Alerts,        \* alert_id: 1 .. n, in the order evaluate's statement finds them
  Users, Assets,
  Evaluators,    \* market workers
  Requests,      \* threads serving POST /price-alerts
  Owner,         \* [Alerts -> Users]
  AssetOf,       \* [Alerts -> Assets]
  Direction,     \* [Alerts -> {"above", "below"}]
  Level,         \* threshold: [Alerts -> Nat \ {0}]
  Batches,       \* what get_top_assets may return: sequences of quotes
  Limit,         \* alerts a user may keep: 200 in the code
  MaxAge,        \* 120 s in the code
  MaxSkew,       \* 30 s in the code
  MaxTime,       \* bound on the clock
  MaxRounds,     \* bound on evaluations
  MaxFaults,     \* bound on lost connections
  NoAlert

\* A price of 0 is one that is missing or not positive.
Quote == [asset: Assets, price: Nat, observed: Nat]

ASSUME AlertsAssumption ==
  /\ Alerts \subseteq Nat /\ IsFiniteSet(Alerts)
  /\ Owner \in [Alerts -> Users]
  /\ AssetOf \in [Alerts -> Assets]
  /\ Direction \in [Alerts -> {"above", "below"}]
  /\ Level \in [Alerts -> Nat \ {0}]
  /\ Batches \subseteq Seq(Quote)
  /\ {Limit, MaxAge, MaxSkew, MaxTime, MaxRounds, MaxFaults} \subseteq Nat
  /\ NoAlert \notin Alerts

VARIABLES
  alerts,   \* committed price_alerts: "free", "armed", "triggered" or "deleted"
  born,     \* created_at: when the creating transaction began
  inbox,    \* alerts with a committed notification
  fires,    \* how often each alert was claimed for good
  now,      \* clock
  request,  \* create in progress, by thread
  eval,     \* evaluation in progress, by market worker
  rounds,   \* evaluations begun
  faults    \* connections lost

avars == <<alerts, born, inbox, fires, now, request, eval, rounds, faults>>

NoRequest == [pc |-> "idle", alert |-> NoAlert, since |-> 0]
NoEvaluation == [pc |-> "idle", batch |-> <<>>, at |-> 0, due |-> {}, claimed |-> {},
                 unwritten |-> {}, written |-> {}, owed |-> {}]

Request == [pc: {"idle", "waiting", "counted"}, alert: Alerts \cup {NoAlert}, since: Nat]

Evaluation ==
  [pc: {"idle", "asset", "rows"}, batch: Seq(Quote), at: Nat,
   due: SUBSET Alerts, claimed: SUBSET Alerts, unwritten: SUBSET Alerts,
   written: SUBSET Alerts, owed: SUBSET Alerts]

TypeOK ==
  /\ alerts \in [Alerts -> {"free", "armed", "triggered", "deleted"}]
  /\ born \in [Alerts -> Nat]
  /\ inbox \subseteq Alerts
  /\ fires \in [Alerts -> Nat]
  /\ now \in Nat /\ rounds \in Nat /\ faults \in Nat
  /\ request \in [Requests -> Request]
  /\ eval \in [Evaluators -> Evaluation]

(***************************************************************************)
(* Row locks: an UPDATE's row locks, the FOR UPDATE of `create` and the    *)
(* FOR KEY SHARE a notification's foreign key takes on its user.           *)
(***************************************************************************)
LockedBy(a) == {e \in Evaluators : a \in eval[e].claimed}

UserLockedBy(u) == {r \in Requests :
  request[r].pc = "counted" /\ Owner[request[r].alert] = u}

UserShared(u) == {e \in Evaluators : \E a \in eval[e].written : Owner[a] = u}

\* A statement takes its rows in one order.
First(a, S) == a \in S /\ \A b \in S : a <= b

\* The evaluators whose uncommitted claim e's next row waits for.
WaitsFor(e) ==
  {f \in Evaluators \ {e} : \E a \in Alerts : First(a, eval[e].due) /\ f \in LockedBy(a)}

Deadlocked(e) ==
  \E S \in SUBSET Evaluators :
    e \in S /\ \A f \in S : WaitsFor(f) \cap S # {}

(***************************************************************************)
(* PriceAlerts.create and PriceAlerts.delete                               *)
(***************************************************************************)
\* The alert the request will insert stands for its body; now() is the time
\* the transaction began, before it waits for the user's row.
BeginCreate(r, a) ==
  /\ request[r].pc = "idle"
  /\ alerts[a] = "free" /\ \A q \in Requests : request[q].alert # a
  /\ request' = [request EXCEPT ![r] = [pc |-> "waiting", alert |-> a, since |-> now]]
  /\ UNCHANGED <<alerts, born, inbox, fires, now, eval, rounds, faults>>

Kept(u) == {a \in Alerts : Owner[a] = u /\ alerts[a] \in {"armed", "triggered"}}

\* Mutant of CountAlerts: the users row is read without FOR UPDATE.
CountUnlocked(r) ==
  LET u == Owner[request[r].alert] IN
  /\ request[r].pc = "waiting"
  /\ request' = [request EXCEPT ![r] =
       IF Cardinality(Kept(u)) >= Limit THEN NoRequest ELSE [@ EXCEPT !.pc = "counted"]]
  /\ UNCHANGED <<alerts, born, inbox, fires, now, eval, rounds, faults>>

\* The user's row is locked FOR UPDATE, and only then are the alerts counted.
CountAlerts(r) ==
  LET u == Owner[request[r].alert] IN
  /\ request[r].pc = "waiting"
  /\ UserLockedBy(u) = {} /\ UserShared(u) = {}
  /\ request' = [request EXCEPT ![r] =
       IF Cardinality(Kept(u)) >= Limit THEN NoRequest ELSE [@ EXCEPT !.pc = "counted"]]
  /\ UNCHANGED <<alerts, born, inbox, fires, now, eval, rounds, faults>>

InsertAlert(r) ==
  /\ request[r].pc = "counted"
  /\ alerts' = [alerts EXCEPT ![request[r].alert] = "armed"]
  /\ born' = [born EXCEPT ![request[r].alert] = request[r].since]
  /\ request' = [request EXCEPT ![r] = NoRequest]
  /\ UNCHANGED <<inbox, fires, now, eval, rounds, faults>>

CreateFails(r) ==
  /\ request[r].pc # "idle" /\ faults < MaxFaults
  /\ request' = [request EXCEPT ![r] = NoRequest]
  /\ faults' = faults + 1
  /\ UNCHANGED <<alerts, born, inbox, fires, now, eval, rounds>>

DeleteAlert(a) ==
  /\ alerts[a] \in {"armed", "triggered"}
  /\ LockedBy(a) = {}
  /\ alerts' = [alerts EXCEPT ![a] = "deleted"]
  /\ UNCHANGED <<born, inbox, fires, now, request, eval, rounds, faults>>

(***************************************************************************)
(* PriceAlerts.evaluate                                                    *)
(***************************************************************************)
Usable(q, at) == at - q.observed \in -MaxSkew .. MaxAge /\ q.price > 0

Crossed(a, q) ==
  IF Direction[a] = "above" THEN Level[a] <= q.price ELSE Level[a] >= q.price

\* The WHERE clause, on the rows committed when the statement starts.
Due(q, at) ==
  {a \in Alerts : /\ Usable(q, at)
                  /\ AssetOf[a] = q.asset /\ alerts[a] = "armed"
                  /\ born[a] <= q.observed /\ Crossed(a, q)}

BeginEvaluation(e, batch) ==
  /\ eval[e].pc = "idle" /\ rounds < MaxRounds
  /\ eval' = [eval EXCEPT ![e] =
       [NoEvaluation EXCEPT !.pc = "asset", !.batch = batch, !.at = now,
          !.owed = UNION {Due(batch[i], now) : i \in DOMAIN batch}]]
  /\ rounds' = rounds + 1
  /\ UNCHANGED <<alerts, born, inbox, fires, now, request, faults>>

\* The UPDATE of the next asset takes its snapshot.
FindDue(e) ==
  /\ eval[e].pc = "asset" /\ eval[e].batch # <<>>
  /\ eval' = [eval EXCEPT ![e] =
       [@ EXCEPT !.pc = "rows", !.batch = Tail(eval[e].batch),
                 !.due = Due(Head(eval[e].batch), eval[e].at) \ eval[e].claimed]]
  /\ UNCHANGED <<alerts, born, inbox, fires, now, request, rounds, faults>>

\* Mutant of ClaimRow: the row is not checked again.
ClaimUnchecked(e) ==
  /\ eval[e].pc = "rows"
  /\ WaitsFor(e) = {}
  /\ \E a \in eval[e].due :
       /\ First(a, eval[e].due)
       /\ eval' = [eval EXCEPT ![e] =
            [@ EXCEPT !.due = eval[e].due \ {a}, !.claimed = eval[e].claimed \cup {a},
                      !.unwritten = eval[e].unwritten \cup {a}]]
  /\ UNCHANGED <<alerts, born, inbox, fires, now, request, rounds, faults>>

\* Mutant of ClaimRow: FOR UPDATE SKIP LOCKED, as the email worker does.
SkipLockedRow(e) ==
  /\ eval[e].pc = "rows"
  /\ \E a \in eval[e].due :
       LET won == {a} \cap {b \in Alerts : alerts[b] = "armed" /\ LockedBy(b) = {}} IN
       /\ First(a, eval[e].due)
       /\ eval' = [eval EXCEPT ![e] =
            [@ EXCEPT !.due = eval[e].due \ {a}, !.claimed = eval[e].claimed \cup won,
                      !.unwritten = eval[e].unwritten \cup won]]
  /\ UNCHANGED <<alerts, born, inbox, fires, now, request, rounds, faults>>

\* It waits for the row's lock, and checks the row again once it has it.
ClaimRow(e) ==
  /\ eval[e].pc = "rows"
  /\ WaitsFor(e) = {}
  /\ \E a \in eval[e].due :
       LET won == {a} \cap {b \in Alerts : alerts[b] = "armed"} IN
       /\ First(a, eval[e].due)
       /\ eval' = [eval EXCEPT ![e] =
            [@ EXCEPT !.due = eval[e].due \ {a}, !.claimed = eval[e].claimed \cup won,
                      !.unwritten = eval[e].unwritten \cup won]]
  /\ UNCHANGED <<alerts, born, inbox, fires, now, request, rounds, faults>>

\* INSERT INTO notifications, whose foreign key needs the user's row.
WriteNotification(e) ==
  /\ eval[e].pc = "rows" /\ eval[e].due = {}
  /\ \E a \in eval[e].unwritten :
       /\ First(a, eval[e].unwritten)
       /\ UserLockedBy(Owner[a]) = {}
       /\ eval' = [eval EXCEPT ![e] =
            [@ EXCEPT !.unwritten = eval[e].unwritten \ {a},
                      !.written = eval[e].written \cup {a}]]
  /\ UNCHANGED <<alerts, born, inbox, fires, now, request, rounds, faults>>

NextAsset(e) ==
  /\ eval[e].pc = "rows" /\ eval[e].due = {} /\ eval[e].unwritten = {}
  /\ eval' = [eval EXCEPT ![e].pc = "asset"]
  /\ UNCHANGED <<alerts, born, inbox, fires, now, request, rounds, faults>>

CommitEvaluation(e) ==
  /\ eval[e].pc = "asset" /\ eval[e].batch = <<>>
  /\ alerts' = [a \in Alerts |-> IF a \in eval[e].claimed THEN "triggered" ELSE alerts[a]]
  /\ fires' = [a \in Alerts |-> fires[a] + IF a \in eval[e].claimed THEN 1 ELSE 0]
  /\ inbox' = inbox \cup eval[e].written
  /\ eval' = [eval EXCEPT ![e] = NoEvaluation]
  /\ UNCHANGED <<born, now, request, rounds, faults>>

Rollback(e) == eval' = [eval EXCEPT ![e] = NoEvaluation]

\* The deadlock detector cancels one of the waiting transactions.
DeadlockVictim(e) ==
  /\ Deadlocked(e)
  /\ Rollback(e)
  /\ UNCHANGED <<alerts, born, inbox, fires, now, request, rounds, faults>>

\* refresh_prices logs any exception and tries again in the next cycle.
EvaluationFails(e) ==
  /\ eval[e].pc # "idle" /\ faults < MaxFaults
  /\ Rollback(e)
  /\ faults' = faults + 1
  /\ UNCHANGED <<alerts, born, inbox, fires, now, request, rounds>>

Tick ==
  /\ now < MaxTime
  /\ now' = now + 1
  /\ UNCHANGED <<alerts, born, inbox, fires, request, eval, rounds, faults>>

Init ==
  /\ alerts = [a \in Alerts |-> "free"]
  /\ born = [a \in Alerts |-> 0]
  /\ inbox = {}
  /\ fires = [a \in Alerts |-> 0]
  /\ now = 0
  /\ request = [r \in Requests |-> NoRequest]
  /\ eval = [e \in Evaluators |-> NoEvaluation]
  /\ rounds = 0
  /\ faults = 0

Evaluate(e) ==
  \/ FindDue(e) \/ ClaimRow(e) \/ WriteNotification(e) \/ NextAsset(e)
  \/ CommitEvaluation(e)

Create(r) == CountAlerts(r) \/ InsertAlert(r)

Next ==
  \/ \E r \in Requests : \/ \E a \in Alerts : BeginCreate(r, a)
                         \/ Create(r) \/ CreateFails(r)
  \/ \E a \in Alerts : DeleteAlert(a)
  \/ \E e \in Evaluators : \/ \E b \in Batches : BeginEvaluation(e, b)
                           \/ Evaluate(e) \/ DeadlockVictim(e) \/ EvaluationFails(e)
  \/ Tick

Spec == Init /\ [][Next]_avars

(***************************************************************************)
(* Properties                                                              *)
(***************************************************************************)

\* "Claim and notify in one transaction; concurrent workers cannot fire
\* twice": whatever evaluators, deletions and rollbacks interleave, an alert
\* is claimed for good at most once, and has a notification exactly when it
\* was (alerts.py evaluate).
FiresOnce ==
  \A a \in Alerts :
    /\ fires[a] = IF a \in inbox THEN 1 ELSE 0
    /\ alerts[a] = "triggered" => a \in inbox
    /\ a \in inbox => alerts[a] \in {"triggered", "deleted"}

\* Two creations at once cannot both take a user's last place (alerts.py
\* create locks the users row before it counts).
LimitKept == \A u \in Users : Cardinality(Kept(u)) <= Limit

\* An evaluation that commits leaves no alert behind: one that was armed and
\* crossed by one of its quotes when it began has fired or was deleted, even
\* if another evaluator held its row meanwhile and then rolled back.
NothingMissed ==
  [][\A e \in Evaluators :
       (eval[e].pc = "asset" /\ eval[e].batch = <<>> /\ eval'[e].pc = "idle"
          /\ faults' = faults)
         => \A a \in eval[e].owed : alerts'[a] # "armed"]_avars
=============================================================================
