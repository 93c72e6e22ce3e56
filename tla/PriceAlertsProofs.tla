------------------------- MODULE PriceAlertsProofs -------------------------
(***************************************************************************)
(* An alert fires once, for any users, alerts, evaluators and requests,    *)
(* whatever rolls back.  FiresOnce is not inductive: it needs that a claim *)
(* is exclusive, that only armed alerts are claimed, that a transaction    *)
(* which moves on has written a notification for every claim, and that a   *)
(* request inserts an alert no other request will.  An evaluation that     *)
(* commits leaves behind no alert it found crossed.                        *)
(***************************************************************************)
EXTENDS PriceAlerts, FiniteSetTheorems, TLAPS

\* What an evaluation has claimed is armed and its own, and is either
\* written or still to write; between assets nothing is left to write.
ClaimsExclusive ==
  \A e \in Evaluators :
    /\ \A a \in Alerts :
         /\ a \in eval[e].claimed => alerts[a] = "armed"
         /\ a \in eval[e].claimed <=> (a \in eval[e].written \/ a \in eval[e].unwritten)
         /\ \A f \in Evaluators :
              a \in eval[e].claimed /\ a \in eval[f].claimed => e = f
    /\ eval[e].pc # "rows" => eval[e].unwritten = {}

RequestsApart ==
  \A r \in Requests : request[r].pc # "idle" =>
    /\ request[r].alert \in Alerts
    /\ alerts[request[r].alert] = "free"
    /\ \A q \in Requests : q # r => request[q].alert # request[r].alert

IdleRequests == \A r \in Requests : request[r].pc = "idle" => request[r].alert = NoAlert

AlertsInv == TypeOK /\ FiresOnce /\ ClaimsExclusive /\ RequestsApart /\ IdleRequests

LEMMA InitAlerts == Init => AlertsInv
<1> SUFFICES ASSUME Init PROVE AlertsInv
  OBVIOUS
<1>1. TypeOK
  BY DEF Init, TypeOK, NoRequest, NoEvaluation, Request, Evaluation
<1>2. FiresOnce /\ ClaimsExclusive /\ RequestsApart /\ IdleRequests
  BY DEF Init, FiresOnce, ClaimsExclusive, RequestsApart, IdleRequests,
         NoRequest, NoEvaluation
<1> QED BY <1>1, <1>2 DEF AlertsInv

\* Every step of a request, every deletion and the clock.
LEMMA RequestStep ==
  ASSUME AlertsInv, NEW r \in Requests,
         (\E a \in Alerts : BeginCreate(r, a)) \/ Create(r) \/ CreateFails(r)
  PROVE  AlertsInv'
<1> USE DEF AlertsInv
<1>1. ASSUME NEW a \in Alerts, BeginCreate(r, a) PROVE AlertsInv'
  <2>1. TypeOK'
    BY <1>1 DEF BeginCreate, TypeOK, Request
  <2>2. FiresOnce' /\ ClaimsExclusive'
    BY <1>1 DEF BeginCreate, FiresOnce, ClaimsExclusive
  <2>3. RequestsApart' /\ IdleRequests'
    BY <1>1 DEF BeginCreate, RequestsApart, IdleRequests, TypeOK, Request
  <2> QED BY <2>1, <2>2, <2>3
<1>2. CASE CountAlerts(r)
  <2> DEFINE o == request[r]
             full == Cardinality(Kept(Owner[o.alert])) >= Limit
             x == IF full THEN NoRequest ELSE [o EXCEPT !.pc = "counted"]
  <2>0. o \in Request /\ o.pc = "waiting" /\ request' = [request EXCEPT ![r] = x]
    BY <1>2 DEF CountAlerts, TypeOK
  <2> HIDE DEF full
  <2>a. x \in Request /\ \/ x.pc = "counted" /\ x.alert = o.alert
                         \/ x.pc = "idle" /\ x.alert = NoAlert
    BY <2>0 DEF NoRequest, Request
  <2> HIDE DEF x
  <2>1. /\ request' \in [Requests -> Request]
        /\ request[r].pc = "waiting"
        /\ \A q \in Requests : q # r => request'[q] = request[q]
        /\ \/ request'[r].pc = "counted" /\ request'[r].alert = request[r].alert
           \/ request'[r].pc = "idle" /\ request'[r].alert = NoAlert
    BY <2>0, <2>a DEF TypeOK
  <2>2. UNCHANGED <<alerts, born, inbox, fires, now, eval, rounds, faults>>
    BY <1>2 DEF CountAlerts
  <2>3. TypeOK'
    BY <2>1, <2>2 DEF TypeOK
  <2>4. FiresOnce' /\ ClaimsExclusive'
    BY <2>2 DEF FiresOnce, ClaimsExclusive
  <2>5. RequestsApart' /\ IdleRequests'
    BY <2>1, <2>2, AlertsAssumption DEF RequestsApart, IdleRequests
  <2> QED BY <2>3, <2>4, <2>5
<1>3. CASE InsertAlert(r)
  <2> DEFINE a == request[r].alert
  <2>1. /\ a \in Alerts /\ alerts[a] = "free"
        /\ \A q \in Requests : q # r => request[q].alert # a
    BY <1>3 DEF InsertAlert, RequestsApart
  <2>2. TypeOK'
    BY <1>3, <2>1 DEF InsertAlert, TypeOK, NoRequest, Request
  <2>3. FiresOnce' /\ ClaimsExclusive'
    BY <1>3, <2>1 DEF InsertAlert, TypeOK, FiresOnce, ClaimsExclusive
  <2>4. request'[r] = NoRequest /\ \A q \in Requests : q # r => request'[q] = request[q]
    BY <1>3 DEF InsertAlert, TypeOK
  <2>5. \A b \in Alerts : b # a => alerts'[b] = alerts[b]
    BY <1>3 DEF InsertAlert, TypeOK
  <2>6. request'[r].pc = "idle" /\ request'[r].alert = NoAlert
    BY <2>4 DEF NoRequest
  <2>7. ASSUME NEW q \in Requests, request'[q].pc # "idle"
        PROVE  /\ request'[q].alert \in Alerts /\ alerts'[request'[q].alert] = "free"
               /\ \A p \in Requests : p # q => request'[p].alert # request'[q].alert
    <3>1. q # r /\ request'[q] = request[q]
      BY <2>4, <2>6, <2>7
    <3>2. request[q].alert \in Alerts /\ request[q].alert # a
          /\ alerts[request[q].alert] = "free"
      BY <2>1, <2>7, <3>1 DEF RequestsApart
    <3>3. \A p \in Requests \ {r} : p # q => request'[p].alert # request'[q].alert
      BY <2>4, <2>7, <3>1 DEF RequestsApart
    <3> QED BY <2>5, <2>6, <3>1, <3>2, <3>3, AlertsAssumption
  <2>8. RequestsApart' /\ IdleRequests'
    BY <2>4, <2>6, <2>7 DEF RequestsApart, IdleRequests
  <2> QED BY <2>2, <2>3, <2>8
<1>4. CASE CreateFails(r)
  <2>1. TypeOK'
    BY <1>4 DEF CreateFails, TypeOK, NoRequest, Request
  <2>2. FiresOnce' /\ ClaimsExclusive'
    BY <1>4 DEF CreateFails, FiresOnce, ClaimsExclusive
  <2>3. /\ request'[r] = NoRequest /\ UNCHANGED alerts
        /\ \A q \in Requests : q # r => request'[q] = request[q]
    BY <1>4 DEF CreateFails, TypeOK
  <2>4. RequestsApart' /\ IdleRequests'
    BY <2>3, AlertsAssumption DEF RequestsApart, IdleRequests, NoRequest
  <2> QED BY <2>1, <2>2, <2>4
<1> QED BY <1>1, <1>2, <1>3, <1>4 DEF Create

LEMMA DeleteStep ==
  ASSUME AlertsInv, NEW a \in Alerts, DeleteAlert(a)
  PROVE  AlertsInv'
<1> USE DEF AlertsInv
<1>1. TypeOK'
  BY DEF DeleteAlert, TypeOK
<1>2. FiresOnce' /\ ClaimsExclusive'
  BY DEF DeleteAlert, TypeOK, FiresOnce, ClaimsExclusive, LockedBy
<1>3. RequestsApart' /\ IdleRequests'
  BY DEF DeleteAlert, TypeOK, RequestsApart, IdleRequests
<1> QED BY <1>1, <1>2, <1>3

\* Steps that change one evaluation only, and claim nothing new.
LEMMA EvaluationStep ==
  ASSUME AlertsInv, NEW e \in Evaluators, NEW x \in Evaluation,
         UNCHANGED <<alerts, born, inbox, fires, now, request>>,
         rounds' \in Nat, faults' \in Nat,
         eval' = [eval EXCEPT ![e] = x],
         \A a \in Alerts :
           /\ a \in x.claimed => alerts[a] = "armed"
           /\ a \in x.claimed <=> (a \in x.written \/ a \in x.unwritten)
           /\ \A f \in Evaluators : a \in x.claimed /\ a \in eval[f].claimed => e = f,
         x.pc # "rows" => x.unwritten = {}
  PROVE  AlertsInv'
<1>1. eval \in [Evaluators -> Evaluation]
  BY DEF AlertsInv, TypeOK
<1>2. eval' \in [Evaluators -> Evaluation] /\ eval'[e] = x
      /\ \A f \in Evaluators : f # e => eval'[f] = eval[f]
  BY <1>1
<1>3. TypeOK' /\ FiresOnce' /\ RequestsApart' /\ IdleRequests'
  BY <1>2 DEF AlertsInv, TypeOK, FiresOnce, RequestsApart, IdleRequests
<1>4. ClaimsExclusive'
  BY <1>2 DEF AlertsInv, ClaimsExclusive
<1> QED BY <1>3, <1>4 DEF AlertsInv

\* What EvaluationStep asks of a transaction that is rolled back or begins.
LEMMA NothingClaimed ==
  /\ NoEvaluation \in Evaluation
  /\ NoEvaluation.claimed = {} /\ NoEvaluation.written = {} /\ NoEvaluation.unwritten = {}
BY DEF NoEvaluation, Evaluation

LEMMA BeginStep ==
  ASSUME AlertsInv, NEW e \in Evaluators, NEW b \in Batches, BeginEvaluation(e, b)
  PROVE  AlertsInv'
<1> DEFINE owed == UNION {Due(b[i], now) : i \in DOMAIN b}
           x == [NoEvaluation EXCEPT !.pc = "asset", !.batch = b, !.at = now, !.owed = owed]
<1>1. b \in Seq(Quote) /\ now \in Nat
  BY AlertsAssumption DEF AlertsInv, TypeOK
<1>2. owed \subseteq Alerts
  BY DEF Due
<1>3. x \in Evaluation /\ x.claimed = {} /\ x.written = {} /\ x.unwritten = {}
  <2> HIDE DEF owed
  <2> QED BY <1>1, <1>2 DEF NoEvaluation, Evaluation
<1>4. eval' = [eval EXCEPT ![e] = x]
  BY DEF BeginEvaluation
<1>5. /\ UNCHANGED <<alerts, born, inbox, fires, now, request>>
      /\ rounds' \in Nat /\ faults' \in Nat
  BY DEF BeginEvaluation, AlertsInv, TypeOK
<1> HIDE DEF x
<1> QED BY <1>3, <1>4, <1>5, EvaluationStep

LEMMA FindStep ==
  ASSUME AlertsInv, NEW e \in Evaluators, FindDue(e)
  PROVE  AlertsInv'
<1> DEFINE o == eval[e]
           due == Due(Head(o.batch), o.at) \ o.claimed
           x == [o EXCEPT !.pc = "rows", !.batch = Tail(o.batch), !.due = due]
<1>1. o \in Evaluation
  BY DEF AlertsInv, TypeOK
<1>2. Tail(o.batch) \in Seq(Quote) /\ due \subseteq Alerts
  BY <1>1 DEF FindDue, Due, Evaluation
<1>3. /\ x \in Evaluation /\ x.pc = "rows" /\ x.claimed = o.claimed
      /\ x.written = o.written /\ x.unwritten = o.unwritten
  <2> HIDE DEF due, o
  <2> QED BY <1>1, <1>2 DEF Evaluation
<1>4. /\ UNCHANGED <<alerts, born, inbox, fires, now, request>>
      /\ rounds' \in Nat /\ faults' \in Nat
      /\ eval' = [eval EXCEPT ![e] = x]
  BY DEF FindDue, AlertsInv, TypeOK
<1>5. \A a \in Alerts :
        /\ a \in x.claimed => alerts[a] = "armed"
        /\ a \in x.claimed <=> (a \in x.written \/ a \in x.unwritten)
        /\ \A f \in Evaluators : a \in x.claimed /\ a \in eval[f].claimed => e = f
  <2> HIDE DEF x
  <2> QED BY <1>3 DEF AlertsInv, ClaimsExclusive
<1> HIDE DEF x
<1> QED BY <1>3, <1>4, <1>5, EvaluationStep

LEMMA ClaimStep ==
  ASSUME AlertsInv, NEW e \in Evaluators, ClaimRow(e)
  PROVE  AlertsInv'
<1> DEFINE o == eval[e]
           Won(a) == {a} \cap {b \in Alerts : alerts[b] = "armed"}
           X(a) == [o EXCEPT !.due = o.due \ {a}, !.claimed = o.claimed \cup Won(a),
                             !.unwritten = o.unwritten \cup Won(a)]
<1>1. PICK a \in o.due : First(a, o.due) /\ eval' = [eval EXCEPT ![e] = X(a)]
  BY DEF ClaimRow
<1>2. o \in Evaluation /\ a \in Alerts
  BY <1>1 DEF AlertsInv, TypeOK, Evaluation
<1>3. \A f \in Evaluators : f # e => a \notin eval[f].claimed
  BY <1>1, <1>2 DEF ClaimRow, WaitsFor, LockedBy
<1>4. Won(a) \subseteq Alerts
  OBVIOUS
<1>5. /\ X(a) \in Evaluation /\ X(a).pc = "rows" /\ X(a).written = o.written
      /\ X(a).claimed = o.claimed \cup Won(a)
      /\ X(a).unwritten = o.unwritten \cup Won(a)
  <2> HIDE DEF Won
  <2>1. o.pc = "rows"
    BY DEF ClaimRow
  <2> HIDE DEF o
  <2> QED BY <1>2, <1>4, <2>1 DEF Evaluation
<1>6. /\ UNCHANGED <<alerts, born, inbox, fires, now, request>>
      /\ rounds' \in Nat /\ faults' \in Nat
  BY DEF ClaimRow, AlertsInv, TypeOK
<1>7. \A b \in Alerts :
        /\ b \in X(a).claimed => alerts[b] = "armed"
        /\ b \in X(a).claimed <=> (b \in X(a).written \/ b \in X(a).unwritten)
        /\ \A f \in Evaluators : b \in X(a).claimed /\ b \in eval[f].claimed => e = f
  <2> HIDE DEF X
  <2> QED BY <1>3, <1>5 DEF AlertsInv, ClaimsExclusive
<1> HIDE DEF X
<1> QED BY <1>1, <1>5, <1>6, <1>7, EvaluationStep

LEMMA WriteStep ==
  ASSUME AlertsInv, NEW e \in Evaluators, WriteNotification(e)
  PROVE  AlertsInv'
<1> DEFINE o == eval[e]
           X(a) == [o EXCEPT !.unwritten = o.unwritten \ {a}, !.written = o.written \cup {a}]
<1>1. PICK a \in o.unwritten : eval' = [eval EXCEPT ![e] = X(a)]
  BY DEF WriteNotification
<1>2. o \in Evaluation /\ a \in Alerts
  BY <1>1 DEF AlertsInv, TypeOK, Evaluation
<1>3. /\ X(a) \in Evaluation /\ X(a).pc = "rows" /\ X(a).claimed = o.claimed
      /\ X(a).written = o.written \cup {a} /\ X(a).unwritten = o.unwritten \ {a}
  <2>1. o.pc = "rows"
    BY DEF WriteNotification
  <2> HIDE DEF o
  <2> QED BY <1>2, <2>1 DEF Evaluation
<1>4. /\ UNCHANGED <<alerts, born, inbox, fires, now, request>>
      /\ rounds' \in Nat /\ faults' \in Nat
  BY DEF WriteNotification, AlertsInv, TypeOK
<1>5. \A b \in Alerts :
        /\ b \in X(a).claimed => alerts[b] = "armed"
        /\ b \in X(a).claimed <=> (b \in X(a).written \/ b \in X(a).unwritten)
        /\ \A f \in Evaluators : b \in X(a).claimed /\ b \in eval[f].claimed => e = f
  <2> HIDE DEF X
  <2> QED BY <1>1, <1>3 DEF AlertsInv, ClaimsExclusive
<1> HIDE DEF X
<1>6. X(a) \in Evaluation /\ (X(a).pc # "rows" => X(a).unwritten = {})
  BY <1>3
<1> QED BY <1>1, <1>4, <1>5, <1>6, EvaluationStep

LEMMA NextAssetStep ==
  ASSUME AlertsInv, NEW e \in Evaluators, NextAsset(e)
  PROVE  AlertsInv'
<1> DEFINE o == eval[e]
           x == [o EXCEPT !.pc = "asset"]
<1>1. o \in Evaluation
  BY DEF AlertsInv, TypeOK
<1>2. /\ x \in Evaluation /\ x.claimed = o.claimed
      /\ x.written = o.written /\ x.unwritten = {} /\ o.unwritten = {}
  BY <1>1 DEF Evaluation, NextAsset
<1>3. /\ UNCHANGED <<alerts, born, inbox, fires, now, request>>
      /\ rounds' \in Nat /\ faults' \in Nat
      /\ eval' = [eval EXCEPT ![e] = x]
  BY DEF NextAsset, AlertsInv, TypeOK
<1>4. \A a \in Alerts :
        /\ a \in x.claimed => alerts[a] = "armed"
        /\ a \in x.claimed <=> (a \in x.written \/ a \in x.unwritten)
        /\ \A f \in Evaluators : a \in x.claimed /\ a \in eval[f].claimed => e = f
  <2> HIDE DEF x
  <2> QED BY <1>2 DEF AlertsInv, ClaimsExclusive
<1> HIDE DEF x
<1> QED BY <1>2, <1>3, <1>4, EvaluationStep

LEMMA CommitStep ==
  ASSUME AlertsInv, NEW e \in Evaluators, CommitEvaluation(e)
  PROVE  AlertsInv'
<1> DEFINE o == eval[e]
<1>1. /\ o \in Evaluation
      /\ \A a \in Alerts : a \in o.claimed <=> a \in o.written
      /\ \A a \in Alerts : a \in o.claimed => alerts[a] = "armed"
  BY DEF CommitEvaluation, AlertsInv, ClaimsExclusive, TypeOK
<1>2. /\ eval' \in [Evaluators -> Evaluation] /\ eval'[e] = NoEvaluation
      /\ \A f \in Evaluators : f # e => eval'[f] = eval[f]
  BY NothingClaimed DEF CommitEvaluation, AlertsInv, TypeOK
<1>3. TypeOK'
  BY <1>1, <1>2 DEF CommitEvaluation, AlertsInv, TypeOK, Evaluation
<1>4. FiresOnce'
  BY <1>1 DEF CommitEvaluation, AlertsInv, TypeOK, FiresOnce
<1>5. ClaimsExclusive'
  BY <1>1, <1>2, NothingClaimed DEF CommitEvaluation, AlertsInv, TypeOK, ClaimsExclusive
<1>6. RequestsApart' /\ IdleRequests'
  BY <1>1 DEF CommitEvaluation, AlertsInv, TypeOK, RequestsApart, IdleRequests
<1> QED BY <1>3, <1>4, <1>5, <1>6 DEF AlertsInv

LEMMA EvaluatorStep ==
  ASSUME AlertsInv, NEW e \in Evaluators,
         \/ \E b \in Batches : BeginEvaluation(e, b)
         \/ Evaluate(e) \/ DeadlockVictim(e) \/ EvaluationFails(e)
  PROVE  AlertsInv'
<1>1. CASE DeadlockVictim(e) \/ EvaluationFails(e)
  <2>1. /\ UNCHANGED <<alerts, born, inbox, fires, now, request>>
        /\ rounds' \in Nat /\ faults' \in Nat
        /\ eval' = [eval EXCEPT ![e] = NoEvaluation]
    BY <1>1 DEF DeadlockVictim, EvaluationFails, Rollback, AlertsInv, TypeOK
  <2> QED BY <2>1, NothingClaimed, EvaluationStep
<1> QED BY <1>1, BeginStep, FindStep, ClaimStep, WriteStep, NextAssetStep, CommitStep
        DEF Evaluate

LEMMA TickStep ==
  ASSUME AlertsInv, Tick \/ UNCHANGED avars
  PROVE  AlertsInv'
<1>1. now' \in Nat
  BY DEF AlertsInv, TypeOK, Tick, avars
<1> QED BY <1>1 DEF Tick, avars, AlertsInv, TypeOK, FiresOnce, ClaimsExclusive,
            LockedBy, RequestsApart, IdleRequests

LEMMA AlertsInductive == AlertsInv /\ [Next]_avars => AlertsInv'
  BY RequestStep, DeleteStep, EvaluatorStep, TickStep DEF Next

\* In every reachable state the variables have their types (PriceAlerts).
THEOREM AlertTypes == Spec => []TypeOK
<1>1. AlertsInv => TypeOK
  BY DEF AlertsInv
<1> QED BY <1>1, InitAlerts, AlertsInductive, PTL DEF Spec

\* "Concurrent workers cannot fire twice": an alert is claimed for good at
\* most once, and has a notification exactly when it was (alerts.py
\* evaluate), for any number of evaluators, alerts and rollbacks.
THEOREM AlertsFireOnce == Spec => []FiresOnce
<1>1. AlertsInv => FiresOnce
  BY DEF AlertsInv
<1> QED BY <1>1, InitAlerts, AlertsInductive, PTL DEF Spec

-----------------------------------------------------------------------------
(***************************************************************************)
(* The limit.  A request that has counted holds its user's row, so that it *)
(* is the only one and the place it found is still there.                  *)
(***************************************************************************)
Place(r) ==
  LET u == Owner[request[r].alert] IN
  /\ Cardinality(Kept(u)) < Limit
  /\ UserLockedBy(u) = {r}

PlaceFound == \A r \in Requests : request[r].pc = "counted" => Place(r)

LimitInv == AlertsInv /\ LimitKept /\ PlaceFound

LEMMA KeptFinite ==
  ASSUME NEW u
  PROVE  IsFiniteSet(Kept(u)) /\ Cardinality(Kept(u)) \in Nat
<1>1. Kept(u) \in SUBSET Alerts
  BY DEF Kept
<1> QED BY <1>1, AlertsAssumption, FS_Subset, FS_CardinalityType

LEMMA InitLimit == Init => LimitInv
<1> SUFFICES ASSUME Init PROVE LimitInv
  OBVIOUS
<1>1. \A u \in Users : Kept(u) = {}
  BY DEF Init, Kept
<1>2. LimitKept
  <2>1. Limit \in Nat /\ 0 <= Limit
    BY AlertsAssumption
  <2> QED BY <1>1, <2>1, FS_EmptySet DEF LimitKept
<1>3. PlaceFound
  BY DEF Init, NoRequest, PlaceFound
<1> QED BY <1>2, <1>3, InitAlerts DEF LimitInv

\* Steps after which nobody has more alerts, and no request has newly counted.
LEMMA NoMoreKept ==
  ASSUME LimitInv, AlertsInv',
         \A a \in Alerts : alerts'[a] \in {"armed", "triggered"} =>
                             alerts[a] \in {"armed", "triggered"},
         \A r \in Requests : request'[r].pc = "counted" => request'[r] = request[r]
  PROVE  LimitInv'
<1>1. ASSUME NEW u PROVE /\ Kept(u)' \in SUBSET Kept(u)
                         /\ Cardinality(Kept(u)') \in Nat /\ Cardinality(Kept(u)) \in Nat
                         /\ Cardinality(Kept(u)') <= Cardinality(Kept(u))
  <2>1. Kept(u)' \in SUBSET Kept(u)
    BY DEF Kept
  <2>2. IsFiniteSet(Kept(u)) /\ Cardinality(Kept(u)) \in Nat
    BY KeptFinite
  <2>3. IsFiniteSet(Kept(u)') /\ Cardinality(Kept(u)') <= Cardinality(Kept(u))
    BY <2>1, <2>2, FS_Subset
  <2>4. Cardinality(Kept(u)') \in Nat
    BY <2>3, FS_CardinalityType
  <2> QED BY <2>1, <2>2, <2>3, <2>4
<1>2. Limit \in Nat
  BY AlertsAssumption
<1>3. LimitKept'
  <2> SUFFICES ASSUME NEW u \in Users PROVE Cardinality(Kept(u)') <= Limit
    BY DEF LimitKept
  <2>1. Cardinality(Kept(u)) <= Limit
    BY DEF LimitInv, LimitKept
  <2> QED BY <1>1, <1>2, <2>1
<1>4. PlaceFound'
  <2> SUFFICES ASSUME NEW r \in Requests, request'[r].pc = "counted"
               PROVE  Place(r)'
    BY DEF PlaceFound
  <2>1. PICK u : u = Owner[request[r].alert]
    OBVIOUS
  <2>2. request'[r] = request[r]
    OBVIOUS
  <2>3. Cardinality(Kept(u)) < Limit /\ UserLockedBy(u) = {r}
    BY <2>1, <2>2 DEF LimitInv, PlaceFound, Place
  <2>4. Cardinality(Kept(u)') < Limit
    BY <1>1, <1>2, <2>3
  <2>5. UserLockedBy(u)' = {r}
    <3>1. UserLockedBy(u)' \subseteq UserLockedBy(u)
      BY DEF UserLockedBy
    <3>2. r \in UserLockedBy(u)'
      BY <2>1, <2>2 DEF UserLockedBy
    <3> QED BY <2>3, <3>1, <3>2
  <2> QED BY <2>1, <2>2, <2>4, <2>5 DEF Place
<1> QED BY <1>3, <1>4 DEF LimitInv

\* The user's row was free, and so nobody else has counted.
LEMMA CountStep ==
  ASSUME LimitInv, NEW r \in Requests, CountAlerts(r)
  PROVE  LimitInv'
<1>1. AlertsInv'
  BY RequestStep DEF LimitInv, Create
<1>2. PICK u : u = Owner[request[r].alert]
  OBVIOUS
<1>3. /\ UserLockedBy(u) = {} /\ UNCHANGED alerts /\ request \in [Requests -> Request]
      /\ request' = [request EXCEPT ![r] =
           IF Cardinality(Kept(u)) >= Limit THEN NoRequest ELSE [@ EXCEPT !.pc = "counted"]]
  BY <1>2 DEF CountAlerts, LimitInv, AlertsInv, TypeOK
<1>4. \A q \in Requests : q # r => request'[q] = request[q]
  BY <1>3
<1>5. CASE Cardinality(Kept(u)) >= Limit
  <2>1. request'[r] = NoRequest
    BY <1>3, <1>5
  <2>2. \A q \in Requests : request'[q].pc = "counted" => request'[q] = request[q]
    BY <1>4, <2>1 DEF NoRequest
  <2> QED BY <1>1, <1>3, <2>2, NoMoreKept
<1>6. CASE ~ (Cardinality(Kept(u)) >= Limit)
  <2>1. Cardinality(Kept(u)) < Limit
    BY <1>6, KeptFinite, AlertsAssumption
  <2>2. request'[r] = [request[r] EXCEPT !.pc = "counted"]
    BY <1>3, <1>6
  <2>3. request'[r].pc = "counted" /\ request'[r].alert = request[r].alert
    BY <1>3, <2>2 DEF Request
  <2>4. \A v : Kept(v)' = Kept(v)
    BY <1>3 DEF Kept
  <2>5. LimitKept'
    BY <2>4 DEF LimitInv, LimitKept
  <2>6. ASSUME NEW q \in Requests, request'[q].pc = "counted"
        PROVE  Place(q)'
    <3>1. CASE q = r
      <4>1. UserLockedBy(u)' = {r}
        BY <1>2, <1>3, <1>4, <2>3 DEF UserLockedBy
      <4> QED BY <1>2, <1>3, <2>1, <2>3, <2>4, <3>1, <4>1 DEF Place
    <3>2. CASE q # r
      <4>1. request'[q] = request[q] /\ request[q].pc = "counted"
        BY <1>4, <2>6, <3>2
      <4>2. PICK v : v = Owner[request[q].alert]
        OBVIOUS
      <4>3. Cardinality(Kept(v)) < Limit /\ UserLockedBy(v) = {q}
        BY <4>1, <4>2 DEF LimitInv, PlaceFound, Place
      <4>4. v # u
        BY <1>3, <4>3
      <4>5. UserLockedBy(v)' = {q}
        BY <1>2, <1>4, <2>3, <4>3, <4>4 DEF UserLockedBy
      <4> QED BY <2>4, <4>1, <4>2, <4>3, <4>5 DEF Place
    <3> QED BY <3>1, <3>2
  <2>7. PlaceFound'
    BY <2>6 DEF PlaceFound
  <2> QED BY <1>1, <2>5, <2>7 DEF LimitInv
<1> QED BY <1>5, <1>6

\* The place is taken by the request that found it.
LEMMA InsertStep ==
  ASSUME LimitInv, NEW r \in Requests, InsertAlert(r)
  PROVE  LimitInv'
<1>1. AlertsInv'
  BY RequestStep DEF LimitInv, Create
<1>2. PICK a : a = request[r].alert
  OBVIOUS
<1>3. /\ request[r].pc = "counted" /\ a \in Alerts
      /\ request \in [Requests -> Request] /\ DOMAIN alerts = Alerts
      /\ alerts' = [alerts EXCEPT ![a] = "armed"]
      /\ request' = [request EXCEPT ![r] = NoRequest]
  BY <1>2 DEF InsertAlert, LimitInv, AlertsInv, TypeOK, RequestsApart
<1>4. PICK u : u = Owner[a]
  OBVIOUS
<1>5. Cardinality(Kept(u)) < Limit /\ UserLockedBy(u) = {r}
  BY <1>2, <1>3, <1>4 DEF LimitInv, PlaceFound, Place
<1>6. Kept(u)' = Kept(u) \cup {a} /\ \A v : v # u => Kept(v)' = Kept(v)
  BY <1>3, <1>4 DEF Kept
<1>7. Cardinality(Kept(u)') <= Limit
  <2>1. /\ IsFiniteSet(Kept(u)) /\ Cardinality(Kept(u)) \in Nat /\ Limit \in Nat
    BY KeptFinite, AlertsAssumption
  <2>2. Cardinality(Kept(u) \cup {a}) = IF a \in Kept(u) THEN Cardinality(Kept(u))
                                        ELSE Cardinality(Kept(u)) + 1
    BY <2>1, FS_AddElement
  <2> QED BY <1>5, <1>6, <2>1, <2>2
<1>8. LimitKept'
  <2> SUFFICES ASSUME NEW v \in Users PROVE Cardinality(Kept(v)') <= Limit
    BY DEF LimitKept
  <2> QED BY <1>6, <1>7 DEF LimitInv, LimitKept
<1>9. PlaceFound'
  <2> SUFFICES ASSUME NEW q \in Requests, request'[q].pc = "counted"
               PROVE  Place(q)'
    BY DEF PlaceFound
  <2>1. q # r /\ request'[q] = request[q]
    BY <1>3 DEF NoRequest
  <2>2. PICK v : v = Owner[request[q].alert]
    OBVIOUS
  <2>3. Cardinality(Kept(v)) < Limit /\ UserLockedBy(v) = {q}
    BY <2>1, <2>2 DEF LimitInv, PlaceFound, Place
  <2>4. v # u
    BY <1>5, <2>1, <2>3
  <2>5. UserLockedBy(v)' \subseteq UserLockedBy(v)
    BY <1>3 DEF UserLockedBy, NoRequest
  <2>6. q \in UserLockedBy(v)'
    BY <2>1, <2>2 DEF UserLockedBy
  <2> QED BY <1>6, <2>1, <2>2, <2>3, <2>4, <2>5, <2>6 DEF Place
<1> QED BY <1>1, <1>8, <1>9 DEF LimitInv

LEMMA LimitInductive == LimitInv /\ [Next]_avars => LimitInv'
<1> SUFFICES ASSUME LimitInv, [Next]_avars PROVE LimitInv'
  OBVIOUS
<1>1. AlertsInv'
  BY AlertsInductive DEF LimitInv
<1>2. request \in [Requests -> Request] /\ DOMAIN alerts = Alerts
      /\ \A e \in Evaluators, a \in Alerts : a \in eval[e].claimed => alerts[a] = "armed"
  BY DEF LimitInv, AlertsInv, TypeOK, ClaimsExclusive
<1>3. ASSUME NEW r \in Requests, CountAlerts(r) PROVE LimitInv'
  BY <1>3, CountStep
<1>4. ASSUME NEW r \in Requests, InsertAlert(r) PROVE LimitInv'
  BY <1>4, InsertStep
<1>5. ASSUME NEW r \in Requests, (\E a \in Alerts : BeginCreate(r, a)) \/ CreateFails(r)
      PROVE  LimitInv'
  <2>1. /\ UNCHANGED alerts /\ request'[r].pc # "counted"
        /\ \A q \in Requests : q # r => request'[q] = request[q]
    BY <1>2, <1>5 DEF BeginCreate, CreateFails, NoRequest
  <2> QED BY <1>1, <2>1, NoMoreKept
<1>6. ASSUME NEW a \in Alerts, DeleteAlert(a) PROVE LimitInv'
  <2>1. UNCHANGED request /\ alerts' = [alerts EXCEPT ![a] = "deleted"]
    BY <1>6 DEF DeleteAlert
  <2>2. \A b \in Alerts : alerts'[b] \in {"armed", "triggered"} => alerts'[b] = alerts[b]
    BY <1>2, <2>1
  <2> QED BY <1>1, <2>1, <2>2, NoMoreKept
<1>7. ASSUME NEW e \in Evaluators, CommitEvaluation(e) PROVE LimitInv'
  <2>1. UNCHANGED request /\ \A a \in Alerts :
          alerts'[a] = IF a \in eval[e].claimed THEN "triggered" ELSE alerts[a]
    BY <1>7 DEF CommitEvaluation
  <2>2. \A a \in Alerts : alerts'[a] \in {"armed", "triggered"} =>
                            alerts[a] \in {"armed", "triggered"}
    BY <1>2, <2>1
  <2> QED BY <1>1, <2>1, <2>2, NoMoreKept
<1>8. CASE UNCHANGED <<alerts, request>>
  BY <1>1, <1>8, NoMoreKept
<1> QED BY <1>3, <1>4, <1>5, <1>6, <1>7, <1>8
        DEF Next, avars, Create, Evaluate, BeginEvaluation, FindDue, ClaimRow,
            WriteNotification, NextAsset, DeadlockVictim, EvaluationFails, Tick

\* Two creations at once cannot both take a user's last place, for any limit
\* and any number of requests (alerts.py create).
THEOREM LimitsKept == Spec => []LimitKept
<1>1. LimitInv => LimitKept
  BY DEF LimitInv
<1> QED BY <1>1, InitLimit, LimitInductive, PTL DEF Spec

-----------------------------------------------------------------------------
(***************************************************************************)
(* NothingMissed.  Whatever an evaluation owes is claimed, found, or still *)
(* to be found with one of its quotes, unless it is no longer armed; and   *)
(* between assets nothing that was found is left, so that a transaction    *)
(* that is ready to commit waits for nobody and is no deadlock's victim.   *)
(***************************************************************************)
OwedInv(e) ==
  /\ eval[e].pc # "rows" => eval[e].due = {}
  /\ \A a \in eval[e].owed :
       /\ alerts[a] # "free"
       /\ alerts[a] = "armed" =>
            \/ a \in eval[e].claimed \cup eval[e].due
            \/ \E i \in DOMAIN eval[e].batch : a \in Due(eval[e].batch[i], eval[e].at)

MissedInv == AlertsInv /\ \A e \in Evaluators : OwedInv(e)

LEMMA InitMissed == Init => MissedInv
<1>1. Init => \A e \in Evaluators : OwedInv(e)
  BY DEF Init, OwedInv, NoEvaluation
<1> QED BY <1>1, InitAlerts DEF MissedInv

\* What others do to the alerts takes nothing from what is owed: an alert is
\* never armed again.
LEMMA OwedStays ==
  ASSUME AlertsInv, NEW e \in Evaluators, OwedInv(e), eval'[e] = eval[e],
         \A a \in Alerts : alerts[a] # "free" =>
           /\ alerts'[a] # "free"
           /\ alerts'[a] = "armed" => alerts[a] = "armed" /\ born'[a] = born[a]
  PROVE  OwedInv(e)'
<1>1. eval[e].owed \subseteq Alerts
  BY DEF AlertsInv, TypeOK, Evaluation
<1>2. (eval[e].pc # "rows" => eval[e].due = {})'
  BY DEF OwedInv
<1>3. ASSUME NEW a \in eval[e].owed
      PROVE  /\ alerts'[a] # "free"
             /\ alerts'[a] = "armed" =>
                  \/ a \in eval[e].claimed \cup eval[e].due
                  \/ \E i \in DOMAIN eval[e].batch : a \in Due(eval[e].batch[i], eval[e].at)'
  <2>1. alerts[a] # "free" /\ a \in Alerts
    BY <1>1, <1>3 DEF OwedInv
  <2>2. SUFFICES ASSUME alerts'[a] = "armed"
                 PROVE  \/ a \in eval[e].claimed \cup eval[e].due
                        \/ \E i \in DOMAIN eval[e].batch :
                             a \in Due(eval[e].batch[i], eval[e].at)'
    BY <2>1
  <2>3. alerts[a] = "armed" /\ born'[a] = born[a]
    BY <2>1, <2>2
  <2>4. ASSUME NEW i \in DOMAIN eval[e].batch, a \in Due(eval[e].batch[i], eval[e].at)
        PROVE  a \in Due(eval[e].batch[i], eval[e].at)'
    BY <2>2, <2>3, <2>4 DEF Due
  <2> QED BY <1>3, <2>3, <2>4 DEF OwedInv
<1> QED BY <1>2, <1>3 DEF OwedInv

\* Requests, deletions and the clock.
LEMMA OthersOwe ==
  ASSUME MissedInv, NEW e \in Evaluators,
         \/ \E r \in Requests : \/ \E a \in Alerts : BeginCreate(r, a)
                                \/ Create(r) \/ CreateFails(r)
         \/ \E a \in Alerts : DeleteAlert(a)
         \/ Tick
         \/ UNCHANGED avars
  PROVE  OwedInv(e)' /\ eval'[e] = eval[e]
<1>1. AlertsInv /\ OwedInv(e) /\ alerts \in [Alerts -> {"free", "armed", "triggered", "deleted"}]
      /\ born \in [Alerts -> Nat]
  BY DEF MissedInv, AlertsInv, TypeOK
<1>2. CASE UNCHANGED <<alerts, born, eval>>
  BY <1>1, <1>2, OwedStays
<1>3. ASSUME NEW r \in Requests, InsertAlert(r)
      PROVE  OwedInv(e)' /\ eval'[e] = eval[e]
  <2>1. alerts[request[r].alert] = "free"
    BY <1>1, <1>3 DEF InsertAlert, AlertsInv, RequestsApart
  <2>2. \A a \in Alerts : alerts[a] # "free" => alerts'[a] = alerts[a] /\ born'[a] = born[a]
    BY <1>1, <1>3, <2>1 DEF InsertAlert
  <2> QED BY <1>1, <1>3, <2>2, OwedStays DEF InsertAlert
<1>4. ASSUME NEW a \in Alerts, DeleteAlert(a)
      PROVE  OwedInv(e)' /\ eval'[e] = eval[e]
  <2>1. \A b \in Alerts : alerts'[b] = alerts[b] \/ alerts'[b] = "deleted"
    BY <1>1, <1>4 DEF DeleteAlert
  <2> QED BY <1>1, <1>4, <2>1, OwedStays DEF DeleteAlert
<1> QED BY <1>2, <1>3, <1>4
        DEF BeginCreate, Create, CountAlerts, CreateFails, Tick, avars

\* A step of the evaluation itself that leaves the alerts alone.
LEMMA OwesStill ==
  ASSUME NEW e \in Evaluators, NEW x \in Evaluation,
         eval \in [Evaluators -> Evaluation], eval' = [eval EXCEPT ![e] = x],
         UNCHANGED <<alerts, born>>,
         x.pc # "rows" => x.due = {},
         \A a \in x.owed :
           /\ alerts[a] # "free"
           /\ alerts[a] = "armed" =>
                \/ a \in x.claimed \cup x.due
                \/ \E i \in DOMAIN x.batch : a \in Due(x.batch[i], x.at)
  PROVE  OwedInv(e)'
<1>1. eval'[e] = x
  OBVIOUS
<1> QED BY <1>1 DEF OwedInv, Due

LEMMA HeadOrTail ==
  ASSUME NEW S, NEW s \in Seq(S), s # <<>>, NEW i \in DOMAIN s
  PROVE  s[i] = Head(s) \/ \E j \in DOMAIN Tail(s) : Tail(s)[j] = s[i]
<1>1. CASE i = 1
  BY <1>1
<1>2. CASE i # 1
  <2>1. i - 1 \in DOMAIN Tail(s) /\ Tail(s)[i - 1] = s[i]
    BY <1>2
  <2> QED BY <2>1
<1> QED BY <1>1, <1>2

LEMMA EvaluationOwes ==
  ASSUME MissedInv, NEW e \in Evaluators,
         \/ \E b \in Batches : BeginEvaluation(e, b)
         \/ Evaluate(e) \/ DeadlockVictim(e) \/ EvaluationFails(e)
  PROVE  OwedInv(e)'
<1> DEFINE o == eval[e]
<1>1. /\ AlertsInv /\ OwedInv(e) /\ o \in Evaluation
      /\ eval \in [Evaluators -> Evaluation]
  BY DEF MissedInv, AlertsInv, TypeOK
<1>2. CASE CommitEvaluation(e) \/ DeadlockVictim(e) \/ EvaluationFails(e)
  <2>1. eval'[e] = NoEvaluation
    BY <1>1, <1>2 DEF CommitEvaluation, DeadlockVictim, EvaluationFails, Rollback
  <2> QED BY <2>1 DEF OwedInv, NoEvaluation
<1>3. ASSUME NEW b \in Batches, BeginEvaluation(e, b)
      PROVE  OwedInv(e)'
  <2> DEFINE owed == UNION {Due(b[i], now) : i \in DOMAIN b}
             x == [NoEvaluation EXCEPT !.pc = "asset", !.batch = b, !.at = now, !.owed = owed]
  <2>1. \A a \in owed : alerts[a] = "armed" /\ \E i \in DOMAIN b : a \in Due(b[i], now)
    BY DEF Due
  <2>2. b \in Seq(Quote) /\ now \in Nat /\ owed \subseteq Alerts
    BY <1>1, AlertsAssumption DEF AlertsInv, TypeOK, Due
  <2> HIDE DEF owed
  <2>3. /\ x \in Evaluation /\ x.pc = "asset" /\ x.due = {} /\ x.batch = b /\ x.at = now
        /\ x.owed = owed
    BY <2>2 DEF NoEvaluation, Evaluation
  <2>4. eval' = [eval EXCEPT ![e] = x] /\ UNCHANGED <<alerts, born>>
    BY <1>3 DEF BeginEvaluation, owed
  <2> HIDE DEF x
  <2> QED BY <1>1, <2>1, <2>3, <2>4, OwesStill
<1>4. CASE FindDue(e)
  <2> DEFINE due == Due(Head(o.batch), o.at) \ o.claimed
             x == [o EXCEPT !.pc = "rows", !.batch = Tail(o.batch), !.due = due]
  <2>1. /\ o.batch \in Seq(Quote) /\ o.batch # <<>> /\ Tail(o.batch) \in Seq(Quote)
        /\ due \subseteq Alerts
    BY <1>1, <1>4 DEF FindDue, Due, Evaluation
  <2>2. eval' = [eval EXCEPT ![e] = x] /\ UNCHANGED <<alerts, born>>
    BY <1>4 DEF FindDue
  <2>3. /\ x \in Evaluation /\ x.pc = "rows" /\ x.due = due /\ x.batch = Tail(o.batch)
        /\ x.at = o.at /\ x.owed = o.owed /\ x.claimed = o.claimed
    <3> HIDE DEF due, o
    <3> QED BY <1>1, <2>1 DEF Evaluation
  <2>4. \A i \in DOMAIN o.batch :
          o.batch[i] = Head(o.batch)
          \/ \E j \in DOMAIN Tail(o.batch) : Tail(o.batch)[j] = o.batch[i]
    BY <2>1, HeadOrTail
  <2>5. ASSUME NEW a \in x.owed
        PROVE  /\ alerts[a] # "free"
               /\ alerts[a] = "armed" =>
                    \/ a \in x.claimed \cup x.due
                    \/ \E i \in DOMAIN x.batch : a \in Due(x.batch[i], x.at)
    <3>1. /\ alerts[a] # "free"
          /\ alerts[a] = "armed" =>
               \/ a \in o.claimed
               \/ \E i \in DOMAIN o.batch : a \in Due(o.batch[i], o.at)
      <4>1. o.due = {} /\ a \in o.owed
        BY <1>1, <1>4, <2>3, <2>5 DEF FindDue, OwedInv
      <4> QED BY <1>1, <4>1 DEF OwedInv
    <3> HIDE DEF x, o
    <3> QED BY <2>3, <2>4, <3>1
  <2> HIDE DEF x
  <2> QED BY <1>1, <2>2, <2>3, <2>5, OwesStill
<1>5. CASE ClaimRow(e)
  <2> DEFINE Won(a) == {a} \cap {b \in Alerts : alerts[b] = "armed"}
             X(a) == [o EXCEPT !.due = o.due \ {a}, !.claimed = o.claimed \cup Won(a),
                               !.unwritten = o.unwritten \cup Won(a)]
  <2>1. PICK a \in o.due : eval' = [eval EXCEPT ![e] = X(a)]
    BY <1>5 DEF ClaimRow
  <2>2. UNCHANGED <<alerts, born>> /\ o.pc = "rows"
    BY <1>5 DEF ClaimRow
  <2>3. Won(a) \subseteq Alerts
    OBVIOUS
  <2>4. /\ X(a) \in Evaluation /\ X(a).pc = "rows" /\ X(a).batch = o.batch /\ X(a).at = o.at
        /\ X(a).owed = o.owed /\ X(a).claimed = o.claimed \cup Won(a)
        /\ X(a).due = o.due \ {a}
    <3> HIDE DEF Won, o
    <3> QED BY <1>1, <2>2, <2>3 DEF Evaluation
  <2>5. a \in Alerts /\ (alerts[a] = "armed" => a \in Won(a))
    BY <1>1, <2>1 DEF Evaluation
  <2>6. ASSUME NEW b \in o.owed
        PROVE  /\ alerts[b] # "free"
               /\ alerts[b] = "armed" =>
                    \/ b \in (o.claimed \cup Won(a)) \cup (o.due \ {a})
                    \/ \E i \in DOMAIN o.batch : b \in Due(o.batch[i], o.at)
    <3> HIDE DEF Won
    <3> QED BY <1>1, <2>5, <2>6 DEF OwedInv
  <2> HIDE DEF X, Won
  <2> QED BY <1>1, <2>1, <2>2, <2>4, <2>6, OwesStill
<1>6. CASE WriteNotification(e)
  <2> DEFINE X(a) == [o EXCEPT !.unwritten = o.unwritten \ {a}, !.written = o.written \cup {a}]
  <2>1. PICK a \in o.unwritten : eval' = [eval EXCEPT ![e] = X(a)]
    BY <1>6 DEF WriteNotification
  <2>2. UNCHANGED <<alerts, born>> /\ o.pc = "rows" /\ o.due = {} /\ a \in Alerts
    BY <1>1, <1>6, <2>1 DEF WriteNotification, Evaluation
  <2>3. /\ X(a) \in Evaluation /\ X(a).pc = "rows" /\ X(a).batch = o.batch /\ X(a).at = o.at
        /\ X(a).owed = o.owed /\ X(a).claimed = o.claimed /\ X(a).due = o.due
    <3> HIDE DEF o
    <3> QED BY <1>1, <2>2 DEF Evaluation
  <2> HIDE DEF X
  <2> QED BY <1>1, <2>1, <2>2, <2>3, OwesStill DEF OwedInv
<1>7. CASE NextAsset(e)
  <2> DEFINE x == [o EXCEPT !.pc = "asset"]
  <2>1. /\ UNCHANGED <<alerts, born>> /\ o.due = {} /\ eval' = [eval EXCEPT ![e] = x]
    BY <1>7 DEF NextAsset
  <2>2. /\ x \in Evaluation /\ x.batch = o.batch /\ x.at = o.at
        /\ x.owed = o.owed /\ x.claimed = o.claimed /\ x.due = o.due
    <3> HIDE DEF o
    <3> QED BY <1>1 DEF Evaluation
  <2> HIDE DEF x
  <2> QED BY <1>1, <2>1, <2>2, OwesStill DEF OwedInv
<1> QED BY <1>2, <1>3, <1>4, <1>5, <1>6, <1>7 DEF Evaluate

\* A step of another evaluation.
LEMMA OtherEvaluation ==
  ASSUME MissedInv, NEW e \in Evaluators, NEW f \in Evaluators, f # e,
         \/ \E b \in Batches : BeginEvaluation(f, b)
         \/ Evaluate(f) \/ DeadlockVictim(f) \/ EvaluationFails(f)
  PROVE  OwedInv(e)' /\ eval'[e] = eval[e]
<1>1. AlertsInv /\ OwedInv(e) /\ eval \in [Evaluators -> Evaluation]
      /\ alerts \in [Alerts -> {"free", "armed", "triggered", "deleted"}]
  BY DEF MissedInv, AlertsInv, TypeOK
<1>2. eval'[e] = eval[e]
  <2>1. \A y : eval' = [eval EXCEPT ![f] = y] => eval'[e] = eval[e]
    BY <1>1
  <2>2. CASE NextAsset(f)
    BY <1>1, <2>2 DEF NextAsset
  <2> QED BY <2>1, <2>2 DEF BeginEvaluation, Evaluate, FindDue, ClaimRow, WriteNotification,
       CommitEvaluation, DeadlockVictim, EvaluationFails, Rollback
<1>3. CASE CommitEvaluation(f)
  <2>1. \A a \in Alerts : alerts'[a] = alerts[a] \/ alerts'[a] = "triggered"
    BY <1>1, <1>3 DEF CommitEvaluation
  <2>2. born' = born
    BY <1>3 DEF CommitEvaluation
  <2> QED BY <1>1, <1>2, <2>1, <2>2, OwedStays
<1>4. CASE UNCHANGED <<alerts, born>>
  BY <1>1, <1>2, <1>4, OwedStays
<1> QED BY <1>2, <1>3, <1>4 DEF BeginEvaluation, Evaluate, FindDue, ClaimRow,
     WriteNotification, NextAsset, DeadlockVictim, EvaluationFails

LEMMA MissedInductive == MissedInv /\ [Next]_avars => MissedInv'
<1> SUFFICES ASSUME MissedInv, [Next]_avars, NEW e \in Evaluators PROVE OwedInv(e)'
  BY AlertsInductive DEF MissedInv
<1>1. ASSUME NEW f \in Evaluators,
             \/ \E b \in Batches : BeginEvaluation(f, b)
             \/ Evaluate(f) \/ DeadlockVictim(f) \/ EvaluationFails(f)
      PROVE  OwedInv(e)'
  BY <1>1, EvaluationOwes, OtherEvaluation
<1> QED BY <1>1, OthersOwe DEF Next

\* What is ready to commit waits for no row, and commits all it owes.
LEMMA CommitsAll ==
  ASSUME MissedInv, NEW e \in Evaluators, [Next]_avars,
         eval[e].pc = "asset", eval[e].batch = <<>>, eval'[e].pc = "idle", faults' = faults
  PROVE  \A a \in eval[e].owed : alerts'[a] # "armed"
<1>1. /\ OwedInv(e) /\ eval[e] \in Evaluation /\ faults \in Nat
      /\ eval \in [Evaluators -> Evaluation]
  BY DEF MissedInv, AlertsInv, TypeOK
<1>2. \/ \E b \in Batches : BeginEvaluation(e, b)
      \/ Evaluate(e) \/ DeadlockVictim(e) \/ EvaluationFails(e)
  BY OthersOwe, OtherEvaluation DEF Next
<1>3. ~Deadlocked(e)
  <2>1. eval[e].due = {}
    BY <1>1 DEF OwedInv
  <2>2. WaitsFor(e) = {}
    BY <2>1 DEF WaitsFor, First
  <2> QED BY <2>2 DEF Deadlocked
<1>4. ~EvaluationFails(e)
  BY <1>1 DEF EvaluationFails
<1>5. CommitEvaluation(e)
  BY <1>1, <1>2, <1>3, <1>4 DEF BeginEvaluation, Evaluate, FindDue, ClaimRow,
     WriteNotification, NextAsset, DeadlockVictim
<1>6. ASSUME NEW a \in eval[e].owed, alerts'[a] = "armed"
      PROVE  FALSE
  <2>1. a \in Alerts
    BY <1>1, <1>6 DEF Evaluation
  <2>2. a \notin eval[e].claimed /\ alerts[a] = "armed"
    BY <1>5, <1>6, <2>1 DEF CommitEvaluation
  <2> QED BY <1>1, <1>6, <2>2 DEF OwedInv
<1> QED BY <1>6

\* An evaluation that commits has left none behind of the alerts its quotes had
\* crossed, whoever held their rows meanwhile (alerts.py evaluate).
THEOREM NothingIsMissed == Spec => NothingMissed
<1>1. MissedInv /\ [Next]_avars =>
        [\A e \in Evaluators :
           (eval[e].pc = "asset" /\ eval[e].batch = <<>> /\ eval'[e].pc = "idle"
              /\ faults' = faults)
             => \A a \in eval[e].owed : alerts'[a] # "armed"]_avars
  BY CommitsAll
<1> QED BY <1>1, InitMissed, MissedInductive, PTL DEF Spec, NothingMissed
=============================================================================
