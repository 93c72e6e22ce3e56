---------------------- MODULE NotificationMailProofs ----------------------
(***************************************************************************)
(* The row lock keeps a delivery to itself and an opt-out is final, for    *)
(* any users, notifications and workers, and any crashes and lost          *)
(* connections.  Both rest on what the opt-out has looked at so far: what  *)
(* it saw is still to be visited, is deleted by it and locked, or can      *)
(* never be queued again because its notification is committed.            *)
(***************************************************************************)
EXTENDS NotificationMail, FiniteSetTheorems, TLAPS

Live(w) == worker[w].pc # "idle" /\ ~worker[w].lost

\* A worker at rest names no mail; one at work does.
WorkersWell ==
  \A w \in Workers :
    IF worker[w].pc = "idle" THEN worker[w].of = NoNotice ELSE worker[w].of \in Notices

\* A mail is queued by the transaction that commits its notification.
RowsKept == \A n \in Notices : notice[n] # "kept" => outbox[n].row = "none"

\* HeldRowStays, row by row.
HeldAlone ==
  \A w \in Workers : \A n \in Notices :
    Live(w) /\ worker[w].of = n =>
      /\ outbox[n].row = "queued" /\ ~Deleting(n)
      /\ \A v \in Workers : Live(v) /\ worker[v].of = n => v = w

OptOutsWell ==
  \A u \in Users :
    /\ optOut[u].pc = "idle" => optOut[u].rows = {} /\ optOut[u].gone = {}
    /\ \A n \in optOut[u].seen :
         /\ Recipient[n] = u /\ notice[n] = "kept"
         /\ n \in optOut[u].rows \/ n \in optOut[u].gone \/ outbox[n].row # "queued"
    /\ \A n \in optOut[u].rows : n \in optOut[u].seen
    /\ \A n \in optOut[u].gone :
         n \in optOut[u].seen /\ outbox[n].row = "queued"

ClearedWell == \A n \in cleared : notice[n] = "kept" /\ outbox[n].row = "none"

MailInv == TypeOK /\ WorkersWell /\ RowsKept /\ HeldAlone /\ OptOutsWell /\ ClearedWell

LEMMA Holding ==
  ASSUME MailInv, NEW n \in Notices
  PROVE  Holders(n) = {w \in Workers : Live(w) /\ worker[w].of = n}
BY MailAssumption DEF MailInv, WorkersWell, Holders, Live

\* What the invariant says of the properties the runs check.
LEMMA MailImplied == MailInv => HeldRowStays /\ OptOutIsFinal
<1> SUFFICES ASSUME MailInv PROVE HeldRowStays /\ OptOutIsFinal
  OBVIOUS
<1>1. HeldRowStays
  <2> SUFFICES ASSUME NEW w \in Workers, Live(w)
               PROVE  /\ Holders(worker[w].of) = {w}
                      /\ outbox[worker[w].of].row = "queued" /\ ~Deleting(worker[w].of)
    BY DEF HeldRowStays, Live
  <2>1. worker[w].of \in Notices
    BY DEF MailInv, WorkersWell, Live
  <2> QED BY <2>1, Holding DEF MailInv, HeldAlone
<1>2. OptOutIsFinal
  <2> SUFFICES ASSUME NEW n \in cleared PROVE outbox[n].row = "none" /\ Holders(n) = {}
    BY DEF OptOutIsFinal
  <2>1. n \in Notices /\ outbox[n].row = "none"
    BY DEF MailInv, TypeOK, ClearedWell
  <2> QED BY <2>1, Holding DEF MailInv, HeldAlone
<1> QED BY <1>1, <1>2

LEMMA InitMail == Init => MailInv
<1> SUFFICES ASSUME Init PROVE MailInv
  OBVIOUS
<1>1. TypeOK
  BY MailAssumption DEF Init, TypeOK, NoRow, Row, NoOptOut, OptOutState, IdleWorker, Delivery
<1>2. WorkersWell /\ RowsKept /\ HeldAlone /\ OptOutsWell /\ ClearedWell
  BY DEF Init, WorkersWell, RowsKept, HeldAlone, OptOutsWell, ClearedWell, Live,
         NoRow, NoOptOut, IdleWorker
<1> QED BY <1>1, <1>2 DEF MailInv

LEMMA NoticeStep ==
  ASSUME MailInv, NEW n \in Notices, Insert(n) \/ CommitNotice(n) \/ RollbackNotice(n)
  PROVE  MailInv'
<1> USE DEF MailInv
<1>1. CASE CommitNotice(n)
  <2>1. /\ notice[n] = "queuing" /\ outbox[n].row = "none" /\ outbox[n] \in Row
        /\ notice' \in [Notices -> {"none", "queuing", "kept"}] /\ notice'[n] = "kept"
        /\ \A m \in Notices : m # n => notice'[m] = notice[m]
        /\ UNCHANGED <<enabled, optOut, worker, mails, results, interrupted, cleared, faults>>
    BY <1>1 DEF CommitNotice, TypeOK, RowsKept
  <2>2. /\ outbox' \in [Notices -> Row] /\ outbox'[n].row = "queued"
        /\ \A m \in Notices : m # n => outbox'[m] = outbox[m]
    BY <1>1, <2>1 DEF CommitNotice, TypeOK, Row
  <2>3. \A u \in Users : n \notin optOut[u].seen /\ n \notin optOut[u].gone
    BY <2>1 DEF OptOutsWell
  <2>4. TypeOK'
    BY <2>1, <2>2 DEF TypeOK
  <2>5. WorkersWell' /\ RowsKept'
    BY <2>1, <2>2 DEF WorkersWell, RowsKept
  <2>6. HeldAlone'
    BY <2>1, <2>2 DEF HeldAlone, Live, Deleting
  <2>7. OptOutsWell'
    <3>1. \A u \in Users : \A m \in optOut[u].seen : m \in Notices /\ m # n
      BY <2>3 DEF TypeOK, OptOutState
    <3>2. \A u \in Users : \A m \in optOut[u].gone : m \in Notices /\ m # n
      BY <2>3 DEF TypeOK, OptOutState
    <3> QED BY <2>1, <2>2, <3>1, <3>2 DEF OptOutsWell
  <2>8. ClearedWell'
    BY <2>1, <2>2 DEF ClearedWell, TypeOK
  <2> QED BY <2>4, <2>5, <2>6, <2>7, <2>8
<1>2. CASE Insert(n) \/ RollbackNotice(n)
  <2>1. /\ notice[n] # "kept"
        /\ notice' \in [Notices -> {"none", "queuing", "kept"}]
        /\ \A m \in Notices : m # n => notice'[m] = notice[m]
        /\ UNCHANGED <<enabled, outbox, optOut, worker, mails, results, interrupted,
                       cleared, faults>>
    BY <1>2 DEF Insert, RollbackNotice, TypeOK
  <2>2. \A u \in Users : n \notin optOut[u].seen
    BY <2>1 DEF OptOutsWell
  <2>3. TypeOK' /\ WorkersWell' /\ RowsKept' /\ HeldAlone'
    BY <2>1 DEF TypeOK, WorkersWell, RowsKept, HeldAlone, Live, Deleting
  <2>4. OptOutsWell' /\ ClearedWell'
    BY <2>1, <2>2 DEF OptOutsWell, ClearedWell, TypeOK, OptOutState
  <2> QED BY <2>3, <2>4
<1> QED BY <1>1, <1>2

LEMMA PreferenceStep ==
  ASSUME MailInv, NEW u \in Users,
         OptIn(u) \/ BeginOptOut(u) \/ OptOut(u) \/ OptOutFails(u)
  PROVE  MailInv'
<1> USE DEF MailInv
<1>1. CASE OptIn(u)
  BY <1>1 DEF OptIn, TypeOK, WorkersWell, RowsKept, HeldAlone, OptOutsWell, ClearedWell,
              Live, Deleting
<1>2. CASE BeginOptOut(u)
  <2> DEFINE seen == {n \in Of(u) : outbox[n].row = "queued"}
             x == [pc |-> "deleting", seen |-> seen, rows |-> seen, gone |-> {}]
  <2>1. x \in OptOutState /\ optOut' = [optOut EXCEPT ![u] = x]
    BY <1>2 DEF BeginOptOut, OptOutState, Of
  <2>2. /\ optOut' \in [Users -> OptOutState] /\ optOut'[u] = x
        /\ \A v \in Users : v # u => optOut'[v] = optOut[v]
        /\ UNCHANGED <<enabled, notice, outbox, worker, mails, results, interrupted,
                       cleared, faults>>
    BY <1>2, <2>1 DEF BeginOptOut, TypeOK
  <2>3. TypeOK' /\ WorkersWell' /\ RowsKept' /\ ClearedWell'
    BY <2>2 DEF TypeOK, WorkersWell, RowsKept, ClearedWell
  <2>4. HeldAlone'
    BY <2>2, MailAssumption DEF HeldAlone, Live, Deleting
  <2>5. OptOutsWell'
    BY <2>2 DEF OptOutsWell, Of, RowsKept
  <2> QED BY <2>3, <2>4, <2>5
<1>3. ASSUME NEW n \in Notices, DeleteRow(u, n) PROVE MailInv'
  <2> DEFINE o == optOut[u]
             unsent == {m \in {n} : outbox[m].row = "queued"}
             x == [o EXCEPT !.rows = o.rows \ {n}, !.gone = o.gone \cup unsent]
  <2>1. o \in OptOutState /\ n \in o.rows /\ optOut' = [optOut EXCEPT ![u] = x]
    BY <1>3 DEF DeleteRow, TypeOK
  <2>2. /\ x \in OptOutState /\ x.pc = o.pc /\ x.seen = o.seen
        /\ x.rows = o.rows \ {n} /\ x.gone = o.gone \cup unsent
    BY <2>1 DEF OptOutState
  <2> HIDE DEF x
  <2>3. /\ optOut' \in [Users -> OptOutState] /\ optOut'[u] = x
        /\ \A v \in Users : v # u => optOut'[v] = optOut[v]
        /\ UNCHANGED <<enabled, notice, outbox, worker, mails, results, interrupted,
                       cleared, faults>>
    BY <1>3, <2>1, <2>2 DEF DeleteRow, TypeOK
  <2>4. o.pc # "idle"
    BY <2>1 DEF OptOutsWell
  <2>5. TypeOK' /\ WorkersWell' /\ RowsKept' /\ ClearedWell'
    BY <2>3 DEF TypeOK, WorkersWell, RowsKept, ClearedWell
  <2>6. \A w \in Workers : ~(Live(w) /\ worker[w].of = n)
    BY <1>3, Holding DEF DeleteRow
  <2>7. HeldAlone'
    BY <2>2, <2>3, <2>6, MailAssumption DEF HeldAlone, Live, Deleting
  <2>8. OptOutsWell'
    BY <2>1, <2>2, <2>3, <2>4 DEF OptOutsWell
  <2> QED BY <2>5, <2>7, <2>8
<1>4. CASE CommitOptOut(u)
  <2> DEFINE gone == optOut[u].gone
  <2>1. /\ optOut[u].rows = {} /\ gone \subseteq Notices /\ optOut[u].seen \subseteq Notices
        /\ UNCHANGED <<notice, worker, mails, results, interrupted, faults>>
    BY <1>4 DEF CommitOptOut, TypeOK, OptOutState
  <2>2. /\ optOut' \in [Users -> OptOutState] /\ optOut'[u] = NoOptOut
        /\ \A v \in Users : v # u => optOut'[v] = optOut[v]
    BY <1>4 DEF CommitOptOut, TypeOK, OptOutState, NoOptOut
  <2>3. /\ outbox' \in [Notices -> Row]
        /\ \A n \in Notices : outbox'[n] = IF n \in gone THEN NoRow ELSE outbox[n]
    BY <1>4 DEF CommitOptOut, TypeOK, Row, NoRow
  <2>4. NoRow.row = "none"
    BY DEF NoRow
  <2>5. \A w \in Workers : \A n \in gone : ~(Live(w) /\ worker[w].of = n)
    BY <2>1 DEF HeldAlone, Deleting, OptOutsWell
  <2>6. TypeOK'
    BY <1>4, <2>1, <2>2, <2>3 DEF CommitOptOut, TypeOK
  <2>7. WorkersWell' /\ RowsKept'
    BY <2>1, <2>3, <2>4 DEF WorkersWell, RowsKept
  <2>8. HeldAlone'
    <3>1. \A n \in Notices : Deleting(n)' => Deleting(n)
      BY <2>2, MailAssumption DEF Deleting, NoOptOut
    <3> QED BY <2>1, <2>3, <2>5, <3>1 DEF HeldAlone, Live
  <2>9. OptOutsWell'
    <3>1. \A v \in Users : v # u => \A n \in optOut[v].seen : n \in Notices /\ n \notin gone
      BY DEF OptOutsWell, TypeOK, OptOutState
    <3>2. \A v \in Users : v # u => \A n \in optOut[v].gone : n \in optOut[v].seen
      BY DEF OptOutsWell
    <3> QED BY <2>1, <2>2, <2>3, <3>1, <3>2 DEF OptOutsWell, NoOptOut
  <2>10. ClearedWell'
    <3>1. \A n \in optOut[u].seen : outbox[n].row # "sent" =>
            notice[n] = "kept" /\ outbox'[n].row = "none"
      <4> SUFFICES ASSUME NEW n \in optOut[u].seen, outbox[n].row # "sent"
                   PROVE  notice[n] = "kept" /\ outbox'[n].row = "none"
        OBVIOUS
      <4>1. n \in Notices /\ outbox[n].row \in {"none", "queued", "sent"}
        BY <2>1 DEF TypeOK, Row
      <4>2. notice[n] = "kept" /\ (n \in gone \/ outbox[n].row # "queued")
        BY <2>1 DEF OptOutsWell
      <4> QED BY <2>3, <2>4, <4>1, <4>2
    <3>2. \A n \in cleared : notice[n] = "kept" /\ outbox'[n].row = "none"
      BY <2>3, <2>4 DEF ClearedWell, TypeOK
    <3> QED BY <1>4, <2>1, <3>1, <3>2 DEF CommitOptOut, ClearedWell
  <2> QED BY <2>6, <2>7, <2>8, <2>9, <2>10
<1>5. CASE OptOutFails(u)
  <2>1. /\ optOut' \in [Users -> OptOutState] /\ optOut'[u] = NoOptOut
        /\ \A v \in Users : v # u => optOut'[v] = optOut[v]
        /\ faults' \in 0 .. MaxFaults
        /\ UNCHANGED <<enabled, notice, outbox, worker, mails, results, interrupted, cleared>>
    BY <1>5, MailAssumption DEF OptOutFails, TypeOK, OptOutState, NoOptOut
  <2>2. TypeOK' /\ WorkersWell' /\ RowsKept' /\ ClearedWell'
    BY <2>1 DEF TypeOK, WorkersWell, RowsKept, ClearedWell
  <2>3. HeldAlone'
    BY <2>1, MailAssumption DEF HeldAlone, Live, Deleting, NoOptOut
  <2>4. OptOutsWell'
    BY <2>1 DEF OptOutsWell, NoOptOut
  <2> QED BY <2>2, <2>3, <2>4
<1> QED BY <1>1, <1>2, <1>3, <1>4, <1>5 DEF OptOut

\* A worker that takes a row nobody holds.
LEMMA ClaimableFree ==
  ASSUME MailInv, NEW n \in Notices, Claimable(n)
  PROVE  /\ outbox[n].row = "queued" /\ ~Deleting(n) /\ notice[n] = "kept"
         /\ \A w \in Workers : ~(Live(w) /\ worker[w].of = n)
         /\ \A u \in Users : n \notin optOut[u].gone
BY Holding, MailAssumption DEF MailInv, Claimable, RowsKept, OptOutsWell, Deleting

LEMMA ClaimStep ==
  ASSUME MailInv, NEW w \in Workers, NEW n \in Notices, Claim(w, n) \/ DropRow(w, n)
  PROVE  MailInv'
<1> USE DEF MailInv
<1>1. CASE Claim(w, n)
  <2> DEFINE x == [pc |-> "sending", of |-> n, lost |-> FALSE]
  <2>1. /\ worker' \in [Workers -> Delivery] /\ worker'[w] = x
        /\ \A v \in Workers : v # w => worker'[v] = worker[v]
        /\ UNCHANGED <<enabled, notice, outbox, optOut, mails, results, interrupted,
                       cleared, faults>>
    BY <1>1 DEF Claim, TypeOK, Delivery
  <2>2. Claimable(n) /\ ~Live(w)
    BY <1>1 DEF Claim, Live
  <2>3. TypeOK' /\ RowsKept' /\ OptOutsWell' /\ ClearedWell'
    BY <2>1 DEF TypeOK, RowsKept, OptOutsWell, ClearedWell
  <2>4. WorkersWell'
    BY <2>1 DEF WorkersWell
  <2>5. HeldAlone'
    BY <2>1, <2>2, ClaimableFree DEF HeldAlone, Live, Deleting
  <2> QED BY <2>3, <2>4, <2>5
<1>2. CASE DropRow(w, n)
  <2>1. /\ outbox' \in [Notices -> Row] /\ outbox'[n].row = "none"
        /\ \A m \in Notices : m # n => outbox'[m] = outbox[m]
        /\ UNCHANGED <<enabled, notice, optOut, worker, mails, results, interrupted,
                       cleared, faults>>
    BY <1>2 DEF DropRow, TypeOK, Row, NoRow
  <2>2. Claimable(n)
    BY <1>2 DEF DropRow
  <2>3. TypeOK' /\ WorkersWell' /\ RowsKept' /\ ClearedWell'
    BY <2>1 DEF TypeOK, WorkersWell, RowsKept, ClearedWell
  <2>4. HeldAlone'
    BY <2>1, <2>2, ClaimableFree DEF HeldAlone, Live, Deleting
  <2>5. OptOutsWell'
    <3>1. \A u \in Users : optOut[u].seen \subseteq Notices /\ optOut[u].gone \subseteq Notices
      BY DEF TypeOK, OptOutState
    <3> QED BY <2>1, <2>2, <3>1, ClaimableFree DEF OptOutsWell
  <2> QED BY <2>3, <2>4, <2>5
<1> QED BY <1>1, <1>2

\* A worker's delivery moves on or ends; nobody's row changes.
LEMMA DeliveryMoves ==
  ASSUME MailInv, NEW w \in Workers, NEW x \in Delivery, worker[w].pc # "idle",
         worker' = [worker EXCEPT ![w] = x],
         x = IdleWorker \/ (x.pc # "idle" /\ x.of = worker[w].of
                              /\ (worker[w].lost => x.lost)),
         UNCHANGED <<enabled, notice, outbox, optOut, cleared>>,
         {mails, results, interrupted}' \subseteq [Notices -> Nat],
         faults' \in 0 .. MaxFaults
  PROVE  MailInv'
<1> USE DEF MailInv
<1>1. /\ worker' \in [Workers -> Delivery] /\ worker'[w] = x
      /\ \A v \in Workers : v # w => worker'[v] = worker[v]
  BY DEF TypeOK
<1>2. TypeOK' /\ RowsKept' /\ OptOutsWell' /\ ClearedWell'
  BY <1>1 DEF TypeOK, RowsKept, OptOutsWell, ClearedWell
<1>3. WorkersWell'
  BY <1>1 DEF WorkersWell, IdleWorker
<1>4. HeldAlone'
  <2>1. \A v \in Workers : Live(v)' => Live(v) /\ worker'[v].of = worker[v].of
    BY <1>1 DEF Live, IdleWorker
  <2> QED BY <2>1 DEF HeldAlone, Deleting
<1> QED BY <1>2, <1>3, <1>4

LEMMA WorkerStep ==
  ASSUME MailInv, NEW w \in Workers,
         Deliver(w) \/ LoseConnection(w) \/ Crash(w)
  PROVE  MailInv'
<1> DEFINE d == worker[w]
<1>0. /\ d \in Delivery /\ (d.pc # "idle" => d.of \in Notices)
      /\ worker \in [Workers -> Delivery]
      /\ mails \in [Notices -> Nat] /\ results \in [Notices -> Nat]
      /\ interrupted \in [Notices -> Nat] /\ faults \in 0 .. MaxFaults
      /\ IdleWorker \in Delivery
  BY DEF MailInv, TypeOK, WorkersWell, IdleWorker, Delivery
<1>1. ASSUME NEW n \in Notices, Claim(w, n) \/ DropRow(w, n) PROVE MailInv'
  BY <1>1, ClaimStep
<1>2. CASE Send(w)
  <2>1. PICK o \in SendOutcomes :
          /\ mails' = [mails EXCEPT ![d.of] = @ + o[1]]
          /\ worker' = [worker EXCEPT ![w].pc = o[2]]
    BY <1>2 DEF Send
  <2> DEFINE x == [d EXCEPT !.pc = o[2]]
  <2>2. o[1] \in Nat /\ o[2] \in {"accepted", "failed"}
    BY <2>1 DEF SendOutcomes
  <2>3. x \in Delivery /\ x.pc # "idle" /\ x.of = d.of /\ x.lost = d.lost
    BY <1>0, <2>2 DEF Delivery
  <2>4. worker' = [worker EXCEPT ![w] = x]
    BY <2>1
  <2>5. mails' \in [Notices -> Nat]
    BY <1>0, <1>2, <2>1, <2>2 DEF Send
  <2>6. d.pc # "idle" /\ UNCHANGED <<enabled, notice, outbox, optOut, results,
                                    interrupted, cleared, faults>>
    BY <1>2 DEF Send
  <2> HIDE DEF x
  <2> QED BY <1>0, <2>3, <2>4, <2>5, <2>6, DeliveryMoves
<1>3. CASE RecordFails(w) \/ Crash(w)
  <2>1. /\ worker' = [worker EXCEPT ![w] = IdleWorker] /\ d.pc # "idle"
        /\ interrupted' = [interrupted EXCEPT ![d.of] = @ + 1]
        /\ UNCHANGED <<enabled, notice, outbox, optOut, mails, results, cleared>>
        /\ faults' \in 0 .. MaxFaults
    BY <1>0, <1>3, MailAssumption DEF RecordFails, Crash
  <2>2. interrupted' \in [Notices -> Nat]
    BY <1>0, <2>1
  <2> QED BY <1>0, <2>1, <2>2, DeliveryMoves
<1>4. CASE LoseConnection(w)
  <2> DEFINE x == [d EXCEPT !.lost = TRUE]
  <2>1. x \in Delivery /\ x.pc = d.pc /\ x.of = d.of /\ x.lost
    BY <1>0 DEF Delivery
  <2>2. worker' = [worker EXCEPT ![w] = x]
    BY <1>4 DEF LoseConnection
  <2>3. /\ d.pc # "idle" /\ faults' \in 0 .. MaxFaults
        /\ UNCHANGED <<enabled, notice, outbox, optOut, mails, results, interrupted, cleared>>
    BY <1>0, <1>4, MailAssumption DEF LoseConnection
  <2> HIDE DEF x
  <2> QED BY <1>0, <2>1, <2>2, <2>3, DeliveryMoves
<1>5. CASE Record(w)
  <2> USE DEF MailInv
  <2> DEFINE n == d.of
  <2>1. /\ Live(w) /\ n \in Notices /\ outbox[n] \in Row
        /\ UNCHANGED <<enabled, notice, optOut, mails, interrupted, cleared, faults>>
    BY <1>0, <1>5 DEF Record, Live, TypeOK
  <2>2. /\ Recorded(w) \in Row /\ Recorded(w).row \in {"queued", "sent"}
    BY <2>1 DEF Recorded, Row
  <2>3. /\ outbox' \in [Notices -> Row] /\ outbox'[n].row \in {"queued", "sent"}
        /\ \A m \in Notices : m # n => outbox'[m] = outbox[m]
    BY <1>5, <2>1, <2>2 DEF Record, TypeOK
  <2>4. /\ worker' \in [Workers -> Delivery] /\ worker'[w] = IdleWorker
        /\ \A v \in Workers : v # w => worker'[v] = worker[v]
        /\ results' \in [Notices -> Nat]
    BY <1>0, <1>5, <2>1 DEF Record
  <2>5. /\ outbox[n].row = "queued" /\ notice[n] = "kept" /\ n \notin cleared
        /\ \A u \in Users : n \notin optOut[u].gone
        /\ \A v \in Workers : Live(v) /\ worker[v].of = n => v = w
    BY <2>1 DEF HeldAlone, RowsKept, ClearedWell, Deleting, OptOutsWell
  <2>6. TypeOK'
    BY <2>1, <2>3, <2>4 DEF TypeOK
  <2>7. WorkersWell' /\ RowsKept' /\ ClearedWell'
    BY <2>1, <2>3, <2>4, <2>5 DEF WorkersWell, RowsKept, ClearedWell, TypeOK, IdleWorker
  <2>8. HeldAlone'
    <3>1. \A v \in Workers : Live(v)' => v # w /\ Live(v) /\ worker'[v] = worker[v]
      BY <2>4 DEF Live, IdleWorker
    <3> QED BY <2>1, <2>3, <2>5, <3>1 DEF HeldAlone, Deleting
  <2>9. OptOutsWell'
    <3>1. \A u \in Users : /\ optOut[u].seen \subseteq Notices
                           /\ optOut[u].gone \subseteq Notices
      BY DEF TypeOK, OptOutState
    <3>2. \A u \in Users : n \in optOut[u].seen => n \in optOut[u].rows
      BY <2>5 DEF OptOutsWell
    <3> QED BY <2>1, <2>3, <2>5, <3>1, <3>2 DEF OptOutsWell
  <2> QED BY <2>6, <2>7, <2>8, <2>9
<1> QED BY <1>1, <1>2, <1>3, <1>4, <1>5 DEF Deliver

LEMMA MailInductive == MailInv /\ [Next]_mvars => MailInv'
<1>1. ASSUME MailInv, UNCHANGED mvars PROVE MailInv'
  BY <1>1 DEF mvars, MailInv, TypeOK, WorkersWell, RowsKept, HeldAlone, OptOutsWell,
              ClearedWell, Live, Deleting
<1> QED BY <1>1, NoticeStep, PreferenceStep, WorkerStep DEF Next

\* In every reachable state the variables have their types (NotificationMail).
THEOREM MailTypes == Spec => []TypeOK
<1>1. MailInv => TypeOK
  BY DEF MailInv
<1> QED BY <1>1, InitMail, MailInductive, PTL DEF Spec

\* "Row lock spans delivery; other workers skip it": the mail a live worker
\* sends stays queued and its own until the worker is done (email_worker.py
\* deliver_one), for any number of workers, mails and faults.
THEOREM DeliveriesApart == Spec => []HeldRowStays
  BY MailImplied, InitMail, MailInductive, PTL DEF Spec

\* A mail queued when its user's opt-out committed is never sent by a live
\* worker nor queued again (repository.py preferences), in any run.
THEOREM OptOutsFinal == Spec => []OptOutIsFinal
  BY MailImplied, InitMail, MailInductive, PTL DEF Spec

(***************************************************************************)
(* Copies.  The count of a mail's copies follows its deliveries: a copy    *)
(* is added by a worker that becomes Unrecorded, and a worker leaves       *)
(* Unrecorded by adding to results or to interrupted.                      *)
(***************************************************************************)
CountsWell ==
  /\ \A n \in Notices :
       /\ mails[n] <= results[n] + interrupted[n] + Cardinality(Unrecorded(n))
       /\ results[n] <= MaxAttempts
       /\ notice[n] # "kept" => results[n] = 0 /\ outbox[n].attempts = 0
       /\ outbox[n].row # "none" => outbox[n].attempts = results[n]
       /\ outbox[n].row = "sent" => mails[n] > 0
  /\ \A w \in Workers :
       /\ Live(w) => outbox[worker[w].of].attempts < MaxAttempts
       /\ worker[w].pc = "accepted" => mails[worker[w].of] > 0

LEMMA UnrecordedFinite ==
  ASSUME TypeOK, NEW n \in Notices
  PROVE  IsFiniteSet(Unrecorded(n)) /\ Cardinality(Unrecorded(n)) \in Nat
BY FS_Subset, FS_CardinalityType, MailAssumption DEF Unrecorded

LEMMA InitCounts == Init => CountsWell
<1> SUFFICES ASSUME Init PROVE CountsWell
  OBVIOUS
<1>1. \A n \in Notices : Cardinality(Unrecorded(n)) \in Nat
  BY InitMail, UnrecordedFinite DEF MailInv
<1>2. \A n \in Notices : mails[n] = 0 /\ results[n] = 0 /\ interrupted[n] = 0
                          /\ outbox[n] = NoRow
  BY DEF Init
<1>3. \A w \in Workers : worker[w] = IdleWorker
  BY DEF Init
<1> QED BY <1>1, <1>2, <1>3, MailAssumption DEF CountsWell, NoRow, IdleWorker, Live

\* Steps that leave deliveries and counts alone: rows appear with no attempts
\* or disappear while nobody holds them.
LEMMA RowsChange ==
  ASSUME MailInv, CountsWell, UNCHANGED <<worker, mails, results, interrupted>>,
         \A n \in Notices :
           /\ notice'[n] # "kept" => notice[n] # "kept"
           /\ \/ outbox'[n] = outbox[n]
              \/ outbox'[n] = NoRow /\ notice[n] = "kept"
                 /\ \A w \in Workers : ~(Live(w) /\ worker[w].of = n)
              \/ outbox'[n] = [outbox[n] EXCEPT !.row = "queued"] /\ notice[n] # "kept"
  PROVE  CountsWell'
<1>1. \A n \in Notices : outbox[n] \in Row
  BY DEF MailInv, TypeOK
<1>2. \A n \in Notices : Unrecorded(n)' = Unrecorded(n)
  BY DEF Unrecorded
<1>3. \A n \in Notices :
        /\ notice'[n] # "kept" => outbox'[n].attempts = 0
        /\ outbox'[n].row # "none" => outbox'[n].attempts = results[n]
        /\ outbox'[n].row = "sent" => outbox[n].row = "sent"
  <2> SUFFICES ASSUME NEW n \in Notices
               PROVE  /\ notice'[n] # "kept" => outbox'[n].attempts = 0
                      /\ outbox'[n].row # "none" => outbox'[n].attempts = results[n]
                      /\ outbox'[n].row = "sent" => outbox[n].row = "sent"
    OBVIOUS
  <2>1. CASE outbox'[n] = outbox[n]
    BY <2>1 DEF CountsWell
  <2>2. CASE outbox'[n] = NoRow
    BY <2>2 DEF NoRow
  <2>3. CASE outbox'[n] = [outbox[n] EXCEPT !.row = "queued"] /\ notice[n] # "kept"
    BY <1>1, <2>3 DEF CountsWell, Row
  <2> QED BY <2>1, <2>2, <2>3
<1>4. \A w \in Workers : Live(w)' => outbox'[worker[w].of].attempts < MaxAttempts
  <2> SUFFICES ASSUME NEW w \in Workers, Live(w)
               PROVE  outbox'[worker[w].of].attempts < MaxAttempts
    BY DEF Live
  <2> DEFINE n == worker[w].of
  <2>1. n \in Notices /\ notice[n] = "kept"
    BY DEF MailInv, WorkersWell, HeldAlone, RowsKept, Live
  <2>2. outbox'[n] = outbox[n]
    BY <2>1
  <2> QED BY <2>2 DEF CountsWell
<1> QED BY <1>2, <1>3, <1>4 DEF CountsWell

\* What a step does that ends w's delivery of n.
DeliveryEnded(w, n) ==
  /\ worker[w].pc # "idle" /\ worker[w].of = n
  /\ worker' = [worker EXCEPT ![w] = IdleWorker]
  /\ UNCHANGED <<notice, mails>>
  /\ \A m \in Notices : m # n => /\ results'[m] = results[m] /\ interrupted'[m] = interrupted[m]
                                 /\ outbox'[m] = outbox[m]
  /\ results'[n] + interrupted'[n] = results[n] + interrupted[n] + 1
  /\ results'[n] <= MaxAttempts /\ (notice[n] # "kept" => results'[n] = 0)
  /\ notice[n] # "kept" => outbox'[n].attempts = 0
  /\ outbox'[n].row # "none" => outbox'[n].attempts = results'[n]
  /\ outbox'[n].row = "sent" => mails[n] > 0
  /\ \A v \in Workers : v # w /\ Live(v) /\ worker[v].of = n =>
       outbox'[n].attempts < MaxAttempts

\* A delivery of n that ends and is counted in results or in interrupted.
LEMMA DeliveryEnds ==
  ASSUME MailInv, MailInv', CountsWell, NEW w \in Workers, NEW n \in Notices,
         DeliveryEnded(w, n)
  PROVE  CountsWell'
<1>0. TypeOK /\ TypeOK'
  BY DEF MailInv
<1>1. /\ worker'[w] = IdleWorker /\ IdleWorker.of = NoNotice /\ IdleWorker.pc = "idle"
      /\ \A v \in Workers : v # w => worker'[v] = worker[v]
  BY <1>0 DEF TypeOK, IdleWorker, DeliveryEnded
<1>2. \A m \in Notices : m # n => Unrecorded(m)' = Unrecorded(m)
  BY <1>1, MailAssumption DEF Unrecorded, DeliveryEnded
<1>3. Unrecorded(n)' = Unrecorded(n) \ {w}
  BY <1>1, MailAssumption DEF Unrecorded, DeliveryEnded
<1>4. /\ Cardinality(Unrecorded(n)) \in Nat /\ Cardinality(Unrecorded(n)') \in Nat
      /\ Cardinality(Unrecorded(n)) <= Cardinality(Unrecorded(n)') + 1
  <2>1. IsFiniteSet(Unrecorded(n)) /\ Cardinality(Unrecorded(n)) \in Nat
    BY <1>0, UnrecordedFinite
  <2>2. Cardinality(Unrecorded(n) \ {w}) =
          IF w \in Unrecorded(n) THEN Cardinality(Unrecorded(n)) - 1
          ELSE Cardinality(Unrecorded(n))
    BY <2>1, FS_RemoveElement
  <2>3. w \in Unrecorded(n) => Cardinality(Unrecorded(n)) # 0
    BY <2>1, FS_EmptySet
  <2> QED BY <1>3, <2>1, <2>2, <2>3
<1>5. \A m \in Notices : /\ mails[m] \in Nat /\ results[m] \in Nat /\ interrupted[m] \in Nat
                          /\ results'[m] \in Nat /\ interrupted'[m] \in Nat
  BY <1>0 DEF TypeOK
<1>6. \A m \in Notices :
        mails'[m] <= results'[m] + interrupted'[m] + Cardinality(Unrecorded(m)')
  BY <1>2, <1>4, <1>5 DEF CountsWell, DeliveryEnded
<1>7. \A v \in Workers :
        /\ Live(v)' => outbox'[worker'[v].of].attempts < MaxAttempts
        /\ worker'[v].pc = "accepted" => mails'[worker'[v].of] > 0
  <2> SUFFICES ASSUME NEW v \in Workers, v # w
               PROVE  /\ Live(v)' => outbox'[worker'[v].of].attempts < MaxAttempts
                      /\ worker'[v].pc = "accepted" => mails'[worker'[v].of] > 0
    BY <1>1 DEF Live
  <2>1. worker'[v] = worker[v] /\ (worker[v].pc # "idle" => worker[v].of \in Notices)
    BY <1>1 DEF MailInv, WorkersWell
  <2> QED BY <2>1 DEF CountsWell, Live, DeliveryEnded
<1> QED BY <1>6, <1>7 DEF CountsWell, DeliveryEnded

LEMMA CountsStep ==
  ASSUME MailInv, MailInv', CountsWell, Next
  PROVE  CountsWell'
<1>0. TypeOK /\ TypeOK'
  BY DEF MailInv
<1>1. ASSUME NEW n \in Notices, Insert(n) \/ CommitNotice(n) \/ RollbackNotice(n)
      PROVE  CountsWell'
  <2>1. /\ UNCHANGED <<worker, mails, results, interrupted>> /\ notice[n] # "kept"
        /\ \A m \in Notices : m # n => notice'[m] = notice[m] /\ outbox'[m] = outbox[m]
        /\ outbox'[n] \in {outbox[n], [outbox[n] EXCEPT !.row = "queued"]}
    BY <1>0, <1>1 DEF Insert, CommitNotice, RollbackNotice, TypeOK
  <2> QED BY <2>1, RowsChange
<1>2. ASSUME NEW u \in Users, OptIn(u) \/ BeginOptOut(u) \/ OptOutFails(u)
      PROVE  CountsWell'
  BY <1>2, RowsChange DEF OptIn, BeginOptOut, OptOutFails
<1>3. ASSUME NEW u \in Users, NEW n \in Notices, DeleteRow(u, n) PROVE CountsWell'
  BY <1>3, RowsChange DEF DeleteRow
<1>4. ASSUME NEW u \in Users, CommitOptOut(u) PROVE CountsWell'
  <2>1. /\ UNCHANGED <<worker, mails, results, interrupted, notice>>
        /\ \A n \in Notices : outbox'[n] = IF n \in optOut[u].gone THEN NoRow ELSE outbox[n]
    BY <1>4 DEF CommitOptOut
  <2>2. \A n \in optOut[u].gone :
          notice[n] = "kept" /\ \A w \in Workers : ~(Live(w) /\ worker[w].of = n)
    <3> SUFFICES ASSUME NEW n \in optOut[u].gone
                 PROVE  notice[n] = "kept"
                        /\ \A w \in Workers : ~(Live(w) /\ worker[w].of = n)
      OBVIOUS
    <3>1. n \in Notices /\ Deleting(n) /\ notice[n] = "kept"
      BY DEF MailInv, TypeOK, OptOutState, OptOutsWell, Deleting
    <3> QED BY <3>1 DEF MailInv, HeldAlone
  <2> QED BY <2>1, <2>2, RowsChange
<1>5. ASSUME NEW w \in Workers, NEW n \in Notices, DropRow(w, n) PROVE CountsWell'
  <2>1. /\ UNCHANGED <<worker, mails, results, interrupted, notice>>
        /\ outbox'[n] = NoRow /\ \A m \in Notices : m # n => outbox'[m] = outbox[m]
        /\ Claimable(n)
    BY <1>0, <1>5 DEF DropRow, TypeOK
  <2> QED BY <2>1, ClaimableFree, RowsChange
<1>6. ASSUME NEW w \in Workers, NEW n \in Notices, Claim(w, n) PROVE CountsWell'
  <2> DEFINE x == [pc |-> "sending", of |-> n, lost |-> FALSE]
  <2>1. /\ UNCHANGED <<outbox, mails, results, interrupted, notice>>
        /\ worker'[w] = x /\ \A v \in Workers : v # w => worker'[v] = worker[v]
        /\ worker[w].of = NoNotice /\ outbox[n].attempts < MaxAttempts
    BY <1>0, <1>6 DEF Claim, Claimable, TypeOK, MailInv, WorkersWell
  <2>2. \A m \in Notices : Unrecorded(m)' = Unrecorded(m)
    BY <2>1, MailAssumption DEF Unrecorded
  <2> QED BY <2>1, <2>2 DEF CountsWell, Live
<1>7. ASSUME NEW w \in Workers, Send(w) PROVE CountsWell'
  <2> DEFINE n == worker[w].of
  <2>1. n \in Notices /\ worker[w].pc = "sending"
    BY <1>7 DEF Send, MailInv, WorkersWell
  <2>2. PICK o \in SendOutcomes : /\ mails' = [mails EXCEPT ![n] = @ + o[1]]
                                  /\ worker' = [worker EXCEPT ![w].pc = o[2]]
    BY <1>7 DEF Send
  <2>3. o[1] \in {0, 1} /\ o[2] \in {"accepted", "failed"} /\ (o[2] = "accepted" => o[1] = 1)
    BY DEF SendOutcomes
  <2>4. /\ worker'[w].pc = o[2] /\ worker'[w].of = n /\ worker'[w].lost = worker[w].lost
        /\ \A v \in Workers : v # w => worker'[v] = worker[v]
    BY <1>0, <2>2 DEF TypeOK, Delivery
  <2>5. /\ mails'[n] = mails[n] + o[1] /\ mails[n] \in Nat
        /\ \A m \in Notices : m # n => mails'[m] = mails[m]
        /\ \A m \in Notices : results[m] \in Nat /\ interrupted[m] \in Nat /\ mails[m] \in Nat
    BY <1>0, <2>1, <2>2 DEF TypeOK
  <2>6. UNCHANGED <<outbox, results, interrupted, notice>>
    BY <1>7 DEF Send
  <2>7. \A m \in Notices : m # n => Unrecorded(m)' = Unrecorded(m)
    BY <2>4 DEF Unrecorded
  <2>8. \A m \in Notices : m = n =>
          Unrecorded(m)' = Unrecorded(m) \cup {w} /\ w \notin Unrecorded(m)
    BY <2>1, <2>3, <2>4 DEF Unrecorded
  <2>9. \A m \in Notices :
          /\ Cardinality(Unrecorded(m)) \in Nat
          /\ Cardinality(Unrecorded(m)') =
               IF m = n THEN Cardinality(Unrecorded(m)) + 1 ELSE Cardinality(Unrecorded(m))
    BY <1>0, <2>7, <2>8, UnrecordedFinite, FS_AddElement
  <2>10. \A m \in Notices :
          /\ mails'[m] <= results[m] + interrupted[m] + Cardinality(Unrecorded(m)')
          /\ mails[m] > 0 => mails'[m] > 0
    <3> SUFFICES ASSUME NEW m \in Notices
                 PROVE  /\ mails'[m] <= results[m] + interrupted[m] + Cardinality(Unrecorded(m)')
                        /\ mails[m] > 0 => mails'[m] > 0
      OBVIOUS
    <3>1. /\ mails[m] <= results[m] + interrupted[m] + Cardinality(Unrecorded(m))
          /\ mails[m] \in Nat /\ results[m] \in Nat /\ interrupted[m] \in Nat
      BY <2>5 DEF CountsWell
    <3>2. mails'[m] = IF m = n THEN mails[m] + o[1] ELSE mails[m]
      BY <2>5
    <3> HIDE DEF n
    <3> QED BY <2>3, <2>9, <3>1, <3>2
  <2>11. \A v \in Workers : worker'[v].pc = "accepted" => mails'[worker'[v].of] > 0
    <3>1. o[2] = "accepted" => mails'[n] > 0
      BY <2>3, <2>5
    <3>2. \A v \in Workers : worker[v].pc # "idle" => worker[v].of \in Notices
      BY DEF MailInv, WorkersWell
    <3> QED BY <2>4, <2>10, <3>1, <3>2 DEF CountsWell
  <2>12. \A v \in Workers : Live(v)' => Live(v) /\ worker'[v].of = worker[v].of
    BY <2>1, <2>4 DEF Live
  <2> QED BY <2>6, <2>10, <2>11, <2>12 DEF CountsWell
<1>8. ASSUME NEW w \in Workers, RecordFails(w) \/ Crash(w) PROVE CountsWell'
  <2> DEFINE n == worker[w].of
  <2>1. /\ n \in Notices /\ worker[w].pc # "idle"
        /\ worker' = [worker EXCEPT ![w] = IdleWorker]
        /\ UNCHANGED <<notice, mails, results, outbox>>
        /\ interrupted' = [interrupted EXCEPT ![n] = @ + 1]
    BY <1>8 DEF RecordFails, Crash, MailInv, WorkersWell
  <2>2. /\ interrupted'[n] = interrupted[n] + 1 /\ interrupted[n] \in Nat /\ results[n] \in Nat
        /\ \A m \in Notices : m # n => interrupted'[m] = interrupted[m]
    BY <1>0, <2>1 DEF TypeOK
  <2>3. /\ results'[n] + interrupted'[n] = results[n] + interrupted[n] + 1
        /\ results'[n] <= MaxAttempts /\ (notice[n] # "kept" => results'[n] = 0)
        /\ notice[n] # "kept" => outbox'[n].attempts = 0
        /\ outbox'[n].row # "none" => outbox'[n].attempts = results'[n]
        /\ outbox'[n].row = "sent" => mails[n] > 0
        /\ \A v \in Workers : v # w /\ Live(v) /\ worker[v].of = n =>
             outbox'[n].attempts < MaxAttempts
    BY <2>1, <2>2 DEF CountsWell
  <2>4. \A m \in Notices : m # n => /\ results'[m] = results[m]
                                    /\ interrupted'[m] = interrupted[m]
                                    /\ outbox'[m] = outbox[m]
    BY <2>1, <2>2
  <2>5. worker[w].of = n /\ UNCHANGED <<notice, mails>>
    BY <2>1
  <2>6. n \in Notices /\ DeliveryEnded(w, n)
    BY <2>1, <2>3, <2>4, <2>5 DEF DeliveryEnded
  <2> HIDE DEF n
  <2> QED BY <2>6, DeliveryEnds
<1>9. ASSUME NEW w \in Workers, NEW n \in Notices, worker[w].of = n, Record(w)
      PROVE  CountsWell'
  <2>1. /\ worker[w].of = n /\ Live(w) /\ worker[w].pc \in {"accepted", "failed"}
        /\ worker' = [worker EXCEPT ![w] = IdleWorker]
        /\ UNCHANGED <<notice, mails, interrupted>>
        /\ results' = [results EXCEPT ![n] = @ + 1]
        /\ outbox' = [outbox EXCEPT ![n] = Recorded(w)]
    BY <1>9 DEF Record, MailInv, WorkersWell, Live
  <2>2. /\ outbox[n].row = "queued" /\ notice[n] = "kept"
        /\ \A v \in Workers : Live(v) /\ worker[v].of = n => v = w
    BY <2>1 DEF MailInv, HeldAlone, RowsKept
  <2>3. /\ results[n] \in Nat /\ interrupted[n] \in Nat /\ results'[n] = results[n] + 1
        /\ \A m \in Notices : m # n => results'[m] = results[m] /\ outbox'[m] = outbox[m]
        /\ outbox'[n] = Recorded(w)
    BY <1>0, <2>1 DEF TypeOK
  <2>4. outbox[n].attempts = results[n] /\ results[n] < MaxAttempts
    BY <2>1, <2>2 DEF CountsWell
  <2>5. /\ outbox'[n].attempts = results'[n]
        /\ outbox'[n].row = "sent" => mails[n] > 0
    BY <2>1, <2>3, <2>4 DEF Recorded, CountsWell
  <2>6. results'[n] <= MaxAttempts
    BY <2>3, <2>4, MailAssumption
  <2>7. /\ results'[n] + interrupted'[n] = results[n] + interrupted[n] + 1
        /\ results'[n] <= MaxAttempts /\ (notice[n] # "kept" => results'[n] = 0)
        /\ notice[n] # "kept" => outbox'[n].attempts = 0
        /\ outbox'[n].row # "none" => outbox'[n].attempts = results'[n]
        /\ outbox'[n].row = "sent" => mails[n] > 0
        /\ \A v \in Workers : v # w /\ Live(v) /\ worker[v].of = n =>
             outbox'[n].attempts < MaxAttempts
    BY <2>1, <2>2, <2>3, <2>5, <2>6
  <2>8. \A m \in Notices : m # n => /\ results'[m] = results[m]
                                    /\ interrupted'[m] = interrupted[m]
                                    /\ outbox'[m] = outbox[m]
    BY <2>1, <2>3
  <2>9. worker[w].of = n /\ worker[w].pc # "idle"
    BY <2>1
  <2>10. worker' = [worker EXCEPT ![w] = IdleWorker] /\ UNCHANGED <<notice, mails>>
    BY <2>1
  <2>11. DeliveryEnded(w, n)
    BY <2>7, <2>8, <2>9, <2>10 DEF DeliveryEnded
  <2> QED BY <2>11, DeliveryEnds
<1>10. ASSUME NEW w \in Workers, LoseConnection(w) PROVE CountsWell'
  <2>1. UNCHANGED <<outbox, mails, results, interrupted, notice>>
    BY <1>10 DEF LoseConnection
  <2>2. \A v \in Workers : worker'[v].pc = worker[v].pc /\ worker'[v].of = worker[v].of
    BY <1>0, <1>10 DEF LoseConnection, TypeOK, Delivery
  <2>3. \A v \in Workers : Live(v)' => Live(v)
    BY <1>0, <1>10 DEF LoseConnection, TypeOK, Delivery, Live
  <2>4. \A m \in Notices : Unrecorded(m)' = Unrecorded(m)
    BY <2>2 DEF Unrecorded
  <2> QED BY <2>1, <2>2, <2>3, <2>4 DEF CountsWell
<1>11. ASSUME NEW w \in Workers, Record(w) PROVE CountsWell'
  BY <1>9, <1>11 DEF Record, MailInv, WorkersWell
<1> QED BY <1>1, <1>2, <1>3, <1>4, <1>5, <1>6, <1>7, <1>8, <1>10, <1>11
        DEF Next, OptOut, Deliver

\* "Delivery retries up to five attempts; a provider acknowledgement failure
\* can cause duplicate delivery": copies never exceed recorded attempts and
\* interrupted or open deliveries, attempts never exceed the limit, and what
\* the database calls sent was accepted (deliver_one), for any faults.
THEOREM CopiesAccounted == Spec => []CopiesExplained
<1>1. CountsWell => CopiesExplained
  BY DEF CountsWell, CopiesExplained
<1>2. MailInv /\ CountsWell /\ [Next]_mvars => (MailInv /\ CountsWell)'
  <2>1. ASSUME CountsWell, UNCHANGED mvars PROVE CountsWell'
    BY <2>1 DEF mvars, CountsWell, Live, Unrecorded
  <2> QED BY <2>1, MailInductive, CountsStep
<1> QED BY <1>1, <1>2, InitMail, InitCounts, PTL DEF Spec
=============================================================================
