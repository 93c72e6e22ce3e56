-------------------------- MODULE NotificationMail --------------------------
(***************************************************************************)
(* The email outbox: the trigger that queues a mail beside a notification  *)
(* (database/postgres/011_notification_email.sql), the opt-out that        *)
(* empties the queue (notifications/repository.py) and the workers that    *)
(* send from it (notifications/email_worker.py deliver_one).               *)
(*                                                                         *)
(* A worker keeps the row of the mail it sends locked, in an open          *)
(* transaction, while it talks to the provider.  It may die there, lose    *)
(* its database connection and go on, or never learn what the provider     *)
(* did.  Due times are abstracted: a queued mail may be due at any moment. *)
(***************************************************************************)
EXTENDS Integers, FiniteSets

CONSTANTS
  Notices,       \* notification_id
  Users,
  Recipient,     \* [Notices -> Users]
  Workers,
  MaxAttempts,   \* 5 in the code
  MaxFaults,     \* bound on crashes and lost connections
  NoNotice

ASSUME MailAssumption ==
  /\ Recipient \in [Notices -> Users]
  /\ IsFiniteSet(Workers)
  /\ MaxAttempts \in Nat \ {0}
  /\ MaxFaults \in Nat
  /\ NoNotice \notin Notices

VARIABLES
  enabled,      \* notification_preferences.email_enabled, by user
  notice,       \* "none", "queuing" in an open transaction, or "kept"
  outbox,       \* notification_email_outbox, by notification
  optOut,       \* a user's opt-out in progress
  worker,       \* each worker's delivery
  mails,        \* mails the provider has accepted
  results,      \* deliveries whose result was recorded
  interrupted,  \* deliveries whose result was not
  cleared,      \* mails that were queued when their user's opt-out took effect
  faults

mvars == <<enabled, notice, outbox, optOut, worker, mails, results,
           interrupted, cleared, faults>>

NoRow == [row |-> "none", attempts |-> 0]
NoOptOut == [pc |-> "idle", seen |-> {}, rows |-> {}, gone |-> {}]
IdleWorker == [pc |-> "idle", of |-> NoNotice, lost |-> FALSE]

Row == [row: {"none", "queued", "sent"}, attempts: Nat]
OptOutState == [pc: {"idle", "deleting"}, seen: SUBSET Notices,
                rows: SUBSET Notices, gone: SUBSET Notices]
Delivery == [pc: {"idle", "sending", "accepted", "failed"},
             of: Notices \cup {NoNotice}, lost: BOOLEAN]

TypeOK ==
  /\ enabled \in [Users -> BOOLEAN]
  /\ notice \in [Notices -> {"none", "queuing", "kept"}]
  /\ outbox \in [Notices -> Row]
  /\ optOut \in [Users -> OptOutState]
  /\ worker \in [Workers -> Delivery]
  /\ {mails, results, interrupted} \subseteq [Notices -> Nat]
  /\ cleared \subseteq Notices
  /\ faults \in 0 .. MaxFaults

Of(u) == {n \in Notices : Recipient[n] = u}

\* The workers that hold n's row lock.
Holders(n) == {w \in Workers : worker[w].of = n /\ ~worker[w].lost}

Deleting(n) == n \in optOut[Recipient[n]].gone

\* is_active and is_email_verified change at an administrator's or the user's
\* will: whoever reads the account finds them true or not.
Wanted(n, reachable) == enabled[Recipient[n]] /\ reachable

(***************************************************************************)
(* Producers: any transaction that inserts a notification.  The trigger    *)
(* reads the preference and the account as committed at that moment; when  *)
(* it queues nothing, the transaction's end does not matter here.          *)
(***************************************************************************)
Insert(n) ==
  /\ notice[n] = "none"
  /\ \E reachable \in BOOLEAN :
       notice' = [notice EXCEPT ![n] = IF Wanted(n, reachable) THEN "queuing" ELSE "kept"]
  /\ UNCHANGED <<enabled, outbox, optOut, worker, mails, results,
                 interrupted, cleared, faults>>

CommitNotice(n) ==
  /\ notice[n] = "queuing"
  /\ notice' = [notice EXCEPT ![n] = "kept"]
  /\ outbox' = [outbox EXCEPT ![n].row = "queued"]
  /\ UNCHANGED <<enabled, optOut, worker, mails, results,
                 interrupted, cleared, faults>>

RollbackNotice(n) ==
  /\ notice[n] = "queuing"
  /\ notice' = [notice EXCEPT ![n] = "none"]
  /\ UNCHANGED <<enabled, outbox, optOut, worker, mails, results,
                 interrupted, cleared, faults>>

(***************************************************************************)
(* Preferences and the account.                                            *)
(***************************************************************************)

\* The upsert waits for the row an opt-out of the same user has written.
OptIn(u) ==
  /\ optOut[u].pc = "idle" /\ ~enabled[u]
  /\ enabled' = [enabled EXCEPT ![u] = TRUE]
  /\ UNCHANGED <<notice, outbox, optOut, worker, mails, results,
                 interrupted, cleared, faults>>

\* The upsert, and the rows the DELETE sees when it starts.
BeginOptOut(u) ==
  /\ optOut[u].pc = "idle"
  /\ LET seen == {n \in Of(u) : outbox[n].row = "queued"} IN
       optOut' = [optOut EXCEPT ![u] =
         [pc |-> "deleting", seen |-> seen, rows |-> seen, gone |-> {}]]
  /\ UNCHANGED <<enabled, notice, outbox, worker, mails, results,
                 interrupted, cleared, faults>>

\* Mutant of DeleteRow: a row that a worker holds is skipped.
DeleteUnlockedRow(u, n) ==
  /\ n \in optOut[u].rows
  /\ LET unsent == {m \in {n} : outbox[m].row = "queued" /\ Holders(m) = {}} IN
       optOut' = [optOut EXCEPT ![u] =
         [@ EXCEPT !.rows = optOut[u].rows \ {n}, !.gone = optOut[u].gone \cup unsent]]
  /\ UNCHANGED <<enabled, notice, outbox, worker, mails, results,
                 interrupted, cleared, faults>>

\* The DELETE waits for a row a worker holds, then tests sent_at again.
DeleteRow(u, n) ==
  /\ n \in optOut[u].rows
  /\ Holders(n) = {}
  /\ LET unsent == {m \in {n} : outbox[m].row = "queued"} IN
       optOut' = [optOut EXCEPT ![u] =
         [@ EXCEPT !.rows = optOut[u].rows \ {n}, !.gone = optOut[u].gone \cup unsent]]
  /\ UNCHANGED <<enabled, notice, outbox, worker, mails, results,
                 interrupted, cleared, faults>>

CommitOptOut(u) ==
  /\ optOut[u].pc = "deleting" /\ optOut[u].rows = {}
  /\ enabled' = [enabled EXCEPT ![u] = FALSE]
  /\ outbox' = [n \in Notices |-> IF n \in optOut[u].gone THEN NoRow ELSE outbox[n]]
  /\ optOut' = [optOut EXCEPT ![u] = NoOptOut]
  /\ cleared' = cleared \cup {n \in optOut[u].seen : outbox[n].row # "sent"}
  /\ UNCHANGED <<notice, worker, mails, results, interrupted, faults>>

OptOutFails(u) ==
  /\ optOut[u].pc = "deleting" /\ faults < MaxFaults
  /\ optOut' = [optOut EXCEPT ![u] = NoOptOut]
  /\ faults' = faults + 1
  /\ UNCHANGED <<enabled, notice, outbox, worker, mails, results,
                 interrupted, cleared>>

(***************************************************************************)
(* deliver_one.  configured(settings) is taken to hold, as the preflight   *)
(* of a production deployment requires (ops/preflight.py).                 *)
(***************************************************************************)

\* Mutant of Claimable: the row is selected without FOR UPDATE.
ClaimableUnlocked(n) ==
  outbox[n].row = "queued" /\ outbox[n].attempts < MaxAttempts

\* Mutant of Claimable: the last attempt is never made.
ClaimableOneLess(n) ==
  /\ outbox[n].row = "queued" /\ outbox[n].attempts + 1 < MaxAttempts
  /\ Holders(n) = {} /\ ~Deleting(n)

\* Mutant of Claimable: attempts are not bounded.
ClaimableForever(n) ==
  outbox[n].row = "queued" /\ Holders(n) = {} /\ ~Deleting(n)

\* FOR UPDATE SKIP LOCKED
Claimable(n) ==
  /\ outbox[n].row = "queued" /\ outbox[n].attempts < MaxAttempts
  /\ Holders(n) = {} /\ ~Deleting(n)

Claim(w, n) ==
  /\ worker[w].pc = "idle" /\ Claimable(n)
  /\ \E reachable \in BOOLEAN : Wanted(n, reachable)
  /\ worker' = [worker EXCEPT ![w] = [pc |-> "sending", of |-> n, lost |-> FALSE]]
  /\ UNCHANGED <<enabled, notice, outbox, optOut, mails, results,
                 interrupted, cleared, faults>>

DropRow(w, n) ==
  /\ worker[w].pc = "idle" /\ Claimable(n)
  /\ \E reachable \in BOOLEAN : ~Wanted(n, reachable)
  /\ outbox' = [outbox EXCEPT ![n] = NoRow]
  /\ UNCHANGED <<enabled, notice, optOut, worker, mails, results,
                 interrupted, cleared, faults>>

\* Mutant of SendOutcomes: no timeout of 20 s on the provider's answer.
SendOutcomesNoTimeout ==
  {<<1, "accepted">>, <<1, "failed">>, <<0, "failed">>, <<0, "hanging">>}

\* The provider takes the mail and says so, takes it without an answer
\* arriving, or refuses it.
SendOutcomes == {<<1, "accepted">>, <<1, "failed">>, <<0, "failed">>}

Send(w) ==
  /\ worker[w].pc = "sending"
  /\ \E o \in SendOutcomes :
       /\ mails' = [mails EXCEPT ![worker[w].of] = @ + o[1]]
       /\ worker' = [worker EXCEPT ![w].pc = o[2]]
  /\ UNCHANGED <<enabled, notice, outbox, optOut, results,
                 interrupted, cleared, faults>>

\* The row the result leaves behind.
Recorded(w) ==
  [row |-> IF worker[w].pc = "accepted" THEN "sent" ELSE "queued",
   attempts |-> outbox[worker[w].of].attempts + 1]

Record(w) ==
  LET n == worker[w].of IN
  /\ worker[w].pc \in {"accepted", "failed"} /\ ~worker[w].lost
  /\ outbox' = [outbox EXCEPT ![n] = Recorded(w)]
  /\ results' = [results EXCEPT ![n] = @ + 1]
  /\ worker' = [worker EXCEPT ![w] = IdleWorker]
  /\ UNCHANGED <<enabled, notice, optOut, mails, interrupted, cleared, faults>>

\* Without its connection the worker cannot write; main logs the error.
RecordFails(w) ==
  /\ worker[w].pc \in {"accepted", "failed"} /\ worker[w].lost
  /\ interrupted' = [interrupted EXCEPT ![worker[w].of] = @ + 1]
  /\ worker' = [worker EXCEPT ![w] = IdleWorker]
  /\ UNCHANGED <<enabled, notice, outbox, optOut, mails, results,
                 cleared, faults>>

\* The database ends the transaction; the worker notices only when it writes.
LoseConnection(w) ==
  /\ worker[w].pc # "idle" /\ ~worker[w].lost /\ faults < MaxFaults
  /\ worker' = [worker EXCEPT ![w].lost = TRUE]
  /\ faults' = faults + 1
  /\ UNCHANGED <<enabled, notice, outbox, optOut, mails, results,
                 interrupted, cleared>>

Crash(w) ==
  /\ worker[w].pc # "idle" /\ faults < MaxFaults
  /\ worker' = [worker EXCEPT ![w] = IdleWorker]
  /\ interrupted' = [interrupted EXCEPT ![worker[w].of] = @ + 1]
  /\ faults' = faults + 1
  /\ UNCHANGED <<enabled, notice, outbox, optOut, mails, results, cleared>>

Init ==
  /\ enabled = [u \in Users |-> FALSE]
  /\ notice = [n \in Notices |-> "none"]
  /\ outbox = [n \in Notices |-> NoRow]
  /\ optOut = [u \in Users |-> NoOptOut]
  /\ worker = [w \in Workers |-> IdleWorker]
  /\ mails = [n \in Notices |-> 0]
  /\ results = [n \in Notices |-> 0]
  /\ interrupted = [n \in Notices |-> 0]
  /\ cleared = {}
  /\ faults = 0

Deliver(w) ==
  \/ \E n \in Notices : Claim(w, n) \/ DropRow(w, n)
  \/ Send(w) \/ Record(w) \/ RecordFails(w)

OptOut(u) == CommitOptOut(u) \/ \E n \in Notices : DeleteRow(u, n)

Next ==
  \/ \E n \in Notices : Insert(n) \/ CommitNotice(n) \/ RollbackNotice(n)
  \/ \E u \in Users : \/ OptIn(u) \/ BeginOptOut(u) \/ OptOut(u)
                      \/ OptOutFails(u)
  \/ \E w \in Workers : Deliver(w) \/ LoseConnection(w) \/ Crash(w)

\* The worker's loop never stops, the provider answers or times out in 20 s,
\* and an opt-out that has begun runs on.
Fairness ==
  /\ \A w \in Workers : WF_mvars(Deliver(w))
  /\ \A u \in Users : WF_mvars(OptOut(u))

Spec == Init /\ [][Next]_mvars /\ Fairness

(***************************************************************************)
(* Properties                                                              *)
(***************************************************************************)

\* "Row lock spans delivery; other workers skip it": nobody else sends,
\* removes or has already sent the mail a worker is sending, as long as the
\* worker's transaction lives (email_worker.py deliver_one).
HeldRowStays ==
  \A w \in Workers :
    LET n == worker[w].of IN
    (worker[w].pc # "idle" /\ ~worker[w].lost) =>
      Holders(n) = {w} /\ outbox[n].row = "queued" /\ ~Deleting(n)

\* Deliveries of n that the provider has seen and the database has not.
Unrecorded(n) == {w \in Workers : worker[w].of = n /\ worker[w].pc # "sending"}

\* "Delivery retries up to five attempts; a provider acknowledgement failure
\* can cause duplicate delivery": a mail the database calls sent was
\* accepted, and a user gets no more copies than recorded attempts and
\* deliveries whose record was lost or is still open; attempts are bounded.
CopiesExplained ==
  \A n \in Notices :
    /\ mails[n] <= results[n] + interrupted[n] + Cardinality(Unrecorded(n))
    /\ results[n] <= MaxAttempts
    /\ outbox[n].row = "sent" => mails[n] > 0

\* A mail that was still queued when its user's opt-out committed is not
\* queued again, and no worker with a living transaction is about to send it,
\* not even one that had claimed it before (repository.py preferences waits
\* for the rows it deletes).
OptOutIsFinal ==
  \A n \in cleared : outbox[n].row = "none" /\ Holders(n) = {}

\* A mail that is queued is sent, removed, or given up after MaxAttempts:
\* no crash, lost connection or lost answer leaves it behind.
QueuedMailEnds ==
  \A n \in Notices :
    (outbox[n].row = "queued") ~>
      (outbox[n].row # "queued" \/ outbox[n].attempts = MaxAttempts)

\* An opt-out that waits for workers to let go of its rows returns.
OptOutReturns == \A u \in Users : (optOut[u].pc = "deleting") ~> (optOut[u].pc = "idle")
=============================================================================
