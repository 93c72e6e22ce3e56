------------------------------ MODULE Credentials ------------------------------
(***************************************************************************)
(* One account's credentials: registration and the mail that verifies its  *)
(* address, the counting of failed logins and the lock, and two-factor     *)
(* authentication (backend/app/auth/service.py over auth/repository.py,    *)
(* and deliver_verification of notifications/email_worker.py), set up for  *)
(* production.                                                             *)
(*                                                                         *)
(* Each request reads the account in one statement and writes it in a      *)
(* later one, and other requests act in between.  Passwords and codes are  *)
(* right or wrong by choice.  What a successful login receives is in       *)
(* AuthSessions.                                                           *)
(***************************************************************************)
EXTENDS Naturals, FiniteSets

CONSTANTS
  MaxAttempts,   \* login_max_failed_attempts
  MaxFailures,   \* bound: failures that are counted up
  MailAttempts,  \* deliveries tried (email_worker.py: 5)
  Secrets,       \* TOTP secrets that may be drawn
  Clients,       \* requests at one time
  NoSecret

ASSUME CredentialsAssumption ==
  /\ MaxAttempts \in Nat \ {0} /\ MaxFailures \in Nat /\ MailAttempts \in Nat
  /\ NoSecret \notin Secrets /\ IsFiniteSet(Clients)

VARIABLES
  account,  \* the row of users
  token,    \* the row of email_verification_tokens
  outbox,   \* the row of verification_email_outbox
  mailer,   \* pc: where deliver_verification stands, which has locked the row when
            \* not idle; lost: whether one goes on whose session has ended
  client,   \* where each request stands, and the row it has read
  wrong     \* wrong guesses answered since the lock last ended or was reset

cvars == <<account, token, outbox, mailer, client, wrong>>

NoAccount == [state |-> "none", attempts |-> 0, locked |-> FALSE,
              secret |-> NoSecret, enabled |-> FALSE]
NoRow == [state |-> "none", attempts |-> 0]
Waiting == [pc |-> "idle", seen |-> NoAccount]
NoMailer == [pc |-> "idle", lost |-> FALSE]

Account == [state: {"none", "registered", "verified"}, attempts: 0 .. MaxFailures,
            locked: BOOLEAN, secret: Secrets \cup {NoSecret}, enabled: BOOLEAN]

CredentialsTypeOK ==
  /\ account \in Account
  /\ token \in {"none", "valid", "gone"}
  /\ outbox \in [state: {"none", "queued", "sent"}, attempts: 0 .. MailAttempts]
  /\ mailer \in [pc: {"idle", "sending", "accepted"}, lost: BOOLEAN]
  /\ client \in [Clients -> [pc: {"idle", "register", "login", "setup", "enable", "disable"},
                             seen: Account]]
  /\ wrong \in Nat

\* A request continues at `pc` with the row as it reads it now, or ends.
Reads(r, pc) ==
  /\ client[r].pc = "idle"
  /\ client' = [client EXCEPT ![r] = [pc |-> pc, seen |-> account]]
  /\ UNCHANGED <<account, token, outbox, mailer, wrong>>

Ends(r) == client' = [client EXCEPT ![r] = Waiting]

\* A client goes away, the request is refused without effect (an unverified
\* address, a missing or wrong code for setup, enable or disable), or the
\* process dies.
Abandons(r) ==
  /\ client[r].pc # "idle"
  /\ Ends(r)
  /\ UNCHANGED <<account, token, outbox, mailer, wrong>>

-----------------------------------------------------------------------------
(***************************************************************************)
(* register: two transactions.  A second registration is refused from the  *)
(* first one on.                                                           *)
(***************************************************************************)
Registered == [NoAccount EXCEPT !.state = "registered"]
QueuedMail == [state |-> "queued", attempts |-> 0]

CreateUser(r) ==
  /\ client[r].pc = "idle"
  /\ account.state = "none"
  /\ account' = Registered
  /\ client' = [client EXCEPT ![r].pc = "register"]
  /\ UNCHANGED <<token, outbox, mailer, wrong>>

CreateVerification(r) ==
  /\ client[r].pc = "register"
  /\ token' = "valid"
  /\ outbox' = QueuedMail
  /\ Ends(r)
  /\ UNCHANGED <<account, mailer, wrong>>

TokenExpires ==
  /\ token = "valid"
  /\ token' = "gone"
  /\ UNCHANGED <<account, outbox, mailer, client, wrong>>

\* Mutant of RowFree: the consumption takes no notice of the worker.
RowIgnored == TRUE

\* consume_email_verification_token deletes the outbox row, and waits for it
RowFree == mailer.pc = "idle"

Verify ==
  /\ token = "valid"
  /\ RowFree
  /\ token' = "gone"
  /\ outbox' = NoRow
  /\ account' = [account EXCEPT !.state = "verified"]
  /\ UNCHANGED <<mailer, client, wrong>>

(***************************************************************************)
(* deliver_verification: one transaction that holds the row while the      *)
(* provider is called.  A worker whose session ends after the claim does   *)
(* not notice before it records the outcome: the row is as it was and free *)
(* to others, and the provider is called all the same.  That a provider is *)
(* configured is taken for granted (ops/preflight.py).                     *)
(***************************************************************************)
Deliverable == token = "valid" /\ account.state = "registered"

At(pc) == mailer' = [mailer EXCEPT !.pc = pc]

ClaimMail ==
  /\ mailer.pc = "idle"
  /\ outbox.state = "queued" /\ outbox.attempts < MailAttempts
  /\ IF Deliverable
     THEN At("sending") /\ UNCHANGED outbox
     ELSE outbox' = NoRow /\ UNCHANGED mailer
  /\ UNCHANGED <<account, token, client, wrong>>

ProviderAccepts ==
  /\ mailer.pc = "sending"
  /\ At("accepted")
  /\ UNCHANGED <<account, token, outbox, client, wrong>>

\* The provider refuses, or its answer is lost.
DeliveryFails ==
  /\ mailer.pc \in {"sending", "accepted"}
  /\ At("idle")
  /\ outbox' = [outbox EXCEPT !.attempts = @ + 1]
  /\ UNCHANGED <<account, token, client, wrong>>

RecordMail ==
  /\ mailer.pc = "accepted"
  /\ At("idle")
  /\ outbox' = [outbox EXCEPT !.state = "sent"]
  /\ UNCHANGED <<account, token, client, wrong>>

\* The worker dies, or its session ends when only the record was left.
MailerDies ==
  /\ mailer.pc # "idle"
  /\ At("idle")
  /\ UNCHANGED <<account, token, outbox, client, wrong>>

\* The worker's session ends before the call.
LoseSession ==
  /\ mailer.pc = "sending"
  /\ mailer' = [pc |-> "idle", lost |-> TRUE]
  /\ UNCHANGED <<account, token, outbox, client, wrong>>

\* It has called the provider, and neither outcome can be recorded.
LostMail ==
  /\ mailer.lost
  /\ mailer' = [mailer EXCEPT !.lost = FALSE]
  /\ UNCHANGED <<account, token, outbox, client, wrong>>

-----------------------------------------------------------------------------
(***************************************************************************)
(* login: the row is read, the guess is checked against it, and the        *)
(* failure or the success is recorded.  A code is checked against the      *)
(* secret that was read, and no code is right when there was none.         *)
(***************************************************************************)
Available == account.state # "none" /\ ~account.locked

BeginLogin(r) == Available /\ Reads(r, "login")

\* Mutant of Failures: the count is taken from the row that was read.
FailuresRead(r) == client[r].seen.attempts + 1

Failures(r) == account.attempts + 1

WrongGuess(r) ==
  /\ client[r].pc = "login"
  /\ Failures(r) <= MaxFailures
  /\ account' = [account EXCEPT !.attempts = Failures(r),
                                !.locked = @ \/ Failures(r) >= MaxAttempts]
  /\ wrong' = wrong + 1
  /\ Ends(r)
  /\ UNCHANGED <<token, outbox, mailer>>

CodeMayBeRight(seen) == seen.secret # NoSecret
Unlocked == [account EXCEPT !.attempts = 0, !.locked = FALSE]

RightGuess(r) ==
  LET seen == client[r].seen IN
  /\ client[r].pc = "login"
  /\ seen.state = "verified" /\ (seen.enabled => CodeMayBeRight(seen))
  /\ account' = Unlocked
  /\ wrong' = 0
  /\ Ends(r)
  /\ UNCHANGED <<token, outbox, mailer>>

\* login_lockout_minutes have passed; the count stays.
LockEnds ==
  /\ account.locked
  /\ account' = [account EXCEPT !.locked = FALSE]
  /\ wrong' = 0
  /\ UNCHANGED <<token, outbox, mailer, client>>

(***************************************************************************)
(* setup_totp, enable_totp and disable_totp: a read and the checks, then   *)
(* the update.  Only save_totp_secret's update has a condition.            *)
(***************************************************************************)
SetupTotp(r) == account.state = "verified" /\ ~account.enabled /\ Reads(r, "setup")

\* Mutant of Replaceable: the check before the update is enough.
ReplaceableRead(r) == ~client[r].seen.enabled

Replaceable(r) == ~account.enabled

SaveSecret(r, s) ==
  /\ client[r].pc = "setup"
  /\ IF Replaceable(r)
     THEN account' = [account EXCEPT !.secret = s] ELSE UNCHANGED account
  /\ Ends(r)
  /\ UNCHANGED <<token, outbox, mailer, wrong>>

EnableTotp(r) == CodeMayBeRight(account) /\ Reads(r, "enable")

SetEnabled(r) ==
  /\ client[r].pc = "enable"
  /\ account' = [account EXCEPT !.enabled = TRUE]
  /\ Ends(r)
  /\ UNCHANGED <<token, outbox, mailer, wrong>>

DisableTotp(r) == account.enabled /\ CodeMayBeRight(account) /\ Reads(r, "disable")

ClearSecret(r) ==
  /\ client[r].pc = "disable"
  /\ account' = [account EXCEPT !.enabled = FALSE, !.secret = NoSecret]
  /\ Ends(r)
  /\ UNCHANGED <<token, outbox, mailer, wrong>>

-----------------------------------------------------------------------------

CredentialsInit ==
  /\ account = NoAccount /\ token = "none" /\ outbox = NoRow /\ mailer = NoMailer
  /\ client = [r \in Clients |-> Waiting]
  /\ wrong = 0

CredentialsNext ==
  \/ \E r \in Clients :
       \/ CreateUser(r) \/ CreateVerification(r)
       \/ BeginLogin(r) \/ WrongGuess(r) \/ RightGuess(r)
       \/ SetupTotp(r) \/ \E s \in Secrets : SaveSecret(r, s)
       \/ EnableTotp(r) \/ SetEnabled(r) \/ DisableTotp(r) \/ ClearSecret(r)
       \/ Abandons(r)
  \/ TokenExpires \/ Verify \/ LockEnds
  \/ ClaimMail \/ ProviderAccepts \/ DeliveryFails \/ RecordMail
  \/ MailerDies \/ LoseSession \/ LostMail

CredentialsSpec == CredentialsInit /\ [][CredentialsNext]_cvars

-----------------------------------------------------------------------------
(***************************************************************************)
(* Properties                                                              *)
(***************************************************************************)

\* Until its lock ends, or someone who knows the password resets it, an
\* account answers no more wrong guesses than the limit and those in flight
\* when it locks, however many requests guess at once (service.py login,
\* repository.py record_failed_login).  With the types of the variables.
LockoutBounded ==
  CredentialsTypeOK /\ wrong <= MaxAttempts + Cardinality(Clients) - 1

\* While two-factor authentication is on, its secret is not replaced: a setup
\* that began before it was enabled is too late (repository.py
\* save_totp_secret).
SecretStays ==
  [][account.enabled /\ account'.enabled => account'.secret = account.secret]_cvars

\* As long as the session of the worker that hands the provider a verification
\* mail lives, the address stays unverified and the row queued: a verification
\* waits for it, although the two are different transactions
\* (email_worker.py deliver_verification, repository.py
\* consume_email_verification_token).  A worker that has lost its session holds
\* nothing, and its mail may come after the verification.
NoMailOnceVerified ==
  mailer.pc # "idle" => account.state = "registered" /\ outbox.state = "queued"
===============================================================================
