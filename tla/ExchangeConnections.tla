-------------------------- MODULE ExchangeConnections --------------------------
(***************************************************************************)
(* The stored credentials of exchange accounts: creating, replacing,       *)
(* deleting and using connections (backend/app/exchange/service.py over    *)
(* repository.py and security.py), the sandbox worker that trades with     *)
(* them under the account's advisory lock (trading/sandbox.py), and the    *)
(* rotation of the encryption key by an operator (rotate_key.py, with the  *)
(* procedure of docs/PHASE_6_OPERATIONS.md).                               *)
(*                                                                         *)
(* A slot is one owner, exchange and environment, which has at most one    *)
(* connection at a time.  Requests read the row, call the exchange and     *)
(* write in transactions of their own.                                     *)
(*                                                                         *)
(* The lock belongs to a session of its own.  When that session is lost    *)
(* the worker does not notice: it strays, and goes on with the credentials *)
(* it has decrypted while others may take the lock.  Which ones these are  *)
(* is left out: they may have been replaced.  Strays are left every order  *)
(* the rows let them place; that a bot's revision has changed since they   *)
(* read it (sandbox.py:121) would stop some of them.                       *)
(***************************************************************************)
EXTENDS Naturals, FiniteSets

CONSTANTS
  Slots,        \* owner, exchange and environment: UNIQUE in 005_exchange.sql
  Ids,          \* connection ids, drawn once
  Secrets,      \* credentials a user may enter
  Keys,         \* encryption keys
  Callers,      \* API requests at one time
  NoId, NoCredentials, NoKey

ASSUME ConnectionsAssumption ==
  /\ "stray" \notin Secrets
  /\ NoId \notin Ids /\ NoCredentials \notin Secrets /\ NoKey \notin Keys
  /\ Keys # {}

VARIABLES
  row,        \* exchange_connections by slot, with its ciphertext
  up,         \* the backend and the workers run
  key,        \* EXCHANGE_ENCRYPTION_KEY they are configured with
  other,      \* the new key of a rotation reported as failed that was committed
  bot,        \* the bot of each connection
  exposure,   \* credentials its open orders and positions were made with, or
              \* "stray" for those of workers without the lock
  lock,       \* the connection's advisory lock
  using,      \* credentials the worker that holds it has decrypted
  stray,      \* workers that have lost it go on
  caller      \* where each request stands, and what it has read

xvars == <<row, up, key, other, bot, exposure, lock, using, stray, caller>>

Ciphertext == [key: Keys \cup {NoKey}, of: Ids \cup {NoId}, credentials: Secrets \cup {NoCredentials}]
NoText == [key |-> NoKey, of |-> NoId, credentials |-> NoCredentials]
NoConnection == [id |-> NoId, text |-> NoText]
Quiescent == [pc |-> "idle", id |-> NoId, text |-> NoText]

ConnectionsTypeOK ==
  /\ row \in [Slots -> [id: Ids \cup {NoId}, text: Ciphertext]]
  /\ up \in BOOLEAN /\ key \in Keys /\ other \in Keys \cup {NoKey}
  /\ bot \in [Ids -> {"none", "off", "running"}]
  /\ exposure \in [Ids -> SUBSET (Secrets \cup {"stray"})]
  /\ lock \in [Ids -> {"free", "worker", "request"}]
  /\ using \in [Ids -> Secrets \cup {NoCredentials}]
  /\ stray \in [Ids -> BOOLEAN]
  /\ caller \in [Callers -> [pc: {"idle", "insert", "update", "commit", "delete"},
                             id: Ids \cup {NoId}, text: Ciphertext]]

Encrypt(id, credentials) == [key |-> key, of |-> id, credentials |-> credentials]

\* decrypt: the key and the identity the text is bound to have to match.
Decryptable(text, id) == text.key = key /\ text.of = id

Exists(id) == \E s \in Slots : row[s].id = id
SlotOf(id) == CHOOSE s \in Slots : row[s].id = id
CredentialsOf(id) == row[SlotOf(id)].text.credentials
Unused(id) == /\ ~Exists(id) /\ bot[id] = "none"
              /\ \A r \in Callers : caller[r].id # id

Reply(r) == caller' = [caller EXCEPT ![r] = Quiescent]
Step(r, pc, id, text) == caller' = [caller EXCEPT ![r] = [pc |-> pc, id |-> id, text |-> text]]

-----------------------------------------------------------------------------
(***************************************************************************)
(* create: the credentials are encrypted for a new id and probed at the    *)
(* exchange, then inserted; a second row in the slot is refused.           *)
(***************************************************************************)
EncryptNew(r, id, credentials) ==
  /\ up /\ caller[r].pc = "idle"
  /\ Unused(id)
  /\ Step(r, "insert", id, Encrypt(id, credentials))
  /\ UNCHANGED <<row, up, key, other, bot, exposure, lock, using, stray>>

Insert(r, s) ==
  /\ caller[r].pc = "insert"
  /\ row' = IF row[s].id = NoId
            THEN [row EXCEPT ![s] = [id |-> caller[r].id, text |-> caller[r].text]]
            ELSE row
  /\ Reply(r)
  /\ UNCHANGED <<up, key, other, bot, exposure, lock, using, stray>>

(***************************************************************************)
(* require_idle, with the row locked from here to the end of the           *)
(* transaction.                                                            *)
(***************************************************************************)
\* Mutant of Idle: only the bot's state counts.
IdleBot(id) == bot[id] # "running"

Idle(id) == bot[id] # "running" /\ exposure[id] = {}

LockFree(id) == lock[id] = "free"

(***************************************************************************)
(* replace_credentials: the row is read, the new credentials are probed    *)
(* and encrypted for the row's identity, and the text is replaced by a     *)
(* transaction that finds the connection idle.                             *)
(***************************************************************************)
ReadRow(r, id, credentials) ==
  /\ up /\ caller[r].pc = "idle"
  /\ Exists(id)
  /\ Step(r, "update", id, Encrypt(id, credentials))
  /\ UNCHANGED <<row, up, key, other, bot, exposure, lock, using, stray>>

LockIdle(r) ==
  LET id == caller[r].id IN
  /\ caller[r].pc = "update"
  /\ IF Exists(id) /\ LockFree(id) /\ Idle(id)
     THEN /\ lock' = [lock EXCEPT ![id] = "request"]
          /\ Step(r, "commit", id, caller[r].text)
     ELSE Reply(r) /\ UNCHANGED lock
  /\ UNCHANGED <<row, up, key, other, bot, exposure, using, stray>>

Replace(r) ==
  LET id == caller[r].id IN
  /\ caller[r].pc = "commit"
  /\ row' = [row EXCEPT ![SlotOf(id)].text = caller[r].text]
  /\ lock' = [lock EXCEPT ![id] = "free"]
  /\ Reply(r)
  /\ UNCHANGED <<up, key, other, bot, exposure, using, stray>>

\* delete, in one transaction; a linked bot keeps the connection.
Delete(r, id) ==
  /\ up /\ caller[r].pc = "idle"
  /\ Exists(id) /\ LockFree(id) /\ bot[id] = "none"
  /\ row' = [row EXCEPT ![SlotOf(id)] = NoConnection]
  /\ UNCHANGED <<up, key, other, bot, exposure, lock, using, stray, caller>>

\* The probe fails, the client or the database goes away, the process dies.
GiveUp(r) ==
  /\ caller[r].pc # "idle"
  /\ lock' = IF caller[r].pc = "commit" THEN [lock EXCEPT ![caller[r].id] = "free"] ELSE lock
  /\ Reply(r)
  /\ UNCHANGED <<row, up, key, other, bot, exposure, using, stray>>

-----------------------------------------------------------------------------
(***************************************************************************)
(* The bots of a connection and its workers, as far as they matter here.   *)
(* Creating and starting a bot, and placing or settling an order, take the *)
(* connection's row, and wait for a transaction that has it                *)
(* (trading/repository.py sandbox_connection).                             *)
(***************************************************************************)
RowLocked(id) == lock[id] = "request"

SetBot(id, state) ==
  /\ up
  /\ bot' = [bot EXCEPT ![id] = state]
  /\ UNCHANGED <<row, up, key, other, exposure, lock, using, stray, caller>>

LinkBot(id) == Exists(id) /\ ~RowLocked(id) /\ bot[id] = "none" /\ SetBot(id, "off")
StartBot(id) == ~RowLocked(id) /\ bot[id] = "off" /\ SetBot(id, "running")
StopBot(id) == bot[id] = "running" /\ SetBot(id, "off")

Readable(id) == Exists(id) /\ Decryptable(row[SlotOf(id)].text, id)

\* A worker takes the lock and decrypts the row; with another key it fails.
TakeLock(id) ==
  /\ up /\ (bot[id] = "running" \/ exposure[id] # {})
  /\ LockFree(id) /\ Readable(id)
  /\ lock' = [lock EXCEPT ![id] = "worker"]
  /\ using' = [using EXCEPT ![id] = CredentialsOf(id)]
  /\ UNCHANGED <<row, up, key, other, bot, exposure, stray, caller>>

\* The session with the lock is lost, and the worker goes on.
LoseLock(id) ==
  /\ lock[id] = "worker"
  /\ lock' = [lock EXCEPT ![id] = "free"]
  /\ using' = [using EXCEPT ![id] = NoCredentials]
  /\ stray' = [stray EXCEPT ![id] = TRUE]
  /\ UNCHANGED <<row, up, key, other, bot, exposure, caller>>

\* One that lost it before it has read the row reads it now.
ReadLate(id) ==
  /\ up /\ bot[id] # "none" /\ ~RowLocked(id) /\ Readable(id)
  /\ stray' = [stray EXCEPT ![id] = TRUE]
  /\ UNCHANGED <<row, up, key, other, bot, exposure, lock, using, caller>>

\* What workers may trade with: the holder of the lock, and the strays.
InHand(id) == ({using[id]} \ {NoCredentials}) \cup {w \in {"stray"} : stray[id]}

SetExposure(id, E) ==
  /\ ~RowLocked(id)
  /\ exposure' = [exposure EXCEPT ![id] = E]
  /\ UNCHANGED <<row, up, key, other, bot, lock, using, stray, caller>>

\* An entry of a running bot, or the sale of what it has.
Trade(id) ==
  /\ bot[id] = "running" \/ exposure[id] # {}
  /\ \E e \in InHand(id) : SetExposure(id, exposure[id] \cup {e})

Settle(id) ==
  /\ InHand(id) # {}
  /\ \E e \in exposure[id] : SetExposure(id, exposure[id] \ {e})

\* The turn is over, or the worker dies.
Unlock(id) ==
  /\ lock[id] = "worker"
  /\ lock' = [lock EXCEPT ![id] = "free"]
  /\ using' = [using EXCEPT ![id] = NoCredentials]
  /\ UNCHANGED <<row, up, key, other, bot, exposure, stray, caller>>

StrayEnds(id) ==
  /\ stray[id]
  /\ stray' = [stray EXCEPT ![id] = FALSE]
  /\ UNCHANGED <<row, up, key, other, bot, exposure, lock, using, caller>>

-----------------------------------------------------------------------------
(***************************************************************************)
(* rotate_key: the operator has stopped everything that uses the key and   *)
(* rotates all rows in one transaction, from the key they are under.  The  *)
(* backend is started with the new key if that succeeded, and with the old *)
(* one if it was reported as failed, be it that a row could not be         *)
(* decrypted or that the database went away.  When the answer to the       *)
(* commit is lost, the rows were rotated and the report says they were not.*)
(***************************************************************************)
\* Mutant of FailedRows: each row is a transaction of its own.
SomeRows == SUBSET Slots

FailedRows == {{}}

Rotated(S, new) ==
  row' = [s \in Slots |-> IF s \in S /\ row[s].id # NoId
                          THEN [row[s] EXCEPT !.text.key = new] ELSE row[s]]

AllUnder(old) == \A s \in Slots : row[s].id # NoId => row[s].text.key = old

StopBackend ==
  /\ up /\ up' = FALSE
  /\ \A r \in Callers : caller[r].pc = "idle"
  /\ \A id \in Ids : lock[id] = "free" /\ ~stray[id]
  /\ UNCHANGED <<row, key, other, bot, exposure, lock, using, stray, caller>>

StartBackend(configured, unknown) ==
  /\ ~up /\ up' = TRUE
  /\ key' = configured /\ other' = unknown
  /\ UNCHANGED <<bot, exposure, lock, using, stray, caller>>

RotateKey(old, new) ==
  /\ old \in {key, other} /\ AllUnder(old)
  /\ Rotated(Slots, new)
  /\ StartBackend(new, NoKey)

RotationFails(new) ==
  /\ \E S \in FailedRows : Rotated(S, new)
  /\ StartBackend(key, other)

RotationUnconfirmed(old, new) ==
  /\ old \in {key, other} /\ AllUnder(old)
  /\ Rotated(Slots, new)
  /\ StartBackend(key, IF new = key THEN NoKey ELSE new)

-----------------------------------------------------------------------------

ConnectionsInit ==
  /\ row = [s \in Slots |-> NoConnection]
  /\ up = TRUE /\ key \in Keys /\ other = NoKey
  /\ bot = [id \in Ids |-> "none"]
  /\ exposure = [id \in Ids |-> {}]
  /\ lock = [id \in Ids |-> "free"]
  /\ using = [id \in Ids |-> NoCredentials]
  /\ stray = [id \in Ids |-> FALSE]
  /\ caller = [r \in Callers |-> Quiescent]

CallerStep(r) ==
  \/ \E id \in Ids, c \in Secrets : EncryptNew(r, id, c) \/ ReadRow(r, id, c)
  \/ \E s \in Slots : Insert(r, s)
  \/ LockIdle(r) \/ Replace(r) \/ GiveUp(r)
  \/ \E id \in Ids : Delete(r, id)

WorkerStep(id) ==
  \/ LinkBot(id) \/ StartBot(id) \/ StopBot(id)
  \/ TakeLock(id) \/ Unlock(id) \/ Trade(id) \/ Settle(id)
  \/ LoseLock(id) \/ ReadLate(id) \/ StrayEnds(id)

ConnectionsNext ==
  \/ \E r \in Callers : CallerStep(r)
  \/ \E id \in Ids : WorkerStep(id)
  \/ StopBackend
  \/ \E old, new \in Keys :
       RotateKey(old, new) \/ RotationFails(new) \/ RotationUnconfirmed(old, new)

ConnectionsSpec == ConnectionsInit /\ [][ConnectionsNext]_xvars

-----------------------------------------------------------------------------
(***************************************************************************)
(* Properties                                                              *)
(***************************************************************************)

\* Whenever the backend runs, every connection is bound to the identity it is
\* stored under, although a connection may be deleted and created again while
\* a replacement is under way, and the backend can decrypt it, unless the last
\* rotation was reported as failed and yet committed: then the key the
\* connection is under is the configured one or the new one of that rotation.
\* A rotation that fails for any other reason leaves no connection behind.
\* With the types of the variables.
RowsDecryptable ==
  /\ ConnectionsTypeOK
  /\ up => \A s \in Slots : row[s].id # NoId =>
             /\ row[s].text.of = row[s].id
             /\ row[s].text.key \in {key, other}

\* The credentials the holder of the lock trades with, and those an order or a
\* position of such a worker was made with, are the ones that are stored: they
\* are neither replaced nor deleted meanwhile (repository.py require_idle).  A
\* worker that lost the lock may trade with credentials that were replaced, but
\* its connection, and that of every order and position, still exists.
CredentialsInUseStay ==
  \A id \in Ids :
    /\ exposure[id] # {} \/ stray[id] \/ lock[id] = "worker" => Exists(id)
    /\ lock[id] = "worker" => using[id] = CredentialsOf(id)
    /\ \A c \in exposure[id] \ {"stray"} : c = CredentialsOf(id)
===============================================================================
