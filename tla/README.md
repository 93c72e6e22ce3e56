# Verification of the trading platform

TLA+ models of this repository's backend (trading, accounts and sessions,
exchange connections, candles and model versions, migrations, notifications),
TLC runs that check them on small instances, and TLAPS proofs about the
portfolio, both kinds of bots, accounts, connections, forecasts, migrations, price
alerts and the mail outbox for every size of the models. Paths
below are relative to `src/backend/app/` unless they start with another
directory of `src/`.

## 1. The system

A FastAPI application over PostgreSQL, with worker processes beside it
(trading, notifications, auth e-mail, market ingestion) and a React frontend.
Every write of the trading core is a short READ COMMITTED transaction that
starts by locking rows in a fixed order: the user (`FOR SHARE`), then the
portfolio or the exchange account, then the bot. Nothing is shared between
processes but the database and, for sandbox bots, a session advisory lock per
exchange account.

| Component | State | Operations | What makes it hard |
|---|---|---|---|
| Paper portfolio (`portfolio/`) | cash, risk settings, holdings with cost basis, orders, trades | create, settings, reserve, fill, cancel | an order's two halves are separated by any other calls; a fill checks no balance; partial sales round |
| Paper bots (`trading/engine.py`, `executor.py`) | bot state, revision, failures, position, decisions | worker tick, control, update, close-position | the worker's row, quote and prediction are read without a lock; bot and user share one portfolio |
| Sandbox trading (`trading/sandbox.py`, `sandbox_adapter.py`, `worker.py`, `service.py`) | bots, positions, decisions, intents, fills, advisory lock | reserve, submit, look up, cancel, book; start, stop, reset, update, close | crashes between commit and network call, lost and late answers, several workers and bots on one account |
| User administration (`admin/`) | role, is_active, audit log | deactivate, change role, bootstrap | users whose bots are being served, administrators that change each other |
| Authentication (`auth/`, `core/security.py`) | users, refresh tokens, failed logins and lock, TOTP secret, verification tokens and their mail | register, verify, login, refresh, logout, set up, enable and disable TOTP | each statement commits on its own, so any other request acts between a check and its update |
| Exchange connections (`exchange/`) | encrypted credentials | create, replace, delete, use, rotate the key | a probe at the exchange between read and write, a worker that holds decrypted credentials, open positions that depend on them |
| Price alerts (`notifications/alerts.py`) | alerts, `triggered_at`, their notifications | create, delete, evaluate a batch of quotes | several market workers, one transaction over many rows, lock waits and deadlocks, a limit per user |
| Notification mail (`notifications/email_worker.py`, `repository.py`) | preferences, outbox with attempts | queue by trigger, opt in, opt out, claim, deliver, retry | a row lock held across a network call, crashes, lost answers, opt-out during a delivery |
| Notification inbox (`notifications/socket.py`) | notifications, read_at | record, list, mark read, stream, report | a socket outlives the checks of its session |
| Market data (`market/`) | candles, Redis cache, assets | fetch, store, read through, stream | answers race the close of a candle; fetches overwrite each other in any order |
| Models and forecasts (`prediction/`) | artifacts, versions, one active, forecasts | train, register, activate, forecast | files and row are written apart; a forecast reads, fetches and reads again |
| Migrations (`ops/migrate.py`) | applied migrations with checksums | apply, baseline | a crash between two statements, two processes, several releases |
| Request security, frontend, deployment | | | see `PROJECT.json` |

Interactions: the worker's loop calls `TradingEngine.tick` (paper) or
`SandboxEngine.run` (sandbox); `tick` calls `PortfolioService.reserve` and
`complete` inside its own transaction; the API's trading routes call
`TradingService`, and close-position calls `tick`; administration reads the
bots before it deactivates a user; a user's orders respect the units that bots
hold (`portfolio/service.py:84-91`). The notification socket runs the session
checks of `auth/` before each frame; administration revokes sessions. A bot and
its worker use an exchange connection, whose advisory lock and rows keep its
credentials in place; bots and charts read the candles and forecasts.

What makes the trading core correct:

* reserved cash and units are there when an order fills, and the saved limits
  hold of what is open, in any order of calls;
* cash, units and cost are the sum of the fills, to the last unit, and an order
  that is completed never changes;
* a bot's position is what its orders add up to, its units are not sold by the
  user, its exit can always still be made, and only a running bot opens one;
* an order is submitted once, counted once, settled only when the exchange can
  no longer trade on it, and one at a time per account;
* a stopped bot, or a bot of a deactivated user, has nothing at the exchange
  that can buy;
* reconciliations, stops and close requests come to an end.

What makes the notifications correct: an alert fires once, with its notification,
and none that is due is skipped; a user's limit of alerts holds; two workers
never deliver one mail at the same time, a duplicate can be put down to an
attempt or a fault, an opt-out ends what was queued, and no mail stays in the
queue for ever.

What makes accounts correct: a login is one session, which stays ended once it
is logged out or revoked; sockets notice; an administrator remains; guesses are
bounded; an enabled second factor is not replaced by a late setup; a verified
address gets no verification mail. Connections: what is stored can be
decrypted and is what the worker, the order and the position in progress were made with.
Forecasts: only values of closed candles, only complete model versions.
Migrations: the record is what the database has, and no file runs twice. Some of
these have exceptions, which the properties state and "Limits" in section 3 explains.

`PROJECT.json` lists the hazards at the line where each bites.

## 2. Modules

| Module | Role |
|---|---|
| `Accounting` | the decimal arithmetic of `portfolio/accounting.py`: fixed-point values with `Scale` units per whole, ROUND_HALF_EVEN, what a fill does to a holding and to cash |
| `Sums` | sums of naturals over finite sets, without recursion |
| `PaperPortfolio` | one portfolio; one action per operation of `PortfolioService` |
| `PaperBots` | extends it with bots, workers and the API's control; bots' orders go through the same reservation and booking operators |
| `PaperLedger` | what a portfolio promises of its balances, without prices, fees, limits, bots or workers: an order takes what is free, once, or gives it back |
| `SandboxTrading` | the sandbox engine step by step: each transaction and each network call is an action, with the API, administration and exchange between them |
| `OrderLedger` | what the sandbox engine promises of its orders, with no worker, lock or network: open one at a time, trade, record, settle exactly |
| `PriceAlerts` | alerts, the requests that create and delete them and the market workers that evaluate them, statement by statement |
| `NotificationMail` | the outbox: the trigger that queues, the opt-out that empties, the workers that deliver |
| `AuthSessions` | logins, rotations, logouts, authenticated calls, administration and sockets, by statement |
| `Credentials` | one account: registration, verification and its mail, failed logins and the lock, TOTP |
| `ExchangeConnections` | stored credentials, their use by the worker, key rotation |
| `Forecasts` | candles, training, registration, activation, forecasts |
| `Migrations` | the migration runner, by statement |
| `MC...` | constants for TLC: small settings, symmetry, and for two runs the choice of a module |
| `PaperPortfolioProofs`, `PaperBotsProofs`, `SandboxTradingProofs`, `PriceAlertsProofs`, `NotificationMailProofs`, `AccountsProofs`, `OperationsProofs` | theorems; `SumsProofs` has the lemmas on sums they share |

`PaperBots` extends `PaperPortfolio`, which extends `Accounting` and, like
`SandboxTrading`, `Sums`. `PaperPortfolio` and `PaperBots` implement `PaperLedger`,
`SandboxTrading` implements `OrderLedger`. The other modules share no state
with each other and are not composed: where one depends on another, the
dependence is an operator or a choice (a login's credentials in `AuthSessions`,
the bots of a connection in `ExchangeConnections`).

### PaperPortfolio

`initial` and `cash` are the row of `portfolios` (0 before `create`), `settings`
its `risk_settings`, `holdings` and `orders` the rows by symbol and by
client_order_id, `trades` the rows of `portfolio_trades`. Each call locks the
portfolio's row first, so a call is one action: `Create`, `ChangeSettings`,
`Reserve`, `Fill`, `Cancel`. The guard of `Reserve` is `validate_order`, one
operator per reason to refuse; a call that is refused, or repeated, changes
nothing and is a stutter. Quantities, prices, fees, notional, cost basis and
thresholds are kept as integers in units of 1/`Scale` and rounded as the code
rounds. Reading operations (overview, history, snapshots) are left out.

### PaperBots

A worker is idle, has read a due bot's row (`quote`), is about to call `tick`,
or is about to call `failure`. `Poll` keeps only the bot and its revision; in
`Quote` price and prediction are choices, as is a prediction that failed. One
call of `tick` is one transaction and so one action: `Skip`, `NoPrediction`,
`AlreadyProcessed`, `DecideOnly`, `ExitRefused` or `Trade`, by what the code finds.
`due` abstracts `next_run_at <= now()`; time passing is `Elapse`. The exit key
of a position is named by the candle of its entry, which names its entry order
because a bot's order id is derived from bot and key (`orders.py`).
`UserTrades` is every action of the portfolio, with the units of the bots'
positions protected. The configuration is a constant; an update raises the
revision. `enabled` is not a variable: a bot can only be started with it and
edited when stopped, so a running bot has it. Deactivation of users is in
`SandboxTrading`; `tick` and `failure` have the same guard (`locked`).

### SandboxTrading

`bots`, `position`, `decisions` and `orders` are the rows, with `orders` by order
id (bot and event key); `holder` is the account's advisory lock; `job` is where
each worker stands in `run`, with what it read before; `venue` is the
exchange's own record; `sends` counts submissions. A worker goes through `Poll`, `Lock`, `Load`,
`Outstanding` or `NothingOutstanding`, a decision, `ReserveOrder`, `Submit`,
`Lookup`, `CancelRemainder`, `LookupAgain`, `Fills`, `Apply`; exceptions take it
to `MarkUnknown` (inside `reconcile`) or `RecordFailure` (outside). Between any
two of these, other workers, the API (`Start`, `Stop`, `Reset`, `Update`, `Close`),
an administrator (`SetActive`) and the exchange (`Accept`, `Refuse`, `Match`,
`Complete`) act. `Faults` says what the environment may do: crash, error,
timeout (a lost or late answer), loss (a submission that never arrives), lockloss
(the advisory lock's connection is gone while its worker goes on).

Prices, costs, quote-currency fees and balances are left out: whether a level
is reached, what a model says and whether `risk` refuses are choices, except
for the two refusals that the properties need (an unresolved order, the number
of positions). Base-currency fees of purchases are kept (`LotFee`), because
they make positions that the exchange's step cannot sell; such fees on sales are
not modelled. `cancel_requested` is not a variable, as no code reads it.

### PriceAlerts

`alerts` and `born` are the committed rows of `price_alerts`, `inbox` the alerts
with a committed notification (`event_key` names the alert), `fires` counts
committed claims. `create` is `BeginCreate` (which fixes `created_at`, since
`now()` is the time the transaction began), `CountAlerts` once the user's row is
locked, and `InsertAlert`. `evaluate` is `BeginEvaluation`, then for each quote
`FindDue` (the snapshot of the UPDATE), `ClaimRow` per row, `WriteNotification`
per claimed row and `NextAsset`, and one `CommitEvaluation`. A claimed row is
locked until then; `ClaimRow` waits for it and tests the row again, as READ
COMMITTED does. The foreign key of a notification takes a share lock on its
user, which excludes `create`. Evaluators that wait for each other in a circle
lose one transaction (`DeadlockVictim`), any may lose its connection
(`EvaluationFails`), and `refresh_prices` goes on with the next batch in either case.
The order in which a statement reaches its rows is the alert's number; alert
numbers stand for ids and are otherwise free. Assets, prices, thresholds and
quote times are numbers; a price of 0 stands for one that is missing or not
positive, and `Usable` keeps the window of -30 to 120 seconds as `MaxSkew` and `MaxAge`.

### NotificationMail

`notice` is a notification and the transaction that inserts it, `outbox` its row
of `notification_email_outbox`, `worker` where a worker stands in `deliver_one`,
`optOut` an opt-out in progress. A worker's row lock lasts as long as its
transaction: `lost` says that the database has ended it while the worker goes
on, and only such a worker's `Record` fails. `Send` is the provider's call with
its three outcomes; a mail that was taken without an answer counts in `mails`
and as a failure for the worker. `interrupted` counts deliveries whose result
was not recorded. The statement that claims (`FOR UPDATE SKIP LOCKED`) is one step.
`is_active` and `is_email_verified` are true or not at each reading (`reachable`);
`next_attempt_at` is left out, so that a queued mail may be due at any moment:
this allows more schedules than the backoff does. `mails`, `results`, `interrupted`,
`cleared` and `seen` record history for the properties.

### AuthSessions

`user` is role and `is_active`; `session` the rows of `refresh_tokens` by jti, with
the `login` each descends from; `request` where each request stands and what it has
read; `ended` the logins whose live token was logged out or revoked.
`auth/` commits after each statement, so each statement is a step: a refresh is
`ReadToken`, `ReadOwner`, `ConsumeToken` (the UPDATE with its WHERE) and
`IssueTokenPair`, a login the read and `IssueTokenPair`, an authenticated call
`ReadCaller` and `ReadSession`, each round of a socket `SnapshotUser`,
`SnapshotSession` and `SendFrame`. `UpdateUser` and `Bootstrap` are
transactions under one advisory lock. A refresh token that expires is, for
every statement, like one that is revoked, and is not a step of its own. An access
token is named by the session it carries (`sid`); its own expiry only shortens what
is accepted. Whether a user that is to be deactivated still has bots is a
choice here and modelled in `SandboxTrading`.

### Credentials

`account` is the row of `users` without the role, `token` the row of
`email_verification_tokens`, `outbox` that of `verification_email_outbox`, `mailer`
where `deliver_verification` stands (and, in `lost`, whether a worker goes on whose session
PostgreSQL has ended: it still calls the provider, but holds and records nothing), `client` where each request stands and the
row it has read. A request reads in one step and writes in a later one, and the
write's condition is the WHERE of its statement: only `save_totp_secret` has
one, and `record_failed_login` counts in the row itself. Guesses and codes are
right or wrong by choice, but no code is right where there was no secret. `wrong`
counts what was answered to guessers since the lock last ended or was reset.
The end of the lock and the expiry of the token are steps that may happen at any time.

### ExchangeConnections

`row` is `exchange_connections` by owner, exchange and environment; a ciphertext is
what it was made of: key, identity and credentials. Creating is `EncryptNew`
(then the probe) and `Insert`; replacing is `ReadRow`, `LockIdle`
(`require_idle`, which keeps lock and row to the end of its transaction) and
`Replace`; `Delete` is one transaction. `bot` and `exposure` are as much of the
sandbox engine as `require_idle` asks for: whether a bot runs, and which credentials
open orders and positions were made with. `TakeLock`, `Trade`, `Settle` and `Unlock` are
the worker that holds the advisory lock, `using` what it has decrypted. One that loses
the lock (`LoseLock`), or lost it before it reads the row (`ReadLate`), goes on: `stray` says that a
connection has such workers, and what they trade with counts as `"stray"` in
`exposure`. The key rotation follows `docs/PHASE_6_OPERATIONS.md`: the backend is stopped (`up`),
all rows are rotated in one transaction, and the backend starts with the new key,
or with the old one if the rotation was reported as failed. `RotationUnconfirmed` is
the report of a failure whose transaction was committed; `other` is then the key that
the rows are under, as long as the operator has not rotated again.

### Forecasts

Candle `n` is open while `closed = n`. `candle` says of each what is stored: whether
`fetched_at` is after its end (`late`), before it (`early`) or missing (`unknown`), and, as
history, whether its values were final. Only `early` is partial for the code; candles without the
stamp come from an older release and may be there from the beginning (`Legacy`). A fetch is stamped (`StartFetch`), answered, and stored candle by candle;
ingestion, chart and forecast share these steps. `Train` fixes the
frame, `SaveManifest` completes the artifacts, `Register` adds the row. A forecast
fixes `now`, fetches again at most once (`RefreshHistory`) and checks the frame
that it then reads. Numbers are left out; what a frame must satisfy (enough candles,
no gap, the last one just closed, not before the model's data) is not.

### Migrations

A release is its files' contents, which stand for their checksums. Each statement
is a step: the lock, the checks with the table's creation, the read of the record,
and per file `Execute` and `Commit`; a crash (`Die`) at any of them releases
the session's lock and rolls the open file back. An untracked database may hold
any of `Untracked`, and an operator may call for a baseline of it with any release.
`deploy/README.md:11` asks for a review that the migrations are present; the code itself
looks for the names of six tables (`LacksTable`), which an edited file creates as
well and which say nothing of the other files. `flaws` remembers, as history, that a baseline was
accepted although its release was not what the database had (`Misjudged`), and that
one died before its last record (`halfway`).

## 3. Runs

| Run | Instance | Shows |
|---|---|---|
| `paper_portfolio` | 3 orders, 2 symbols, limits 1..2, `Scale` 2 | reservations of cash and units are backed, limits hold and books balance for every interleaving |
| `paper_bots` | 1 bot, 1 worker, 3 user orders | cash never becomes negative and neither of bot and user sells the other's units; together they implement `PaperLedger` |
| `paper_bot_workers` | 1 bot, 2 workers, 2 candles, 1 user order | stale rows: positions match orders, exits stay possible, only running bots trade |
| `sandbox_faults` | 1 bot, 1 worker, all faults but lock loss, unbounded in number, partial fills, base fees | orders are booked exactly, exposure is bounded, a stopped bot never buys, a deactivated user's bots are quiet; the engine implements `OrderLedger` |
| `sandbox_account` | 2 bots, 2 workers, 1 fault (crash, timeout, lock loss) | one live order per account, each submitted once, positions within the limit, also when the lock's connection is lost |
| `sandbox_liveness` | 1 bot, 1 worker, 2 faults, fairness | reconciliations, stops and close requests end |
| `price_alerts` | 3 alerts of one user with limit 2, 2 assets, 2 evaluators, 2 requests, 2 evaluations, 1 fault | alerts fire once, a committed evaluation skips none, the limit holds |
| `notification_mail` | 1 user, 2 notifications, 2 workers, 2 attempts, 1 fault, fairness | deliveries do not overlap, copies are accounted for, opt-outs are final, mails and opt-outs end |
| `accounts` | 2 users, 3 tokens, 2 requests or sockets; 1 account, 2 clients, 2 secrets, limit of 2 guesses | one session per login, ended for good; an administrator remains; sockets fall silent; guesses bounded; secrets stay; no mail to the verified |
| `operations` | 2 migration runners, 3 releases, 3 untracked databases; 2 slots, 2 ids, 2 secrets, 2 requests, 2 keys; 2 tasks, 2 versions, 3 candles of which 2 close | the record is true; credentials bound, under a known key and in place while in use; forecasts final, models complete |
| `sandbox_pauses` | 1 bot, 5 candles, no fault; expects a violation | see Findings |
| `access_tokens` | `AuthSessions` with 2 users, 3 tokens, 2 requests; expects a violation | see Findings |

`accounts` and `operations` check modules that share no state: `focus` is chosen
in the first state and only that module moves, so that the run is the sum of
the modules' state spaces and not their product. Each property is about the
variables of one module.

Bounds. With `Scale` 2, prices 2 and 3 and up to three units, products fall on
whole values and on ties of either parity, and shares of a cost basis round up
and down; the cash is too little for all orders, so
each limit refuses something. Three orders are the fewest with a purchase, a
partial sale and the sale of the rest. Two candles give a decision after a
decision; two workers give every overlap of two turns, and properties are
about one account or one bot. `FailureLimit` is 2 (5 in the code) except in
`sandbox_pauses`; nothing but the count depends on it. `MaxRevision`,
`MaxCandle`, `MaxTriggers` and `MaxExits` bound user calls, candles and exits;
each is a guard of the action that would pass it. `MaxPositions` is 2 in `sandbox_faults`, so that
only the bot's own check keeps it from adding to its position. In `sandbox_liveness` there
are six exits, more than the failures that give a close request up, so that no
close request ends because the bound is reached.

`price_alerts` has batches with both orders of the two assets, so that two
evaluators can deadlock, and a batch with an unusable price; with `MaxAge` and
`MaxSkew` 0 and two clock values each quote is too old or too early at one of
them. Three alerts against a limit of two make the last place contested; one of
three is on another asset. `NothingMissed` needs one evaluation to roll back
while the other waits: two rounds and one fault. In `notification_mail` two
attempts of five show a retry and the limit; `MaxFaults` is one crash, lost connection or
failed opt-out, with lost answers unbounded up to the limit of attempts.

In `accounts` three tokens are a login with two rotations or two logins of which
one is rotated, against two requests that hold what they read; two users are
the fewest administrators that can remove each other. Two clients can both
have read the account before it locks; `MaxFailures` 4 leaves the count room past the limit
of 2, and two secrets let a late setup replace one. In `operations` the releases
add a file each, and the third edits one; an untracked database lacks the table a
baseline looks for, or is what one of the first two releases makes, so that a baseline may
be right, ahead of the database, behind it, or of an edited file. Two slots and two ids let a connection be deleted and created again, and move to
another slot, during a replacement; two secrets tell a replaced text from the one
in use. With `MinClosed` 1 and `Refresh` 1 a frame may need the candle that
is fetched too early; two closes are enough for one candle final and the next one racing,
and the first state has any of the candles without a stamp.
The proofs cover any sizes.

Deadlock is checked in the paper runs. In `price_alerts`,
`notification_mail`, `accounts`, `access_tokens` and `operations` it is not: when alerts, notifications, tokens, failures or candles are used up, or
users and operators stop asking, there is nothing left to do. In the sandbox runs `CHECK_DEADLOCK` is
FALSE: an exchange that never answers, with no timeout left, or an exit past
`MaxExits`, stops the model by its bounds; that work comes to an end is what
`sandbox_liveness` checks.

Fairness (`FairSpec`). A worker that began a turn goes on (WF of `Serve`),
unless it crashes. Due bots are taken in the order of `next_run_at`
(`trading/worker.py:39`), so each comes again (SF of `Poll`). An unresolved
order may be postponed until its `next_reconcile_at`, which is at most 300 seconds
ahead (`trading/sandbox.py:217`), so not for ever (SF of `Outstanding`). The exchange
answers and ends an immediate-or-cancel order (WF of `Exchange`). Users,
candles and faults owe nothing.

Fairness of `NotificationMail`. The loop of `main` takes the next mail at once or
after ten seconds, a provider's call answers or times out after 20 seconds, and
recording it is a statement on an open connection (WF of `Deliver`); an opt-out
that has begun runs on as soon as the rows it waits for are free (WF of
`OptOut`). Producers, users and faults owe nothing.

### Limits the runs made explicit

* An intent whose submission never reached the exchange (a crash between the
  commit and the call, or a lost message) stays `unknown`: every lookup fails,
  the bot stays in `stopping` if it was asked to stop, and the account places
  no other order. The code chooses this ("submission will not be repeated").
  The liveness properties except it as `Wedged`.
* After the connection that holds the advisory lock is lost, its worker goes on
  beside a second one. One submission per order, one live order per account, exact
  books, the limit of positions and the silence of deactivated users survive that, in
  `sandbox_account` and for every size in section 4. Four properties rely on the
  lock; the first three are checked and proved without such a loss, the last one states
  what remains after it:
  * `StoppedNeverBuys`. A worker that is about to finish a stop
    (`sandbox.py:67-72`) asks for the state `stopping` and not for the revision. If the
    bot was stopped, started by the user, served by a second worker that buys, and
    stopped again meanwhile, the first worker calls it stopped with the purchase in flight.
  * `ExposureBounded`. A reservation (`sandbox.py:120-145`) asks again for
    revision, state, event key, unresolved orders and `max_open_positions`, but not
    for the position. With a limit of two positions, a worker that read "no position"
    and was overtaken by a second one that bought on that candle buys again on the next.
  * The refinement of `OrderLedger`, and `TypeOK` with its bound on positions.
  * `CredentialsInUseStay`. The lock that `require_idle` tries is free again, so that after a
    stop credentials can be replaced that the worker still trades with. What holds of
    such a worker is that its connection exists: a linked bot keeps it.
* A mail worker whose session PostgreSQL ends after the claim holds the row no
  longer and still calls the provider (`notifications/email_worker.py:86-90`), so that a
  verification mail may follow the verification. `NoMailOnceVerified` is about workers with a session.
* Candles without a `fetched_at`, from an older release, count as complete
  (`prediction/data.py:40`), also those that were stored while they were open: a
  forecast may use them. `ForecastsAreFinal` is about candles that have the stamp.
* A login or rotation that has passed its checks stores its token after a
  deactivation has revoked the others. The token is refused while the user is
  inactive, and valid again if the user is reactivated before it expires.
* Enabling TOTP checks a code against the secret it read and then updates without a
  condition: if another setup has stored a new secret in between, or a disabling
  has removed it, the account is enabled with a secret its owner does not have.
* An account whose registration dies between its two transactions has no
  verification token, and no operation issues one.
* A baseline that dies between its records leaves a tracked database: the next run
  executes the remaining files, which the schema has, and another baseline is refused.
  `SchemaMatchesRecord` excepts it as `halfway`.
* A baseline is as true as the review its operator made: six table names do not tell
  an edited file from the release's, nor whether the database is behind or ahead of
  the release, and then the record says too much or too little. `SchemaMatchesRecord` excepts
  this as `misjudged`.
* A protective exit of a paper bot can be refused while the user's pending orders
  fill the trade limits; five refusals put the bot into error.
* A key rotation whose commit reached the server, and whose answer was lost, is
  reported as failed (`exchange/rotate_key.py:28` catches every error of the database): the
  backend then starts with the old key over rows under the new one, and can decrypt
  none. The operator has both keys; `RowsDecryptable` says that one of the two fits every row.

Only the last one contradicts a text of the repository: the rotation's message, "transaction
rolled back" (`rotate_key.py:29`), is wrong in that case. All are in `PROJECT.json` under the hazards.

### Findings

`sandbox_pauses`. The message stored with each order that had no fills says
"execution pauses after five consecutive attempts" (`trading/sandbox.py:287`).
A running bot is served every 30 to 60 seconds, and a turn on a candle that
already has a decision ends in `success(..., 'already_processed')`
(`sandbox.py:124-126`), which sets `failures` to 0. With one order per candle
the count therefore does not reach five: TLC shows a bot whose orders on five
candles all ended without a fill and which still runs.

`access_tokens`. The README says of logout "Already-issued access tokens remain
valid until their configured expiry" (`src/README.md:450`). `current_user` reads the
session that the access token names and refuses the token once that is revoked
(`auth/service.py:148-151`; `tests/test_auth_api.py:297-303` expects it): TLC shows
a login, a logout and a refused token of an active user.

## 4. Theorems

### Portfolio

For every finite set of symbols and orders, all natural amounts, prices, fees
and settings, and any `Scale` (`AccountingAssumption`, `InputAssumption`), the
portfolio's specification satisfies `TypeCorrect`, `ReservationsAreCovered`,
`BasisNeverStranded`, `OrderHistoryStays`, `LimitsHold`, `BooksAreBalanced` and
`PortfolioImplementsLedger` (`PaperPortfolioProofs`).

The inductive invariant `IInv` is `TypeOK`, `CashCovered` and `UnitsCovered` with
two facts that make it inductive: the fee of a stored order is below its value
(`FeesBelowValue`, or a sale could reduce cash) and without a portfolio there is no
order, cash or unit (`UnopenedIsEmpty`, or `create` could set the cash under
existing reservations). `TypeOK` needs the cover properties: cash stays natural
only because a fill was reserved. `LimitsHold` needs that a fill or a
cancellation opens no new position and frees a slot. `BooksAreBalanced` uses
`BInv`, which adds that `trades` is finite, so that its size can be counted.
`BasisSoldBound` says that a sale's part of the cost basis is never more than
the basis, whatever the rounding. The lemmas of `SumsProofs` say how `Total`
changes when one order enters, leaves or keeps a set; they are stated of any sets
and functions, and the sandbox engine's proofs cite them too.

Refinement of `PaperLedger`: its accounts are cash and the units of each symbol, the
balances are `cash` and the holdings, and an order's terms (`TermsOf`) are what it gives of one
account for what of another. `Create` is `Deposit`, `Reserve` is `Place`, `Fill` and
`Cancel` are the ledger's, a change of settings stutters. `SetAsideFacts` shows that what
the ledger sets aside is `ReservedCash` and `ReservedUnits`, so that an accepted order finds
its amount free (`OrderAgrees`); `FillExchanges` shows that a fill, whose code computes
basis, profit and cash change, is the exchange that was agreed on, for which `IInv` has
to know that the reserved amount is there.

### Paper bots

For any finite sets of bots and workers, numbers of candles and user orders (`BotAssumption`),
`PaperBotsProofs` shows `ManagedUnitsAreCovered`, `PositionsMatch`, `ExitsStayOpen`,
`OnlyRunning` and, with `BotsKeepBooksAndLimits`, that the portfolio's books and limits
survive the composition with bots. A worker acts on a row that may be old, so
`BotInv` says of what a worker holds only its type; what keeps the books is
`tick`'s transaction. `BotInv` is the portfolio's `IInv` and the properties with four facts
that tie the two parts together: an order of a bot is filled and stands for a decision
(`OrdersDecided`, or a new decision could overwrite an order that counts), an exit was
decided after the purchase of the same candle (`EntriesFirst`, or a position
could be opened whose exit is spent), every bot's symbol keeps its units beside the pending
sales (`UnitsManaged`), and nothing runs before the portfolio is opened. The
portfolio's lemmas are used through `DirectFill`, since a bot's order is
reserved and filled in one step. `BotsOnPortfolio` sums up what a step of the composition is
to the portfolio: nothing, an action of the user, or a `DirectOrder`, which is free of
all reservations, filled as it is placed and under an id that was never used. From it follow
`BotsStrandNoBasis`, `BotsKeepHistory` and `BotsImplementLedger`, where a `DirectOrder` is the
ledger's `Trade`; `BotsLeaveReservations` follows from `BotInv`. A bot's decision, the user's order and the portfolio's
completion each have a lemma, and each step of a worker is one of these.

### Sandbox engine

For any finite sets of bots and workers, any amounts, lots, fees, limits and numbers
of candles, exits, user calls and faults (`BoundsAssumption`), `SandboxTradingProofs` has two
inductive invariants.

`AccountInv` holds whatever happens, a lost lock included. From it follow
`NeverResubmitted`, `OneAtATime`, `BooksAreTheExchanges`, `DeactivationIsQuiet`
and `PositionsLimited`. Its parts are stated of one row, one worker and one bot:

* `OrderOK` relates an order's row, the exchange's record of it and the number of
  submissions: what was never sent cannot have traded, a row never books more than
  was traded, and a final row is final at the exchange and booked in full;
* `JobOK` says what a worker knows of the order in its hands at each step: a worker about to
  submit has an unsent, unresolved intent; a worker about to book holds an
  answer that is the exchange's own if it is final, and never more than is there if not.
  This is why a stale lookup cannot settle early;
* `SubmittersDiffer`: two workers are never about to submit the same order. A worker
  gets there only by its own insert, which the decision log allows once;
* `OneUnresolved` is the unique index, `PositionMatchesFills` the booking, and
  `HoldingBounded` bounds the bots that hold, or may come to hold, a position. The
  exchange may have traded more than is booked (`Pending`), so the bound must
  count both; then a fill or its booking adds no bot;
* `QuietWhenInactive`: deactivation refuses while orders are unresolved, and nothing is
  reserved for an inactive user. Live orders are unresolved (`LiveIsPending`), so they
  are gone as well.

`LockInv` adds what holds while no worker loses the lock's connection (`LockKept`: `"lockloss"`
is not among `Faults`; all other faults may be). From it follow `StoppedBotsDoNotBuy`, `TypesHold`,
`ExposureIsBounded` and `EngineImplementsLedger`. `LockHeld` says that exactly the holder is
at work; so nobody else moves the position, and what the holder has read is still
true as far as it decides by it (`SnapOK`): the position is the row's, and a row with the
revision that it read shows no close request that it did not see. `Backed` says of an
order that may still trade that a sale asks for no more than is left and that a
purchase started from nothing; the bounds on exposure are its sums over the bot's orders.

Refinement: the ledger's `phase`, `executed` and `booked` are functions of `orders` and
`venue`. `ReserveOrder` is `Open`, as is `MarkUnknown` on an order that
the database has settled just before (the commit whose answer was lost);
a trade at the exchange (`Match`, or `Complete` of an order that fills) is `Execute`;
`Apply` is `Record`, or `Settle` if it ends the order; `RecordRejection` is
`Settle`; all other steps stutter. That an `Open` finds no other open order needs
`OneUnresolved`, that `Apply` never books less than before, and all that was traded when it
settles, needs `JobOK`, and that a rejected or looked-up order is still open in the
database needs the lock.

TLC checked both invariants before they were proved: `AccountInv` on the instances of
`sandbox_faults` and `sandbox_account`, and `LockInv` on that of `sandbox_faults`, both exhaustively.

### Alerts, mail, accounts, connections, forecasts, migrations

For any finite set of alerts, any batches, limits, numbers of market workers,
requests, rounds and faults (`AlertsAssumption`), `PriceAlertsProofs` shows
`AlertTypes`, `AlertsFireOnce`, `LimitsKept` and `NothingIsMissed`. The invariant says what `FiresOnce` leaves
out, the uncommitted half: a claimed row is armed and not yet fired, no two
evaluators have claimed the same row, what an evaluation has claimed is written or still
to be written, and at its commit all of it is written; and no two requests are
to insert the same alert. `LimitInv` adds, for the limit, that a request that has
counted is the only one that holds its user's row and that its place is still free.
`NothingMissed` is about the whole of an evaluation, from its beginning to its commit:
`MissedInv` says of every alert that an evaluation owes that it is no longer armed, or
claimed, or among the rows found, or due for a quote that is still to come; and that nothing
found is left between two quotes. When the batch is through, only the first two cases remain.
An alert is never armed again (`OwedStays`), so other evaluators take nothing from this.

For any users, notifications, finite set of workers and faults
(`MailAssumption`), `NotificationMailProofs` shows `MailTypes`, `DeliveriesApart`,
`OptOutsFinal` and `CopiesAccounted`. `MailInv` adds to the properties that a row
exists only beside a committed notification and that what an opt-out has taken
is queued and in no worker's hands; its proof has a
lemma per group of actions. `CountsWell`
strengthens `CopiesExplained`: the attempts of a row are its recorded results,
a worker that holds a row has an attempt left, and a worker that was told
"accepted" has its copy counted. A live connection is needed throughout: a worker
whose connection is lost may send beside another, and then only
`CopiesExplained` still accounts for it.

For any users, tokens and requests (`SessionsAssumption`) and any limits, secrets
and finite set of clients (`CredentialsAssumption`), `AccountsProofs` shows
`RotationTheorem`, `AdminTheorem`, `SocketTheorem`, `LockoutTheorem`,
`VerifiedTheorem` (of workers that have kept their session) and `SecretTheorem`. A login is carried either by a live token or by
a request that has consumed its token and not yet stored the next:
`SessionsInv` says that each login has at most one carrier and that an ended login has
none, from which `RotationIsExclusive` follows; the same requests would
otherwise revive it. `LateInv` says that a socket that has sent a late frame is
between two rounds with a revoked session, so that the next check closes
it. For the lock, wrong answers count up to the limit with the account open;
after that only requests that had read it before can still guess, and each of
them answers once: `GuessInv` bounds `wrong` and the number of logins in flight
together while the account is locked, and the lemmas count how one client leaves or joins those.

For any slots, ids, secrets, keys and callers (`ConnectionsAssumption`),
`OperationsProofs` shows `DecryptableTheorem` and `InUseTheorem`.
`ConnectionsInv` says that ids are unique; rows are bound to their id, and under the
running key or that of a rotation which was reported as failed; a request's
text fits the id it will be stored under, an id about
to be inserted is nobody else's, a request about to replace holds the lock of
an idle connection; what the lock's holder uses, and what was made under the lock, is the row's;
and a connection with any worker, order or position has a bot, which keeps it. For any candles,
tasks and versions (`ForecastsAssumption`) it shows `FinalTheorem` and
`PublishedTheorem`: a fetch's stamp never exceeds the moment of its answer, so a
candle that counts as late is final, whatever overwrites it, and what an older release
left without a stamp is excepted; and a task that is to
register, activate or use a version finds its artifacts complete or its row there.

For any runners, required tables, releases and untracked databases (`MigrationsAssumption`, which
says no more than what they are), `RecordTheorem` shows `SchemaMatchesRecord`. `MigrationsInv` says
that the record is what the schema has once the database is tracked, but for these cases: a file that
is executed and not committed is the last of the schema and the one at which its runner stands;
a baseline that was not misjudged has found in the database exactly its release, and has recorded
as much of it as it has passed; after a `halfway` baseline the record may be short; and
after a `misjudged` one it may be wrong. A runner that is past the lock holds it, and
what it has passed is recorded. Since no other runner can then write, a step of one
leaves what the others know (`OthersStay`).

### Only model-checked

* Liveness (`Reconciled`, `StopCompletes`, `CloseResolves`, `QueuedMailEnds`,
  `OptOutReturns`): fairness and ENABLED are out of the prover's reach.
* The two findings are counterexamples, which only a run can show.

`HistoryStays` and `TypeOK` of the portfolio and the type invariants of alerts
and mail are proved and have no run of their own.

## 5. Not modelled

`PROJECT.json` gives each component's status. Left out on purpose:

* what has no state to interleave: input validation (`schemas.py`, `contracts.py`),
  hashing, signatures and encryption as such, HTML, routes that pass one call on;
* numbers: features, fitting, evaluation, drift, indicators. Forecasts, prices
  and risk refusals reach the bots as choices, which allows more than the code does;
* reads: listings, reports, overviews, health, balances at the exchange;
* the Redis cache of market data (each entry is written whole and expires by itself,
  and a miss or an error is a fetch), the price stream, and the rate limiter,
  which is one atomic script per request;
* the frontend and the deployment scripts, which keep no state of the platform;
* expiry times: locks, tokens and schedules end at any moment instead.

## 6. Order of work

The modules were written in the order of the table of section 2, each with its
run before its proofs. All
safety properties of the passing runs are proved. What would add most next: abstract
specifications of sessions, alerts and the outbox in the way of the two ledgers.

A new module joins a run of its area, and properties that two runs of a module
share are checked in one of them, so that each run stays within a few minutes and
each question is asked once.
