# B4FastAPI in TLA+

This directory specifies, model-checks and proves the concurrent core of the
B4FastAPI backend (`src/src/backend/app`, written below as `app/`) and of the two
scripts that keep state beside it (deployment and verification). The program
is a FastAPI service with PostgreSQL (or SQLite), Redis, Celery workers, an SMTP
relay, an object store and Stripe. Almost every rule it promises is kept by *something
shared*: a conditional `UPDATE`, a Redis `WATCH`, a row lock, a lease, an idempotency
key. Those are the parts that unit tests hardly reach and that this project checks.

Contents: [inventory](#inventory), [modules](#modules), [runs](#runs),
[proofs](#proofs), [findings](#findings), [what is not modelled](#what-is-not-modelled),
[plan](#plan).

## Inventory

| Component | State | Operations | What is hard | What makes it correct | Module |
|---|---|---|---|---|---|
| **Lifecycle-mail outbox** `models/notification.py`, `services/notifications.py`, `core/celery/notifications.py` | `mail_notifications` rows: state, encrypted payload, attempts, lease, deadlines | reserve, claim, deliver, finish, retry | overlapping drains, crashes after a claim, time limits, expiry racing delivery, at-least-once SMTP | one worker per row, a bounded number of mails, final results, recipients erased in the end | `Outbox`, `RetainedMail` |
| **Account email challenges** `utils/account_verification.py` | four expiring Redis keys per user and purpose | issue, check, consume | `WATCH/EXEC` races, expiry between read and `EXEC`, rounded `TTL` | single use, latest code only, counted guesses, lock-out, spacing, budget | `EmailChallenge` |
| **One-time tokens** `utils/token.py`, `services/auth.py` | per token an entry, per user a pointer to the latest one, for verification and for reset | store and mail, consume, erase with the account | stores and reset consumption are several commands, links followed twice or while a resend replaces them | single use, latest only, no mailed link lost | `OneTimeTokens` |
| **Refresh sessions and credentials** `utils/token.py`, `services/auth.py` | Redis sessions, their CSRF proofs and per-user index; the password hash | login, refresh, proof bootstrap, logout, change, reset, delete | no transaction joins the keys; a password is committed after the revocation or before it | an ended session stays ended, proofs are stable, a reset is not undone | `Sessions` |
| **Stripe customer and checkout** `services/billing.py`, `models/billing.py` | customer row, checkout row; Stripe's keys, sessions, subscriptions | reserve, create, bind; reserve, list, open, pay | two systems without a common transaction, keys that Stripe forgets, devices in parallel | one customer and one subscription per user | `StripeCustomer`, `Checkout` |
| **Subscription changes** `services/billing.py` | Stripe's subscription and schedules | cancel, resume, upgrade, schedule, release, recover | a chain of calls any of which fails or loses its answer; renewals and operators in between | operators' schedules untouched, later decisions stand | `PlanChange` |
| **Billing events and reconciliation** `services/billing_notifications.py`, `billing_reconciliation.py` | the snapshot with the customer's row, inbox and outbox rows | deliver an event, load a page, reconcile | late, repeated, reordered, overlapping deliveries; a customer that always fails | the snapshot covers acknowledged events, nothing acknowledged is lost, snapshots converge | `BillingSync`, `Reconcile` |
| **Identities and the login limit** `services/auth.py`, `models/user.py` | users, OAuth identities and states, verification tokens; a failure counter per address | sign-up, verify, OAuth start and callback, welcome; check, count, clear | find, link and create race; counter and expiry are two commands | one welcome per user; guesses bounded, a lock ends | `Identities`, `LoginLimit` |
| **Accounts and roles** `models/user.py`, `app/manage_user_role.py` | `users`, `role_change_audit`, the reservation that refers to a user | sign-up, bootstrap, set role, delete | check-then-act over several rows, inserts invisible to a check, cascades | an administrator stays, the audit explains roles, a reservation is never cascaded away | `Accounts` |
| **Notification inbox and realtime events** `models/inbox.py`, `services/inbox.py`, `core/realtime` | rows with ids drawn before the commit, the page's list and summary, pub/sub | insert, list, mark, delete; publish, subscribe | redelivered events, lost events, two transactions behind one page | one row per event, a connected page is fresh | `Inbox` |
| **Support inquiries** `models/inquiry.py`, `services/inquiry.py` | threads, messages, request ids | create, reply, change status | retried requests, reply against close, the message limit | retries succeed once, no message after closing | `Inquiries` |
| **API keys** `models/api_key.py`, `services/api_key.py` | key rows with use counts | use, disable, enable, delete | read and write back without a lock | a key that stopped working stays stopped | `ApiKeys` |
| **Profile photo** `services/profile_photo.py`, `models/profile_photo.py`, `core/object_storage` | a row naming an object, the object store | upload, delete, compensate, clean up | a database and a store that may fail after they acted | the named object exists, others are collected or excused | `ProfilePhoto` |
| **Mail task queue** `core/celery/mail.py`, `core/mail` | Celery messages and their attempts | send, retry, expire, archive | redelivery, archival that fails | bounded attempts, every mail sent or archived | `MailTask` |
| **Single-flight caches** `core/observability/integration_health.py`, `services/admin.py` | one pending probe, one pending snapshot | check, give up | cancelled waiters sharing a task | one probe at a time | `SingleFlight` |
| **Clients and lifespan** `main.py`, `core/cache/redis.py`, `core/db/session.py`, `services/bootstrap.py` | what a process holds open, the bootstrap user | start, fail, stop | failure at every step, two processes creating one user | nothing left open, nobody promoted | `Lifespan` |
| **Deployment script** `docker/scripts/deploy.py` | images, containers, schema | check, validate, up, smoke | a step fails and nothing is rolled back | the API moves only past a worker that answers | `Rollout` |
| **Verification tooling** `scripts/verification_*.py` | receipts, a thread pool | run, reuse, save | source edited while commands run | what is reported verified was | `VerifyRunner` |
| **Configuration, observability, HTTP** `core/config`, `core/error`, `core/observability`, `routers` | none that changes concurrently | parse, map, log | — | — | — |

How they interact. A request handler (`routers` → `services`) opens one database
session. Domain changes that must produce mail insert an outbox row, some of them
(account deletion, `models/user.py`) in the *same* transaction; after the commit a
wake-up starts the drain task, and Celery Beat starts it anyway. Account
deletion and password changes demand an email challenge first, and revoke
sessions in Redis outside the database transaction. Billing reserves a checkout
in a row whose foreign key is the account, so deletion and checkout meet in
PostgreSQL's row locks (`Accounts`). Webhooks and the reconciliation task write the
same snapshot; webhooks insert into the inbox and the outbox (`BillingSync`), and the
inbox invalidates open pages through pub/sub (`Inbox`). Elsewhere components meet in
calls that pass values, and a module takes what the other component answers as a
choice: which code or link authorizes a password change (`Sessions`), what an OAuth
provider says (`Identities`), whether a commit or a store acted (`ProfilePhoto`).

`PROJECT.json` lists under `hazards` each place where this can go wrong, at its
line, with the properties that watch it.

## Modules

The last column of the inventory names the module of each component. Beside them:

| Module | Content |
|---|---|
| `RetainedMail` | the outbox's promise without leases, clocks or workers: an abstract specification that `Outbox` implements |
| `Billing` | `StripeCustomer`, with instances of `Checkout`, `PlanChange`, `BillingSync`, and what the code says of their constants |
| `Services` | `ProfilePhoto`, with instances of eleven other components, and what the code says of their constants |
| `OutboxProofs`, `EmailChallengeProofs`, `OneTimeTokensProofs`, `AccountsProofs`, `SessionsProofs`, `BillingProofs` | theorems about the module in the name |
| `ServicesProofs`, `OperationsProofs` | theorems about the parts of `Services`: those the API's requests change, and those that run around it |
| `MCOutbox`, `MCEmailChallenge`, `MCAccounts`, `MCOneTimeTokens`, `MCSessions`, `MCBilling`, `MCServices` | symmetry and constant values for TLC |

The operators whose comment starts with "Defect:" are plausible mistakes in the
definition that follows them. No specification uses them; substituting one for
its neighbour must break the property named in `PROJECT.json`.

In all modules `pc` is where each request, worker or process is and `job` what it holds
in memory; a step is one database statement or transaction, one Redis command or
transaction, or one call of a provider. A failure that may come after the effect is a
choice of the step, not a step of its own.

### Outbox

`rows[k]` is a row of `mail_notifications`; `held` is "payload IS NOT NULL", the
recipient's data. `pc[w]` and `job[w]` are the drain task of a worker: its claim's
`now` and `key`, and the columns it re-read. `claims`, `retries`, `mails` and
`crashes` are history.

| Action | Code |
|---|---|
| `Enqueue` | `queue_notification`: an insert that ignores an existing key |
| `Retry` | `MailNotifications.retry` through `manage_notifications` |
| `StartDrain` | the Celery task, by Beat, wake-up or redelivery |
| `ClaimSelect` | `claim()`: the clock and the `SELECT` of a due row |
| `ClaimWon`, `ClaimNone` | its expiry and exhaustion sweeps with the conditional `UPDATE`, committed |
| `Reread` | its `db.get` after the commit |
| `Skip`, `DecryptFails`, `Send` | the branches of `deliver_notifications` |
| `Finish` | `finish()`, conditional on the lease, then the next claim of the batch |
| `Crash`, `HardTimeLimit` | a dead process or the soft limit's exception; the pool's kill |
| `Tick` | time |

A lease is a `uuid4`; the model numbers it by the claim, which is what being fresh
means. The `SELECT` and the `UPDATE` are separate steps since READ COMMITTED lets
other transactions commit between them; the `UPDATE` evaluates its condition on the
current row under its lock, so sweeps and `UPDATE` are one step. `ASSUME
LeaseCoversTask` says that the task's hard limit (300 s) does not exceed the
lease (5 min): both are literals, in two files.

Fairness: Beat keeps starting runs (`WF` of `StartDrain`), a running task keeps
running (`WF` of `Step`), the pool enforces its limit and time passes. Enqueueing,
the operator, and crashes owe nothing. Beat's schedule in
`core/celery/app.py` is why the first is justified: a lost wake-up costs only delay.

### EmailChallenge

`store` holds the keys `challenge`, `cooldown`, `budget` and `failures` with their
expiry, for one user and one purpose, since each key name carries both. A
transaction is two steps, `IssueWatch`/`GuessWatch` (the `WATCH` and every read
after it, with the early returns) and `IssueExec`/`AcceptExec`/`RejectExec`, which go
through when no watched key changed; otherwise `Conflict` starts over, `MaxTries`
times (eight in the code). `Cancel` is a dropped request, `Tick` drops dead keys.
`Ttl` is nondeterministic at one place: Redis rounds `TTL` to whole seconds, so a live
key may read as 0, and the code then treats it as ended. A code is its number in
the order of issue; the HMAC and the digits are data.

### OneTimeTokens

`entry` is the set of tokens whose own key exists, `current` the user's key. The two
purposes have disjoint keys and share all code but consumption, so an instance is about
one of them: `purpose` is chosen in `Init` and never changes. Each Redis command is a
step: `GetPrevious`, `Unlink`, `Put`, `Point` and `Mail` store and mail a token;
`Lookup` and `Match` are the two reads of a consumption, followed by `ExecWon` or
`ExecLost` (verification, `WATCH/EXEC`) or by `Drop` and `Clear` (reset, two plain
deletions); `BeginErase`, `Find`, `Remove` and `Forget` are the account's deletion.
`Cancel` stops a request between any two commands. `Expire` comes before
`ExpireCurrent` because the two keys get the same life in that order. Requests
follow links that were mailed, or one that names no token.

### Sessions

`live[s]` and `csrf[s]` are a session's two Redis keys with what is left of their lives,
`index` the set of the user's sessions with its own. `hash` counts the password hashes
stored, `held` are the sessions a client knows.

| Action | Code |
|---|---|
| `BeginLogin`, `Credential` | the checked password, `create_refresh_token` |
| `SetSession`, `ExtendProof`, `AddIndex`, `Keep` | the commands of `store_refresh_token`, also of a refresh |
| `BeginRefresh`, `CheckProof`, `Verify`, `FindUser` | `refresh` with its CSRF proof |
| `BeginBootstrap`, `Known`, `ReadTtl`, `SetProof`, `Fetch` | the proof's bootstrap: `SET NX` and the read after it |
| `BeginLogout` | `logout`: a revocation |
| `Members`, `Delete`, `Unindex` | `delete_refresh_token`, the revocation that the others share: `SMEMBERS` and two `DEL` |
| `BeginChange`, `ReadHash`, `Commit` | a password change: a revocation, then a hash in place of the one that was read |
| `BeginReset`, `UpdateHash` | a reset: the hash, then a revocation |
| `BeginDelete`, `Erase` | account deletion, then a revocation |
| `Cancel`, `Tick` | a dropped request; expiry |

### Billing

`StripeCustomer`: `Insert` reserves a row with a fresh key, `Check` refuses one that is
too old, `Create` asks Stripe under the key (which Stripe forgets at age `Prune`), `Bind`
writes the id, `Fail` loses a request at any of these, `DeleteAccount` takes the row along.
A tick is an hour; it waits for requests that are already a tick old (`late`), because the
calls of the provider time out long before.

`Checkout`: `Renew` replaces a lapsed row, `Read` reads the row or inserts one, `List` asks
Stripe for subscriptions and compares the row's terms, `Create` opens the session under the
row's key. `Pay` and `End` are the customer and Stripe.

`PlanChange`: `Fill` is a page that shows a state and the form made from it (a page that may
not manage the subscription is left out, since its form is always refused); `Begin`
takes the lock and reads the subscription, `State` its schedule, and `Check` compares
the form's version; then each call is a step (`Release`, `Cancel`, `Resume`,
`UpgradeNow`, `Create`, `Update`, and `Recover` for a schedule found half made). `Fail`
ends a request before or after any of them, `done` and `made` are Stripe's memory of
idempotency keys, `Save` is the answer. `Approach`, `Renew`, `Settle` and `Lapse` are
Stripe's clock and payments, `Attach` and `Detach` an operator. A plan that was scheduled
begins with a renewal; its phase lasts a period, during which the schedule stays attached, and
ends with the next (`Begun`; a subscription may begin there). `Forget` is Stripe pruning a key, at
any moment. `closed` holds the forms that decided before another was answered and of which
Stripe remembers every call; `forgotten` those of which it does not.

`BillingSync`: `plans` is the sequence of states at Stripe, one event each. `Owner`,
`Lock`, `Fetch`, `Save`, `Confirm`, `Tell`, `Queue` are a delivery; `Load` a page that only
syncs. An event stays deliverable after it is acknowledged, since Stripe repeats.

`Reconcile`: `synced` is the order of `subscription_synced_at`; `Start` takes the `Limit` customers whose sync is oldest, `Sync` refreshes one and
moves it to the end of the order, or fails and leaves it where it is.

### Identities and the login limit

`Identities`: `Signup`, `StoreToken`, `Resend`, `Verify`, `Mark`, `Welcome` are the way by
mail; `StartOAuth`, `Callback`, `Consume` (the state), `Find`, `Link`, `Create`, `Enter` the
way through a provider. `welcomed` counts welcomes, `missed` the users whose welcome was
lost with its process. `LoginLimit`: `Check`, `Fail` (`INCR`), `SetExpiry`, `Succeed` (`DEL`),
`Expire`; `cut` records that a request stopped between `INCR` and `EXPIRE`.

### Accounts

`account[id]` is `unborn`, `pending` (inserted, not committed), `live` or `gone`;
`tx[c]` is a client's transaction. Statements are steps under READ COMMITTED. The
table lock (`SHARE ROW EXCLUSIVE`) waits for writers and they for it; `FOR UPDATE`
waits for the `FOR KEY SHARE` that a reservation's foreign key takes, and the other
way round. `Abort` rolls back at any step. SQLite's `BEGIN IMMEDIATE` locks more, so
its behaviours are among these. Ids are not reused, as `AUTOINCREMENT` and sequences
promise.

### Inbox

`Insert` draws an id (and takes a key if the delivery has one), `Commit` and `Rollback` end
it, so that ids become visible out of order. `Publish` and `Lose` are the event after the
commit; `Connect` subscribes before it says so; `List` and `Summary` are the two
transactions of a page; `Read`, `ReadAll`, `Delete` the user's operations.

### Inquiries

`Create`, `Reply` and `SetStatus` begin a request, `Lock` is `SELECT … FOR UPDATE` of the
thread (or the user for a new one), `Prior` finds the request id, `Count` the limit,
`Commit` or `ChangeStatus` write and notify, `Answer` publishes and answers, `Stop` loses a
request at any step. `told` counts the notifications of each message.

### ApiKeys, ProfilePhoto, MailTask

`ApiKeys`: `Resolve` and `CountUse` are `deps.py`'s read and write back (only changed
columns), `FindOwner` the owner's status, `Read` with `SetEnabled` or `Delete` the owner's
operations. `ProfilePhoto`: `Put`, `Swap` (compare-and-swap of the reference),
`Check` after a failure, `Cleanup`; `PutFails` and `SwapFails` may have acted. `MailTask`:
`Take`, `Send`, `SendFails` (publishes the next attempt or archives), `Archive`,
`ArchiveFails`, and `Lose`, `Redeliver` of the broker, which keeps a message until its task has
ended. `queue[m]` counts the copies of message `m`.

### SingleFlight, Lifespan, VerifyRunner, Rollout

`SingleFlight`: `Join` shares the pending probe, `GiveUp` leaves it running
(`asyncio.shield`); `LoadChecks`, `LoadEnds`, `LoadGivesUp` are the demo snapshot above
it. `Lifespan`: the steps of `lifespan` from `OpenStorage` to `Verify`, `StartFails` at
any of them, and the `finally` blocks `Dispose`, `CloseRedis`, `CloseStorage`, each of
which may fail; `SignUp` and `Delete` are a user with the bootstrap address in another
process. `VerifyRunner`: `Begin`, `Start` in lane order, `Reuse`, `Pass`, `Fail`,
`Save`, `Collect`, while `Edit`, `Build` and `Expire` change what the receipts are
about. `Rollout`: a command is a list of stages, `Prepare`, `Validate`, `Bring`,
`Smoke`; `Flap` is a container that comes and goes.

## Runs

| Run | Instance | Shows |
|---|---|---|
| `outbox_promise` | 1 row, 2 workers, its whole retention of 5 ticks, one operator retry, one crash, fairness; 247,792 states | `TypeOK`, `OneWorkerPerRow`, `KeepsPromise` |
| `outbox_expired` | the same with a retention of 1 | violation of `ExpiredIsFinal`, see [Findings](#findings) |
| `challenge_answers` | 2 requests, 5 codes, limits of 2, windows of 2 to 3, clock to 4; 3.5 million states | `TypeOK`, `BoundedGuesses`, `HourlyBudget`, `SingleUse` |
| `one_time_tokens` | 3 requests, 2 tokens, both purposes; 160,795 states | `TypeOK`, `NoTokenLost`, `ReplacedIsRefused` |
| `reset_twice` | the same, reset tokens only | violation of `ResetOnce` |
| `sessions` | 3 requests, 1 session with a life of one tick, 3 hashes, 2 proofs; 1.5 million states | `TypeOK`, `EndedStaysEnded`, `ProofStable`, `DeletedStaysOut`, `ResetSticks` |
| `logout_all` | 2 requests, 2 sessions | violation of `LogoutRevokesAll` |
| `billing` | the four billing modules, 2 devices each, interchangeable; 2.0 million states | `AllTypeOK`, `OneCustomer`, `OneSubscription`, `SnapshotCovers`, `AckedIsRecorded`, `SchedulesKept`, `LaterDecisionStands` |
| `plan_retry` | `PlanChange` alone | violation of `RetryRecovers` |
| `services` | the twelve parts of `Services`; 616,256 states | `AllTypeOK`, `AddressGuarded`, `WelcomeOnce`, `DeliveredOnce`, `PageFresh`, `ObjectsAccounted`, `SendsBounded`, `OneProbe`, `StartsSafely`, `VerifiedOnly`, `RepliesSound`, `StopsWorking`, `Recovers`, `Settles`, `RolloutSafe` |
| `read_all` | `Inbox` alone | violation of `KeepsNewUnread` |
| `accounts` | 2 clients, 2 addresses, 3 ids, 2 audit rows; 1.1 million states | `TypeOK`, `AdminStays`, `ReservationSurvives` |

`Billing` and `Services` put modules into one run that share no variable. Their
interleaving would say nothing about either, so each initial state chooses one part and
only that part moves; a property of one part is vacuous in the others' states and says
there what it says in a run of its own. Parts whose bounded inputs are used up may end, and
these runs do not check for deadlock. The other runs do: none of their systems may stop.

**Bounds.** `MaxNow`, `MaxPeriod` and `Ttl` bound clocks; `MaxRetries` and `MaxCrashes`
(`Outbox`), `MaxCodes`, `MaxTokens`, `MaxAccounts`, `MaxAudits`, `MaxHash`, `MaxProofs`,
`MaxKeys`, `MaxScheds`, `MaxEvents`, `MaxUsers`, `MaxId`, `MaxCount`, `MaxVersion` and
`MaxFaults` bound what would otherwise grow. `MaxTries`, `MaxMessages`, `Limit`,
`GiveUp`, `Prune`, and `MailTask`'s `MaxRetries` are not bounds but the code's own
limits, made small with their order kept. They are enough because the interesting cases
happen inside them:

- `outbox_promise`: a row uses both of its attempts, fails, is granted another budget and
  still expires inside the clock (rows are only reserved when their deadline fits, so
  liveness is not met by stopping the clock early).
- `challenge_answers`: the fifth code is the first that `HourlyBudget` constrains, and the
  clock passes a whole window.
- `one_time_tokens`: two resends and a consumption overlap command by command.
- `sessions`: a login, a logout and a password change overlap on one session that also
  expires; two hashes can be written while a third request holds the first.
- `billing`: the age limits (2 and 3 for 23 and 24 hours) leave time for a key to be
  forgotten; a checkout of 3 ticks with 2 to be left lapses and is replaced within a clock of
  4; two schedules and a renewal let an operator's replace one's own, an earlier one be in its
  last phase at the start, and keys be forgotten before, between and after the calls of a form;
  three events overlap with two deliveries.
- `services`: three logins meet a limit of 3; two replies meet a limit of 2 messages; three
  object keys allow two replacements; a reconciliation takes 2 of 3 customers, one of which
  always fails; the broker repeats twice; three releases, one of which the settings refuse.
- `accounts`: two administrators demote or delete one another while a third is inserted.

Each property also has a mutant that breaks it *inside the same bounds*, which is the
evidence that the bound is not too small.

**Time.** A tick stands for five minutes in `Outbox` (one lease, one hard limit, and a
back-off of at most 30 minutes is shortened to one tick, which only brings claims
closer together), for an hour in `StripeCustomer`, and for an arbitrary unit elsewhere;
lifetimes keep the order of the code's. Where only "before or after" matters, expiry is an
action that may come at any time.

**Fairness.** Three specifications state it. `Outbox`: see above. `Reconcile`: weak for
`Start` (Beat and a worker keep running) and strong for `Sync(c)`: a worker may stop at any
customer, but not each time at the same one. `MailTask`: weak for a worker's steps, as
Celery keeps workers running, and strong for `Archive`: the database is not down each time
an archival is tried. Nothing is assumed of users, operators, providers or crashes.

## Proofs

TLAPS checks the following for every value of the constants that satisfies the
named assumptions, in particular for any number of rows, workers, requests,
clients and ticks.

**`OutboxProofs`.** `TypeCorrect`, `BoundedClaims`, `ExclusiveWork`, `SingleHandOff`,
`DeliveryIsFinal`, `ClaimsMeetDeadline`, `ImplementsPromise`. None of these
properties is inductive: the invariant `IInv` adds `RowsOK` (what each state says of
the payload and the lease), `ClocksOK` (no task outlives its limit, no clock is
ahead), `WorkOK` (a worker between claim and finish either holds its lease, or its
row was erased meanwhile), `MailsOK` and `FinishOK`. The argument for `ExclusiveWork`
is that a task which is still running is younger than `TaskLimit`, hence than its
lease, and another claim needs a lease that is over; it is the only theorem that uses
`LeaseCoversTask`. `DeliveryIsFinal` holds *although* `finish` may match `NULL`: the
re-read of an expired row needs a row whose deadline came, which no delivered row
meets. `ImplementsPromise` shows that each step of the outbox is a step of
`RetainedMail` or stutters on `PhaseBar`, `claims` and `BudgetBar`.

**`EmailChallengeProofs`.** `TypeCorrect`, `LockedCodes`, `GuessesBounded`,
`CodesApart`, `BudgetHolds`, `CodesSingleUse`, `OnlyLatestCode`. `IInv` adds `LiveKeys`
(a stored key has not expired), `SeenOK` (what a request read is what it would read
now or something older), `CountOK` (the failure count is the number of wrong answers
in its window) and `CodesOK`, whose parts order the codes in time (`Ordered`), tie the
stored challenge to the latest (`Latest`), the cooldown to the spacing (`Paused`) and
the budget's value and expiry to the codes of its window (`Budgeted`). `BudgetHolds`
is the interesting one: the code promises "five per hour" through a *fixed*
window, and twice the limit is what any hour can see.

**`AccountsProofs`.** `TypeCorrect`, `RolesExplained`, `AdminAlwaysStays`,
`ReservationsSurvive`. `IInv` adds `LockOK` (one holder of the table lock, and no writer
beside it), `InsertOK`, `FoundOK` (what a transaction read of its row is still so),
`AdminOK` (a demotion that passed its count leaves another administrator), `ShareOK`,
`EraseOK` (an account about to be erased has no reservation, and none is being inserted)
and `AuditOK`.

**`OneTimeTokensProofs`.** `TypeCorrect`, `ContentionEnds`, `ReplacedRefused` for both
purposes; `SingleVerification`, `VerificationNotLost`, `LatestVerified` for verification.
`IInv` adds `StoringOK` and `UniqueOK` (a token being stored is unknown to everyone
else), `FreshOK`, `PointerOK` (the user's key points at the latest token or is gone: a
replaced token can never be pointed at again, which is why `ReplacedIsRefused` needs no
transaction), `ReadOK`, `LateOK` and `TriesOK` (who lost once tries a dead token). For
verification `VInv` adds `UsedOK` (an accepted token has no entry) and `Kept`.

**`SessionsProofs`.** `TypeCorrect`, `EndedStaysEndedHolds`, `ProofStableHolds`,
`DeletedStaysOutHolds`, `ResetSticksHolds`. `IInv` adds `HasSession` (a request that works on a
session has one that a login drew) and `ResetFirst` (no stored hash is older than the last
reset's). The action properties follow step by step: whoever stores a session was in `Storing`
before, the proof is written by `SET NX` or extended, a request reaches `setex` only by
finding the user, and `Commit` replaces the hash only if it is still the one that was read.

**`BillingProofs`.** `AllTypeCorrect` and the six properties of the run, one inductive invariant
a part:

- `OneCustomerHolds` needs the history of the key: `Reserved` says that whoever is past the
  reservation finds the row until the account is deleted, `KeyOK` that a key Stripe remembers has
  made the customer and is no older than the row, `Young` that a request about to create saw a
  row below `GiveUp`, a tick ago at most, and `Forgotten` that once Stripe has forgotten the key
  the row is too old for anybody to create. Assumption `AgesAssumption`: `GiveUp < Prune`, in the
  code 23 and 24 hours (`services/billing.py:223`); without it a second customer is possible.
- `OneSubscriptionHolds`: `OldExpired` (a reservation that was replaced has expired, and so have
  its session and the requests that hold it) and `NoOther` (whoever may open or pay a session of
  the present reservation found no other subscription).
- `SnapshotCoversHolds`, `AckedIsRecordedHolds`: `OneLock` (between lock and commit a worker is
  alone), `SaveGrows` (what is about to be saved shows its event and no less than what is there:
  the fetch comes after the lock) and `Shown`.
- `SchedulesKeptHolds`, `LaterDecisionStandsHolds`: `SchedsOK` (one active schedule, whose plan is
  still to begin), `HolderOK` (what the form under way read is what its page showed, directly or
  without the schedule it made itself; its calls are a route that follows from that; what it is
  about to schedule was asked for in this period) and `DoneOK` (a call that Stripe remembers of a
  form had the calls before it, which it remembers too unless it has forgotten some call of that
  form: `Past`; a form in `closed` has its deciding call: `Decided`). A form sent again after a
  later one then finds every call it reaches under a key whose answer Stripe keeps. Once it does
  not, the version is what is left: it gives the other half of the theorem, that whatever decides
  was read as its page showed it (`Shown`).

**`ServicesProofs`.** One inductive invariant a part; `PartSteps` says that a step of the whole is a
step of a part or leaves its variables alone.

- `ObjectsAccountedHolds`: `OwnKey` (no other request holds the key of an upload under way, nor
  does the row), `Written` (who is about to swap has its object in the store), `CleanupOK` (what is
  cleaned up is not in use) and `NothingLeft` make `PhotoKept` inductive; `NoOrphan` follows each
  object from its writer to the reference, to a cleanup or to the failure that excuses it.
- `AddressGuardedHolds`: `RoomLeft`, the failures and the requests that may still fail together
  stay below the limit and one per request.
- `RepliesSoundHolds`: `LockOK` (a row has one holder, inside its critical steps), `JobOK` and
  `ThreadOK` tie a request to its thread, `ReadOK` says that what was read under the lock is still
  so, `ToldOK` that only what is stored was notified.
- `WelcomeOnceHolds`: `GreeterAlone` (only the request whose `UPDATE` verified a user is about to
  greet it, and nobody did before), `UnverifiedUngreeted`, `BornInOrder`.
- `DeliveredOnceHolds`, `PageFreshHolds`: `KeyOnce` (a key has one row that was not rolled back),
  `CommitsOwn`, `DrawnInOrder`, and `PageCurrent` (a page that was listed is current until something
  is on its way to it), which is inductive although list and summary are two transactions, because
  a change between them is an event or a loss.
- `StopsWorkingHolds`: `KeyInv`; a use writes back the columns it changed and never the state.

**`OperationsProofs`.** The same for the parts around the API, and the types of all twelve.

- `SendsBoundedHolds`: `Accounted` counts the attempts made, those the copies in the queue still
  have and those in hand; each step moves between the three, and only a repeated delivery adds,
  at most one round. `HeldOne` is what a worker holds.
- `OneProbeHolds`: the pending task is the one that called. `StartsSafelyHolds`: `Held` says what a
  process may hold open at each step of its start and of its end.
- `VerifiedOnlyHolds`: `InTurn` (what a thread has taken waits for nothing), `Unedited` (without an
  edit a pass was on the snapshot's source), `Receipts`, `Outputs` and `Packaged` follow an output
  from the command that built it to the package. `ChecksAssumption` says of a plan what
  `verification.py` does: it ends with the packaging, which belongs to the lane that builds what it
  packages.
- `RolloutSafeHolds`: `PlanKept` (the stages left are the rest of the plan, validation comes first)
  and `StagesDone` (what has been done for the services that are left, and what the others run).
- `AllTypeCorrect` collects the types from these invariants. Beside them it needs `ThroughOK` (a
  summary's latest id is that of a row, since a set of ids has a largest one) and `SnapshotInv` (the
  order of the last syncs has every customer, moved or not).

Assumptions on the constants are the `ASSUME`s of the modules, which TLC evaluates in every run:
that bounds and limits are numbers, `LeaseCoversTask`, `AgesAssumption`, `PlansAssumption` (no plan is
called like the words a form may say instead of one), `SupportAssumption` (a thread's own request
id is no reply's), `ChecksAssumption` and `RolloutsAssumption` (0 is no release).

The properties that only theorems state, because the runs' properties are deeper
or imply them on small instances, are `ClaimBudget`, `OneMailPerClaim`, `DeliveredIsFinal`,
`NoClaimPastDeadline`, `LockedHasNoCode`, `Spacing`, `LatestCodeOnly`, `VerifiedOnce`,
`NeverContends`, `OnlyLatest` and `AuditExplains`.

Every invariant and every action property of a passing run is proved. Only model-checked are the
liveness properties: `Recovers`, `Settles` and the liveness half of `KeepsPromise`, because liveness
under fairness is outside the prover (the safety half is `ImplementsPromise`). No module is
recursive.

## Findings

`outbox_expired` shows that the sentence "Old lease holders cannot overwrite a later
claim/result" (`src/notes/lifecycle-mail.md:69`) does not hold for the result
`expired`. `claim()` commits and then re-reads the row (`models/notification.py:102`).
When another scan's sweep expires the row in between, the worker reads `lease = None`;
`finish()` compares the column with `None`, SQLAlchemy renders `IS NULL`
(`models/notification.py:164`), the `UPDATE` matches, and the expired row becomes
`pending`, `failed` or `skipped`. As `pending` without a payload no scan selects it and
no listing of failures shows it. The recipient was already erased and nothing more is
mailed; what is lost is the record of the result. The window is short (a claim
just before the deadline, another scan just after it), and a check that the
re-read row still carries the claim's lease would close it.

`reset_twice` shows that a reset link is not the "secure one-time link" its mail speaks of
(`src/src/backend/app/core/mail/templates.py:77`). `consume_password_reset_token`
reads both keys and then deletes both with separate commands
(`utils/token.py:186-204`); two requests that read before either deletes both succeed and
both set a password. The verification token is consumed under `WATCH/EXEC` for this
reason (`BACKEND.md`), and `VerifiedOnce` is proved for it. The last of the
two deletions can also take along the pointer to a token stored in the meantime, whose
link is then dead: `NoTokenLost` is restricted to verification for that reason.

`logout_all` shows that "Logout invalidates all refresh sessions for that user"
(`src/contracts/README.md:78`) has an exception. A revocation reads the index with
`SMEMBERS` and later deletes it with `DEL` (`utils/token.py:207-217`). A login whose
`SADD` falls in between keeps its session and loses its entry; that alone could be
called a login after the logout, but no *later* logout finds the session either, until a
refresh indexes it again.

`plan_retry` shows that a schedule whose update failed is not always recovered. The
notes say "If schedule creation succeeds but its update fails, retry the same request
ID" (`src/notes/billing.md:323`). A retry recovers the schedule only if the form's
version is that of the current state without the schedule
(`services/billing.py:683-701`). When the form first resumed a subscription that was to
be cancelled (`services/billing.py:764`), its version still has the cancellation, the
current state has not, and the form is refused while the schedule it made stays
attached.

`read_all` shows that "mark all read" can mark what was never shown. A page asks for its list
and for its summary in two transactions and sends back the summary's highest id
(`models/inbox.py:133`); a notification committed in between, or one with a lower id committed
later, is at or below the mark. The notes say "Bulk read uses the snapshot high-water ID to
preserve newly arriving unread records" (`src/notes/notification-inbox.md:7`).

Smaller observations without a run: `src/src/backend/BACKEND.md` speaks of
one code per minute where the cooldown is 30 seconds; the rounding of `TTL` lets a
new code follow up to one second early, which `Spacing` states as it is; a request that dies
between `INCR` and `EXPIRE` leaves an address locked until the key is deleted, which
`LockEnds` states with its exception; a plan
change that recovers a schedule while an operator detaches it leaves a schedule of its own
without its phases (`PlanChange`); a form that is sent again after Stripe has forgotten its
keys (24 hours, `services/billing.py:223`) counts as a new one. The version is a hash of the state,
not a counter: after a form that cancelled and another that took the cancellation back, the first
one's version fits again, and sent again a day later it cancels again. The notes call Stripe's
idempotency "bounded, not a permanent exactly-once guarantee" (`src/notes/billing.md:66`), so
`LaterDecisionStands` promises that a later decision stands while Stripe remembers the earlier
form's calls, and afterwards only that whatever decides was read as its page showed it.

## What is not modelled

*By abstraction, in the modelled parts*: encryption of payloads, wording of mails,
the digits and HMAC of codes, validation of fields, logging, the HTTP layer, and the
profile columns of an account. PostgreSQL, Redis, Celery, SMTP, the object store, Docker and
Stripe are modelled by what the code relies on: statement-level READ COMMITTED and
its locks, `WATCH/EXEC` and expiry, redelivery and time limits, idempotency keys, "may act and
still raise". Row locks are PostgreSQL's; SQLite ignores `FOR UPDATE` but has one writer.

*In single modules*:

- `StripeCustomer`: card set-ups, the portal and the profile update are further callers of
  the customer; what they change at Stripe alone is not modelled.
- `PlanChange`: a form made from a page that may not manage the subscription (it is refused), and
  the items, discounts and taxes that make a subscription unmanageable. Stripe forgets keys at any
  time and not after a day, which allows more.
- `Inbox`: redis-py's `subscribe` does not await its confirmation (`core/realtime/broker.py:26-31`);
  an event between the two is lost without a failure, and the page is stale until the next event,
  reconnect or focus. `SubscribedFirst` takes the subscription for effective once it was sent.
- `Reconcile`: a customer whose sync fails keeps its place at the front, so with `Limit` (50) or
  more customers that fail for good the others would never be reached. `Recovers` is checked
  with fewer (one, of a `Limit` of two).
- `Identities`: answers of the providers are inputs; links do not expire here but in
  `OneTimeTokens`.
- `ApiKeys`: creation is one insert and is where the model begins; concurrent uses may lose a
  count, which nothing promises otherwise.
- `ProfilePhoto`: a commit or upload of unknown outcome is decided by the time it is checked.
- `MailTask`: with `EMAIL_ENABLED=false` a job is skipped before anything is sent
  (`core/celery/mail.py:105-107`), which is left out: `Settles` speaks of a deployment that mails.
  That a failed publish requeues the message is taken from the source's comment; an
  acknowledgement at Celery's hard time limit is not modelled.
- `SingleFlight`: `reset` runs at start and shutdown, where no request does.
- `Lifespan`: the two `reset` calls that precede the closings (`main.py:160-161`) always return. A
  cancellation of the process's task at one of these awaits would skip both closings, as they stand
  before the inner `try`.
- `VerifyRunner`: an edit that is undone before anyone looks is left out of the properties
  (`doubtful`), as are forced runs and the choice of commands.
- `Rollout`: `initialize`, concurrent deployments (excluded by the script's documentation), the
  opt-in of Beat, and a worker left running when mail is switched off.

*By component*: configuration, error tables, templates, metrics, migrations and routers have no
state that changes concurrently. `frontend`, `contracts` and most of `docker` hold no logic of
the backend.

## Plan

Done: every component of the inventory but the last, with its instance, its runs and its
mutants; proofs of all their invariants and action properties.

Left: theorems about what the runs do not ask, where the code promises it (`ReadAll` restricted to
pages without a concurrent insert, the reset token between its two deletions); an abstract
specification of a user's subscription that `Checkout` and `PlanChange` implement, and its proof.
