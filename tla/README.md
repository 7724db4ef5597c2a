# A TLA+ model of the FastAPI authentication backend

The repository is a FastAPI application with Redis, PostgreSQL and Celery workers. What it
has of its own is account security: sessions built from rotating refresh tokens, one-time
password-reset and verification tokens, MFA codes, the administrators' e-mails, and the audit
records of all of these.
Nearly all state lives in Redis keys and database rows that HTTP handlers, Celery tasks and
the passing of time change concurrently. That is what these modules model, TLC checks and
TLAPS proves.

Paths below are relative to `src/app/`.

- [1. Inventory](#1-inventory)
- [2. How the source is read](#2-how-the-source-is-read)
- [3. Modules](#3-modules)
- [4. Runs, bounds and fairness](#4-runs-bounds-and-fairness)
- [5. Where the code and its documentation disagree](#5-where-the-code-and-its-documentation-disagree)
- [6. Proofs](#6-proofs)
- [7. What is not modelled](#7-what-is-not-modelled)

## 1. Inventory

| component | source | state | operations | correct means |
|---|---|---|---|---|
| session keys | `core/security.py`, `service/redis_service.py` | `rt:<hash>`, `bl:rt:<hash>`, `bl:at:<hash>` in Redis | mint and SET, DELETE, blacklist, expiry | a live record comes from a login of its user and agent |
| login, refresh, logout | `service/auth_service.py`, `routers/auth.py` | locals of a coroutine | a Redis command per step | rotation leaves one live record, never two |
| refresh task | `task/refresh_token.py`, `routers/auth.py` | message, `lock:refresh:<hash>`, `idem:refresh:<hash>` | enqueue, rotate, retry, release | reports are true; every message settles; locks come free |
| request authentication | `core/middleware.py`, `core/dependencies.py` | none | verify a token | not modelled: it reads no key that another component writes |
| password reset | `service/password_reset.py`, `task/password_reset_tasks.py`, `task/email_tasks.py`, `routers/password_reset_router.py` | `password_reset_tokens` rows, row locks, mail tasks, task results | create, mail and retry, verify and consume, reply | one use per token; answers are true; the table is bounded |
| verification e-mail | `service/email_verification.py` | cooldown keys, counter of active tokens, `security_tokens`, `email_outbox` | cool down, count, invalidate, insert, undo | mails are paced; a lockout ends |
| MFA | `service/mfa_service.py`, `task/mfa_tasks.py`, `routers/mfa.py` | idempotency key, failure counter, device set, attempts per device; the session keys it sweeps | claim, count, compare, clear, mark, sweep | limits hold; the key shows the outcome; what is swept stays dead |
| request counters | `service/redis_service.py`, helpers in services and routers | counters in Redis | INCR, EXPIRE, compare | no more than the limit pass in a window; a refusal ends |
| audit pipeline | `service/audit_service.py`, `service/email_policy_service.py`, `workers/audit_worker.py` | Redis list, dead letter list, `audit_logs` | push, fall back, batch, insert, bury, rescue | a fault loses or doubles at most a batch; what is queued is taken |
| audit task | `task/audit_tasks.py` | message, `audit_logs` with its unique fingerprint | insert, skip a duplicate, retry | what returns is stored; every event settles |
| admin e-mail | `routers/email_service.py` | idempotency key | claim, look up, refuse, accept | one job for each time a key was set |
| mailer | `service/mailer.py` | none | up to three SMTP attempts | a second mail only after an attempt that broke off |
| posts, users, roles | `routers/posts.py`, `crud/` | rows | CRUD | not modelled: see section 7 |

How they interact. A handler awaits Redis and the database and posts messages to Celery's
broker; a task runs in another process on the same keys and rows; some handlers wait for a
task's result, others never see it; every component pushes audit entries. There are no
callbacks and no shared memory: two actors meet only in a Redis key, a row or a message.

What is hard here: handlers and tasks interleave at every `await`; several Redis commands
form one logical update with no transaction around them; keys expire between any two of
them; the Redis client sends a command a second time when its answer does not come
(`core/redis.py:42`); a worker acknowledges a message before it runs it, so a death loses the task and
leaves its lock; a failed command may have been executed; a retry repeats steps already
done; a client may stop waiting for a task that then succeeds. `PROJECT.json` lists 40 such
places under "hazards", each at its line with the property that covers it or the reason
none does.

## 2. How the source is read

At this commit the application does not start: some imports name modules that have moved,
and some calls do not fit the function they call. The model takes the program its authors
plainly wrote: **a name resolves to the module that exists, a missing `await` is read as
awaited, and a call of a Redis wrapper stands for the Redis command its name and arguments
say.** Nothing else is repaired; in particular no missing check, wrong order or ignored
result is. The places that need the convention:

| place | what differs |
|---|---|
| imports | `app.services.*`, `app.tasks.*` against `app/service/`, `app/task/` |
| `service/redis_service.py` | callers also use `nx=`, `incr`, `expire`, `sadd`, `delete_pattern`, `eval` and `*_sync` forms |
| `task/password_reset_tasks.py:67` | assigns `user.password_hash`; the column is `hashed_password`. The assignment is what "the password changes" means in `PasswordReset` |
| `task/mfa_tasks.py`, `service/mfa_service.py` | Redis calls without `await`; `mfa_secret` has no column; `MFANotConfiguredError` is not imported |
| `routers/*` `.delay(...)` | argument names differ from the task's signature in places |
| `task/password_reset_tasks.py:32` | posts `token=raw` to a mail task that is declared as `(self, user_id)` (`task/email_tasks.py:10`). The mail task is modelled as declared: it is posted with the user and makes a token of its own. That Celery refuses the call as written is in the model too: the request task then fails after its commit (`CreateFail`) |
| `task/email_tasks.py:13` | `PasswordResetService.create_token_record` does not exist: taken to be `create_token`, the only function that makes records. The bounds on reset tokens rest on this reading |
| `task/refresh_token.py` | `refresh_token_hash` is of `app.core.crypto`, which does not exist; `service/auth_service.py` hashes with `safe_hash`. One key space is assumed, in which both mean the same record: if the functions differ, the refresh task never finds a record and no refresh task succeeds |
| `routers/auth.py:93`, `:163` | POST `/refresh` is registered twice, and the first, which FastAPI serves, calls `auth_service.refresh_tokens`, which does not exist: read as the second, `refresh_tokens_service` |
| database sessions | `db.begin()` after a statement has begun a transaction; text SQL passed as a string |
| audit calls of the handlers | `make_fingerprint` and `REDIS_TIMEOUT` are not defined. In the modelled components an audit call is a statement that may raise; its entry is followed in `AuditPipeline` and `AuditTask` |
| `service/audit_service.py`, `workers/audit_worker.py` | `AuditService._enqueue`, `push_dlq_with_retry` and `MAX_DLQ_LENGTH` are not defined: the first two are read as the pushes `push_to_redis` and `push_to_dlq` of `email_policy_service.py`, the last as the 1000 of the worker; nothing starts `dlq_worker` (`main.py:23` starts only `AuditWorker`), which is modelled as at most one process that may not run at all |
| `models/audit_log.py` | the attribute `metadata` is reserved by SQLAlchemy: read as the column of that name |
| `service/mailer.py` | `send_email_task` is bound but takes no `self`; `settings.AUDIT_QUEUE_KEY` does not exist, so its audit entry is never queued |
| missing definitions | `models/post.py`, `crud.posts.patch_post`, `app.core.crypto`, the class `EmailPolicyService`, `send_admin_email_background` |

Three deployment facts matter. The Redis pool has `retry_on_timeout`, so a command may run
twice with anything in between. For GET, SET and DEL this shows nothing that the steps of the
models do not show already; SET NX then answers that the key was taken, which ends the request
like an error; for INCR, the counter script and the decrement the models have steps of their own
(`LoseAnswer`, `CountLost`, `DecrementLost`, `CountAttemptLost`, `CountWrongLost`), and so they
have where the second command or the error shows: `ClaimUnanswered` of the admin e-mail, and
`PushUnanswered`, `PushDeadUnanswered`, `PopUnanswered`, `BuryUnanswered` of the audit lists. Celery
acknowledges early and prefetches one message per worker (`core/celery_app.py`). PostgreSQL runs
at READ COMMITTED, the default, since
`database/session.py` asks for no other level.

## 3. Modules

| module | models |
|---|---|
| `SessionStore` | the session keys and the operations on them |
| `AuthService` (extends it) | the three services and their routes |
| `RefreshTask` (extends it) | the queued refresh: messages, workers, lock, marker |
| `AuthSystem` (extends both) | everyone who writes the store, and time; the properties |
| `SessionLifecycle` | what the endpoints promise about a session, without Redis, requests or tasks; `AuthSystem` implements it |
| `SessionSweep` (extends `AuthSystem`) | the sweep of session keys that a right MFA code starts, beside everyone else |
| `PasswordReset` | both tasks, the database's transactions, the handler that waits |
| `ResetLifecycle` | what the endpoints promise about a reset token, without transactions, locks, tasks or retries; `PasswordReset` implements it |
| `EmailVerification` | requests for a verification e-mail |
| `Mfa` | the endpoint, the task and the counters of one user |
| `RateLimit` | the request counters that services and routers keep in Redis |
| `AuditPipeline` | producers, queue, batch workers, dead letters |
| `AuditTask` | the Celery task that inserts an audit row |
| `AdminEmail` | the endpoint of an administrator's e-mail and the mailer behind it |
| `*_proofs` | theorems about `AuthSystem` and `SessionSweep`, `PasswordReset`, `EmailVerification`, `Mfa`, `RateLimit`, `AuditPipeline`, `AuditTask`, `AdminEmail` |
| `MC_*` | symmetry sets, sets of routes and functions for TLC |

Every module takes its users, requests, tasks and limits as CONSTANTS with named assumptions.
An operator whose comment begins with "Mutant" is a wrong variant of the definition that
follows it. No specification uses it; it shows that a run would notice the mistake.

### SessionStore, AuthService, RefreshTask, AuthSystem

A *token* is the pair of refresh and access token minted together. Its `jti` is a `uuid4`,
hence `Mint` requires a token not minted before. `rt` maps a token to the record
`[user, agent]` its key holds, or `None`. `blrt` and `blat` only grow: no code reads those
keys, so their expiry could not be observed. `issued`, `parent`, `owner` and `logins` are history
variables: no guard reads them, except that `Mint` picks a fresh token and `MaxLogins`
counts.

A handler is `req[r]`: its program counter and the locals it carries over an `await`.
`/auth/refresh` is `RefreshRead`, `RefreshCheck`, `RefreshDelete`, `RefreshStore`, `Reply`:
the agent is compared with the record *as read*, the record is never read again, and
the number of keys deleted is not looked at. `Abort` ends a handler at any point: a rate
limit's 429, a 401, an error of Redis, the database or the broker, a cancelled request, a
crash. What it has written stays. Requests that are refused before they change a key are no
steps. The access token that a logout or a refresh message presents need not be of the pair of the
refresh token; nothing compares the two.

`/auth/token/refresh` is `Enqueue`; a worker then runs `Start`, `CheckIdem`, `AcquireLock`,
`GetSession`, `DeleteSession`, `BlacklistOldRefresh`, `BlacklistOldAccess`, `StoreSession`,
`MarkIdem`, `Commit` and, by every way out, `Release` or `ReleaseFails`. `Fail` may happen
at each of these steps and is either an error Celery retries or one it does not. A busy lock raises an
exception that is *not* retried. `Die` loses the message. `Release` deletes the lock
without asking who set it, as line 126 does. `ExpireLock` is the lock's TTL; with
`LeaseLapses = FALSE` it spares a lock whose task is still inside, which is the assumption
that a rotation takes less than 25 seconds.

### SessionLifecycle and SessionSweep

`SessionLifecycle` has a `status` per token, "unused", "live" or "over", its owner, and the token
it was exchanged for; its steps are `Authenticate`, `Open`, `Exchange` and `End`.
`AuthSystem!ImplementsLifecycle` is its specification under the mapping: a token is unused
until it is issued, live while it has a record, over afterwards; `authenticated` is `logins`.
A handler's DELETE is an `End`, its SET an `Exchange`, an expiry an `End`, nearly everything else
a stutter. Logout of the refresh token is a stutter too: it blacklists and deletes nothing.

`SessionSweep` adds `invalidate_old_tokens`: `List` is the scan of `delete_pattern`, `Delete` one
DELETE, `Stop` an exception in between, and handlers and tasks run between any two. The pattern
holds the user's id and the key a digest, so `Matches` is a constant: the tokens whose digests
happen to hold it, whoever owns them. The sweep of one user runs once at a time; `found` holds the
keys listed, `swept` is history. To `SessionLifecycle` a deletion is one more `End`.

### PasswordReset

`create[c]` is a worker that runs `create_token`, for one task at a time: a request task
(`RequestBegin`, at any time and for any user) or a mail task (`MailBegin`, one of those in `posted`,
which `RequestMail` posts). A mail task is the row of its request and its `retries`; it does not mail
the request's token, which no client ever sees, but makes another (`mail[c]` is the task the worker
runs, `None` for a request task). `MailSend` ends it; after an exception anywhere, also one after the
server took the mail, `MailRetry` posts it again, and the next run makes one more token, which revokes
the last. A retry of a request task is another request. `CreateBegin` (with either task), `CreateUpdate`
and `CreateCommit` are one transaction. The UPDATE sees the rows that were unused when it began
(`snap`), waits for locked ones and looks at them again; the rows to trim are chosen by the next
statement, before the insert; other transactions see nothing until the commit. A row's id is given at
the commit, where the code's INSERT takes it from a sequence just before: two transactions of one user
between INSERT and commit could commit in the other order, and then the trim would count them in that
order. `job[r]` is a confirm task: `VerifyAndConsume` is the `SELECT ... FOR UPDATE` of the valid rows
of *all* users together with the comparison of hashes, which takes one of them; `JobCommit` writes the
flag and the new hash. `JobRetry` is `OperationalError`: a timeout, a deadlock the database ends, a
broken connection. From `"committed"` it is a commit whose acknowledgement was lost. `ConfirmReply` may
answer "refused" at any time before the result is there: ten seconds have passed.

`ResetLifecycle` has the owner of each token issued and the set of those that are `usable`; per request
for a token the user it is for (`want`) and the tokens it will end (`old`); per client its token, the
answer, and whether the password was set (`changed`). Its steps are `Begin`, `Cancel`, `Issue`, `Ask`,
`Change` and `Answer`. `PasswordReset!ImplementsLifecycle` is its specification under the mapping: a
token is usable while its row is there and unmarked; `old` is what can still be used of the snapshot of
a request task; `changed` is `Changed`, the requests with a run in `applied`, which holds the runs, not
the tasks: a task that applied its token twice would be there twice. `CreateCommit` is `Issue`,
`JobCommit` is `Change`; waiting for locks, choosing rows to trim, mail and every other step of a job
are stutters. So is a row's expiry: `ResetLifecycle` leaves out the thirty minutes, which only take
possibilities away.

### EmailVerification

`CoolUser` and `CoolFingerprint` are two SET NX commands; `CountActive` is the Lua script,
which Redis runs without a gap; `SelectOld` and `InvalidateOld` are the first transaction,
`CommitToken` the second. A lost acknowledgement of the second sends the handler to
`Decrement` although the token exists. An absent counter counts as 0, without a TTL;
`Decrement` of an absent counter creates it at -1, and `ResetCounter` is the second command
that repairs it. `spans` is history: how many cooldowns a subject started.

### Mfa

One user's keys. `Claim`, `CountAttempt`, `Post` are the endpoint; `Verify` to `Mark` the
task. `Verify` chooses whether the code is right; then a wrong one is counted by
`CountWrong`, `AddDevice` and judged by `JudgeWrong`, a right one clears the three counters
one command at a time. `JudgeWrong` follows the code: below the threshold the task goes on
as if the code were right. A 429 or a broker that is down leaves the key at "processing".
INCR and the EXPIRE after it are one step. `epoch` is history: how often a counter was cleared,
which the properties need in order to say "between two clearings".

### RateLimit

`Renewed` are the keys counted by `RedisService.increment`, which sends EXPIRE after every
INCR: login and refresh by address and by user, the admin's daily limit, the attempts of an MFA
device. `Fixed` are the keys of the three routes that send EXPIRE only if INCR returned 1: token
refresh, reset confirmation, admin e-mail. A request is `Increment`, `SetExpiry` where it is
sent, and the comparison, whose result is the end of the step before it since it reads nothing
shared. `LoseAnswer` is an INCR whose answer did not come: the request then increments again.
`Die` ends a request before its EXPIRE. `epoch` counts the windows. A handler with two limits is
two requests here: the keys are independent.

### AuditPipeline

`queue` and `dead` are the Redis lists, whose MULTI of RPUSH and LTRIM keeps the newest entries
(`Newest`); the EXPIRE in it gives the list thirty days after its last push, and then the list is gone
with all it holds (`QueueLapses`, `DeadLapses`; the model has no clock, so this may happen at any time).
`shed` remembers the entries that fell off or expired. `stored` are the entries with a row. `call[e]` is
the call that logs the entry: pushed, or, when that fails or seems to have failed, pushed to the dead
letters (`PushDead`). A worker `w` pops one item per step into `hand[w]` until the batch is full or the
list empty (`Pop`, `Gather`), inserts the batch in one transaction (`Insert`) and, when that fails,
pushes all of it to the dead letters (`Bury`). An insert fails by itself when a row lacks a column or an
id is taken already, and for no reason as a fault. `Bare` entries are those of the admin e-mail, which
carry neither id nor fingerprint. The fallback to the database between queue and dead letters has no
step: the constructor of `AuditLog` refuses the entry's keys, so it always falls through. For the same
reason the dead letter worker loses what it pops (`RescueFails`); `given` remembers those. It may never
run (`Init`), since nothing in the repository starts it. `faults` counts commands that fail, answers
that do not come, cancellations and deaths.

### AuditTask

`task[e]` is the message of an event with its retries, `rows` the fingerprints in the table. `Insert`,
`Duplicate`, `Reject` and `DatabaseFails` are the ways a run can go: the database accepts the row,
already has the fingerprint, refuses a value as too long for its column, or fails, before or after the
commit. `Fits` are the events whose values all fit: the fingerprint, the ip, which is `X-Forwarded-For`
at any length, and the request id, none of which the task shortens. `Retry` is `self.retry`, and then
the decorator's. `Duplicate` may be skipped or retried, since there are two unique indexes and the code
looks for the name of one.

### AdminEmail

`Claim` is SET NX of the key; `Lookup` the GET of one who was not first; `Refuse` everything that can
end the request afterwards with the key left behind; `Accept` and `Job` the answer 202 and the hand-over
to the mailer. `Invalid` ends a mail task before its first attempt; `Send`, `Break`, `GiveUp` and `Die`
are the ways an SMTP attempt ends: the message is taken and so reported; it may have been taken and an
error is reported, which starts the next attempt or ends the task. `Expire` is the TTL of a day.
`claims` and `unsure` are history.

## 4. Runs, bounds and fairness

| run | instance | distinct states | shows |
|---|---|---|---|
| `auth_http` | 2 requests, 2 agents, 3 tokens, 2 logins, a sweep that matches one token | 1,775,470 | `SweepTypeOK`, `SessionsComeFromLogin`, `PredecessorIsDead`, `SweptStaysDead`, `ImplementsLifecycle` over login, refresh, logout and sweep |
| `auth_task` | 2 workers, 2 messages, 1 retry, 1 request, 2 agents | 130,061 | `TypeOK`, `ReportedMeansRotated`, `ImplementsLifecycle`, with failures at every step and lapsing locks |
| `auth_one_worker` | 1 worker, 2 messages, 2 retries | 18,807 | `SuccessorsBounded`, and the liveness properties `TasksSettle`, `LocksComeFree` |
| `auth_lock` | 2 workers, rotations faster than the lock | stops | `MutualExclusion` is violated |
| `reset` | 2 workers for request and mail tasks, 2 confirm requests, 4 rows, 1 expiry, 1 retry of each task | 1,120,887 | `TypeOK`, `SingleUse`, `RevokedIsDead`, `SuccessMeansChanged`, `ActiveBounded`, `TableBounded`, `ImplementsLifecycle` |
| `verification` | 2 requests, 2 users, 1 fingerprint, 2 tokens, 3 cooldowns | 4,473,072 | `TypeOK`, `MailsPaced`, `LockoutEnds` |
| `mfa` | 2 requests, 2 devices, 2 keys, 1 retry | 1,620,154 | `TypeOK`, `WrongCodesCapped`, `AttemptsCapped`, `KeyTellsOutcome` |
| `mfa_status` | the same | stops | `SuccessMeansRightCode` is violated |
| `rate_limit` | 4 requests, a key of each form, limit 2 | 126,016 | `TypeOK`, `WindowCapped`, `RefusalEnds`, `EndlessOnlyByFault` |
| `audit` | 2 workers, batches and lists of 2, 2 plain entries and a bare one, 2 faults, lists that expire | 472,437 | `TypeOK`, `LossBounded`, `DuplicatesBounded`, `DeadForCause`, and the liveness property `QueueDrains` |
| `audit_task` | 3 events, two with one fingerprint, one with a value too long; 2 retries | 8,381 | `TypeOK`, `OutcomesAreTrue`, and the liveness property `EventsSettle` |
| `admin_email` | 3 requests, 2 keys set at most twice, 3 attempts | 224,984 | `TypeOK`, `JobsPaced`, `MailsForCause` |

**The properties.**

- `SessionsComeFromLogin`: every live record holds a user and agent that authenticated,
  however many rotations lie between. Either refresh path could break it by minting for an
  agent it did not compare.
- `PredecessorIsDead`: a token that has a successor has no record. It must survive aborts,
  retries and deaths between the DELETE and the SET. `auth_http` checks it of the handlers; of the
  tasks it follows from `ImplementsLifecycle`, since only a token that is over is exchanged and
  none that is over becomes live, and the theorem states it for both.
- `SweptStaysDead`: a token a sweep deleted never has a record again, although a handler may have
  read the record before the sweep and go on afterwards.
- `ImplementsLifecycle`: a token is never live twice; what one is exchanged for belongs to the
  same user and agent, and is made after the first is over. It relates every step to the one
  before, where the invariants see states.
- `ReportedMeansRotated`: SUCCESS and IDEMPOTENT imply that the token is gone, blacklisted
  and has a successor, even if another worker or an earlier attempt did it.
- `SuccessorsBounded`: a token has at most one successor for each worker and for each handler of
  `/auth/refresh`. In `auth_one_worker` that is one, over all retries. More than one do occur with two
  workers, by the lock finding below, or with handlers, since two may both read a record before either
  deletes it. But an exchange needs the record to be read before the first of them deletes it: a
  token forks into as many sessions as there are actors inside at that moment and no more, however
  often it is presented afterwards. That general bound is proved (section 6).
- `TasksSettle`, `LocksComeFree`: a message in the queue ends; a lock is not left for ever.
- `SingleUse`, `RevokedIsDead`: two confirm tasks cannot both apply one token, nor can one apply a token
  a newer one has replaced; the row locks and the re-check after waiting are what they rest on. Nor can
  one task apply its token twice over a retry. `SuccessMeansChanged` ties the HTTP answer to the commit.
  `ActiveBounded`, `TableBounded`: two runs of `create_token` do not see each other's uncommitted rows,
  so several tokens may be usable at once, but no more than there are workers in it, although each
  request causes a run of its own, one of its mail task and one for each retry of that.
- `ImplementsLifecycle` of `PasswordReset`: a request ends no token of another user and all that its
  own user had when it began; a token sets a password only while it is usable, once, and is then
  over. What a request may end besides, a newer token that its trimming deletes, is spelled out by
  `Issue`.
- `MailsPaced`: a user and a fingerprint get no more mails than the cooldowns they started.
  `LockoutEnds`: a counter above zero has a TTL, although decrements may meet an expired key.
- `WrongCodesCapped`, `AttemptsCapped`: between two clearings of a counter the limits hold
  however the tasks overlap. `KeyTellsOutcome`: the idempotency key shows what the task
  returned, after a retry too, which first marks it "failed".
- `WindowCapped`: at most Limit requests pass between two expiries of a counter.
  `RefusalEnds`: a key at which `increment` refused has an expiry, also after requests that
  stopped before theirs. `EndlessOnlyByFault`: what can leave a counter without an expiry. With
  a fixed window it is a first request that stopped before EXPIRE, or whose INCR ran twice and
  returned 2: then nobody ever sends EXPIRE, and in time the route refuses that address or token
  for good. The model has both behaviours; the property says there is no third.
- `LossBounded`, `DuplicatesBounded`: each fault loses, or doubles, at most one batch, wherever in the
  chain it strikes and however it combines with others. `LossBounded` does not count what falls off a
  full list, expires with its list or is given up by the dead letter worker: of those there is no bound,
  and the dead letters may go as a whole with no fault at all (section 5). Without a fault nothing else
  is lost, and nothing is ever in two places while workers pop side by side. `DeadForCause`: without a
  fault and without an entry of the admin e-mail nothing becomes a dead letter; it says nothing after
  the first such entry, and takes the fingerprints of entries to differ (`make_fingerprint` is not in
  the repository). `QueueDrains`: what is queued leaves the list and the workers' hands, an incomplete
  batch too.
- `OutcomesAreTrue`: an audit task that returned has its row; one that gave up has it too, or its row
  cannot be stored, or the database failed each of its runs. `EventsSettle`: every event ends.
- `JobsPaced`: a key starts no more jobs than the times it was set, whoever overlaps, repeats or was
  refused. `MailsForCause`: the server takes the message once, and again only for an attempt of
  which nobody knows whether it was taken.

**Bounds.** `Tokens`, `MaxLogins`, `MaxIds`, `MaxLapses`, `MaxSpans`, `MaxEpochs`, `MaxFaults`,
`MaxClaims` and the finite sets of entries and events stop the models, therefore every configuration
says `CHECK_DEADLOCK FALSE`. They bound history, not behaviour: three tokens are a login and two
rotations, so two rotations of one token and a rotation of a rotated one both occur. Two actors suffice
for every race found in the source, each being a race for one key or row. `MaxRetries` (5, 3 and 2 in
the code), `MailRetries` (3), `MaxActive` (5), `Threshold` (5), `MaxDevices` (3), `BatchSize` (100) and
the lengths of the audit lists (10,000 and 1,000) are shrunk to 1 or 2 so that two actors reach them.
`reset` has one user, all races being for one user's rows; that a request spares everyone else's tokens
is proved for any number of users. Four rows are a request, its mail task and a retry of it beside
another request, on two workers in any order; one row that expires while another is valid is every case
of expiry (`MaxLapses`). The mailer keeps its three attempts. `verification` lets two users share a
fingerprint. In `rate_limit` every request counts once, so four requests bound everything: with a limit
of 2 they fill a window, exceed it and start the next. In `audit` three entries overflow lists of two
and split into a full and an incomplete batch, and two faults are enough for a doubled entry to meet the
failure that its copy causes. `errors` in `AuditTask` stops counting at one more than the retries, the
number of runs.

**Fairness.** Three runs check liveness, each under `FairSpec`. In `auth_one_worker` a worker that
is up executes its task (`WF` of `Progress`); Celery's queue is first in first out, so a message
that finds a free worker again and again is delivered (`SF` of `Start`); Redis removes a key with a
TTL (`WF` of `ExpireLock`). `LeaseLapses = FALSE` in this run, as in `auth_lock`, so that neither
owes its result to a slow task. In `audit` each worker goes on (`WF` of `Progress`): `start()` loops
for ever and survives every exception, and a process that dies is started anew. Nothing is
assumed of the dead letter worker, which an error stops for good. In `audit_task` what is
posted is run (`WF` of `Run`): workers serve the queue "audit". Nothing is assumed of clients, and
no failure is assumed to stop but by the bound on faults in `audit`: workers may die and commands
fail again and again, which the limits on retries turn into an end.

## 5. Where the code and its documentation disagree

Two are runs whose property quotes the repository, and which TLC violates.

- **The refresh lock does not exclude** (`auth_lock`). `task/refresh_token.py:55` opens a
  section "LOCK", and `service/redis_service.py:56` releases only for the owner, but the
  task's `finally` (line 126) deletes the key also when the task was refused the lock. In the
  trace a task that got TRY_AGAIN_LATER deletes the lock of the running one, and a third
  attempt enters beside it.
- **SUCCESS for a wrong code** (`mfa_status`). `task/mfa_tasks.py:45` looks at the lock flag
  and drops the result of the comparison.

The others need no run: reading shows them, and the models have the behaviour.

- Logout blacklists the access token, and the middleware never reads `bl:at:<hash>`;
  `tests/test_auth.py:52` expects 401.
- Logout leaves the refresh token's record, and refresh reads only the record: the token can still
  be exchanged (`service/auth_service.py:183`).
- The refresh task returns a status; the pair it stored reaches no client
  (`task/refresh_token.py:111`).
- "INVALID_OR_EXPIRED_TOKEN" is answered after ten seconds, and the password may change later
  (`routers/password_reset_router.py:68-73`).
- The reset task assigns `password_hash`; the column is `hashed_password`.
- `invalidate_old_tokens` looks for the user's id in digests: it misses the user's own sessions and
  may hit others' (`service/mfa_service.py:67-78`).
- A request task mails a link by a task that makes a token of its own, so its own token is for nobody; a
  retry after the server took the mail sends a second link and makes the first one useless
  (`task/email_tasks.py:13`, `:25`).
- Dead letters are read by a worker that nothing starts, and expire thirty days after the last of them
  (`workers/audit_worker.py:65`, `service/email_policy_service.py:50`).
- The dead letter worker drops what it logs as AUDIT_DLQ_STILL_FAILING, and that is
  every entry (`workers/audit_worker.py:79-91`); an entry of the admin e-mail takes its
  batch there (`service/email_policy_service.py:157`).
- The answer to a duplicate admin e-mail may name a task that will never exist: the key is set before
  the request is validated (`routers/email_service.py:68-73`).
- The fingerprints `service/auth_service.py` builds are longer than their column
  (`models/audit_log.py:9`): the audit tasks of login, refresh and logout give up after their retries.

## 6. Proofs

TLAPS proves for all values of the constants that satisfy the named assumptions
(`NoneAssumption`, `RefreshTaskAssumption`, `SweepAssumption`, `ResetAssumption`,
`VerificationAssumption`, `MfaAssumption`, `RateLimitAssumption`, `AuditAssumption`, `AuditTaskAssumption`,
`AdminEmailAssumption`), which say no more than that limits are numbers, tasks, requests, workers and
entries are finitely many, kinds of names are disjoint (users and fingerprints; workers and the lists
they work on) and `None` is none of them:

| module | theorem | statement |
|---|---|---|
| `AuthSystem_proofs` | `TypeCorrect` | `Spec => []TypeOK` |
| | `SessionsAreFromLogins` | `Spec => []SessionsComeFromLogin` |
| | `RotationKillsPredecessor` | `Spec => []PredecessorIsDead` |
| | `ReportsAreTrue` | `Spec => []ReportedMeansRotated` |
| | `LifecycleImplemented` | `Spec => ImplementsLifecycle` |
| | `SuccessorsAreBounded` | `Spec => []SuccessorsBounded` if requests and tasks are finitely many |
| | `OneWorkerRotatesOnce` | with one worker and no route "refresh" no token ever has two successors |
| | `SweepTypeCorrect` | `SweepSpec => []SweepTypeOK` |
| | `FamiliesHaveOneOwner` | a successor has the user and agent of the token it was made for |
| | `EndedStaysEnded` | a token issued that has no record never has one again, an action property |
| | `MessagesRunDown` | a message under way has a bounded number of steps left, each of its steps takes one |
| | `SweptNeverReturns` | `SweepSpec => []SweptStaysDead` |
| | `SweepImplementsLifecycle` | `SweepSpec => ImplementsLifecycle` |
| | `SweepSessionsAreFromLogins`, `SweepRotationKillsPredecessor`, `SweepReportsAreTrue`, `SweepFamiliesHaveOneOwner`, `SweepEndedStaysEnded`, `SweepSuccessorsAreBounded` | the properties of `Spec` above, of `SweepSpec` |
| `PasswordReset_proofs` | `TypeCorrect` | `Spec => []TypeOK` |
| | `TokensAreSingleUse` | `Spec => []SingleUse` |
| | `SuccessIsTrue` | `Spec => []SuccessMeansChanged` |
| | `RevokedStaysDead` | `Spec => RevokedIsDead`, an action property |
| | `ActiveAreBounded` | `Spec => []ActiveBounded` |
| | `TableIsBounded` | `Spec => []TableBounded` |
| | `OneAtATime` | runs of `create_token` that do not overlap, mail tasks and retries included, leave at most one usable token and `MaxActive + 1` rows |
| | `ConfirmsRunDown` | a confirm task has at most `4 * (MaxRetries + 1)` steps, each it takes is one of them |
| | `LifecycleImplemented` | `Spec => ImplementsLifecycle` |
| `EmailVerification_proofs` | `TypeCorrect` | `Spec => []TypeOK` |
| | `LockoutAlwaysEnds` | `Spec => []LockoutEnds` |
| | `MailsArePaced` | `Spec => []MailsPaced` |
| `Mfa_proofs` | `TypeCorrect` | `Spec => []TypeOK` |
| | `WrongCodesAreCapped` | `Spec => []WrongCodesCapped` |
| | `AttemptsAreCapped` | `Spec => []AttemptsCapped` |
| | `KeysTellOutcomes` | `Spec => []KeyTellsOutcome` |
| `RateLimit_proofs` | `TypeCorrect` | `Spec => []TypeOK` |
| | `WindowsAreCapped` | `Spec => []WindowCapped` |
| | `RefusalsEnd` | `Spec => []RefusalEnds` |
| | `EndlessIsFault` | `Spec => []EndlessOnlyByFault` |
| | `RefusalsHaveCause` | a refused request's window was charged with more than `Limit` INCRs |
| `AuditPipeline_proofs` | `TypeCorrect` | `Spec => []TypeOK` |
| | `LossIsBounded` | `Spec => []LossBounded` |
| | `DuplicatesAreBounded` | `Spec => []DuplicatesBounded` |
| | `DeadHaveCause` | `Spec => []DeadForCause` |
| | `OnceUntilFault` | before the first fault no entry is in two places, and none that was logged is nowhere but those shed or given up |
| `AuditTask_proofs` | `TypeCorrect` | `Spec => []TypeOK` |
| | `OutcomesTrue` | `Spec => []OutcomesAreTrue` |
| | `EventsRunDown` | an event has at most `MaxRetries + 2` steps left, each of its steps takes one |
| `AdminEmail_proofs` | `TypeCorrect` | `Spec => []TypeOK` |
| | `JobsArePaced` | `Spec => []JobsPaced` |
| | `MailsHaveCause` | `Spec => []MailsForCause` |

**AuthSystem.** None of the properties is inductive: that a stored record is from a login
depends on what the storing handler carries in its locals. The inductive invariant `IInv`
has three parts. `StoreInv`: the properties of the store, and that a token not yet issued has no
record and no relatives. `RequestInv`: what a handler knows at each program counter: a
record that came from a login, an agent equal to it once compared, and *past the DELETE a
token with no record*. `TaskInv`: the same for tasks, and that every marker and every reported
outcome belongs to a token that is `Rotated`. The crux is that death is permanent: only
`Mint` creates a record, and only for a token not yet issued. So the argument goes in two
layers. `StoreStep` lists what any step may do to the store; `StoreStepInv` shows that these
preserve `StoreInv`, `RequestStable`, `TaskStable` and `IdemStable` that they never
invalidate what a handler, a task or a marker relies on. What is left is one case per action for the
actor that moves. Every store action is shown to be a `StoreStep`.

**The refinement** uses the same layers: `StoreStepLifecycle` maps each store step to a step of
`SessionLifecycle` or to a stutter. A DELETE of a record that is there is an `End`; a `Mint` is an
`Open` or, for a token that by `IInv` is over and has the same owner, an `Exchange`.

**The sweep** adds one actor to a store whose steps are already accounted for: a deletion is a
`StoreStep` of someone who is neither handler nor task, and such a step keeps `IInv`
(`OutsiderKeepsInv`). The keys a sweep listed and those it deleted belong to issued tokens, so what
it deleted stays dead for the reason everything does. Since `SweepInv` contains `IInv`, every invariant
proved of the handlers and the tasks holds beside sweeps too; for the bound on successors
`BoundSweep` adds that a deletion only takes records away, and nobody's reading with them.

**Owners and endings.** `OneOwner` and `EndedForGood` say directly what the refinement says by way of
`SessionLifecycle`: along a chain of rotations the user and the agent never change, and the record of
an issued token, once gone by rotation, sweep or TTL, is gone for good.

**Retries end.** `MessagesRunDown` and `EventsRunDown` are what of `TasksSettle` and `EventsSettle`
needs no fairness, and `ConfirmsRunDown` the same for password resets. Each states a measure, a number
whose bound depends on `MaxRetries` alone: the steps to the end of the run, plus a whole run for each
retry left. No step of anybody raises the measure of a message under way, and its own steps, a failure
and a worker's death among them, lower it. That the steps are taken at all is the part that needs
fairness.

**How often a token is exchanged.** `BoundInv` weighs, per token, its successors, the handlers that
hold its record as read (`Holders`) and the tasks that do (`Exchangers`): while the token has a
record it has no successor; afterwards nobody new can read it, and each successor takes a holder
away. Holders are handlers of `/auth/refresh` (`Refreshers`), and exchangers are no more than the
workers, since the tasks at work (`AtWork`) never are. With one worker and no such handler the
bound is one: `OneWorkerRotatesOnce`.

**PasswordReset.** A row found unused stays locked by the confirm task that found it until its
commit marks it (`HeldIsLocked`); the rows a request task will mark are locked by it
(`MarksAreLocked`); an applied token is used, by one run of one task (`AppliedIsUsed`). So no two tasks hold one
row, and what is used never becomes unused, which is `RevokedIsDead`. `AnswersAreTrue` carries the
commit to the answer over retries.

The bounds on rows are invariants of the form "some assignment of rows to the tasks that inserted them
exists". `Made`: every usable row of a user has a maker of its own, a worker, and a worker that runs
again for that user, be it for a request or for a mail task, has the row it made in its UPDATE's
snapshot, so it is marked when the next one appears. `MailTyped` says that a mail task in the queue has
a row with an owner, so a run of it is for a user. `Covered` is stronger: a user's rows are at most
`MaxActive` old ones and one of each maker, and so is what each task that has chosen its deletions will
leave behind. When `c` commits, a task that chose after `c` did has no other new row of `c`; one that
chose before may have, but then what `c` kept and the rows since cover what it will leave, too. The
ranks in `Covered` order the tasks by when they chose. `TrimKeeps` is the lemma about `Trimmed`: each
kept row has a different number of later ones, below `MaxActive`.

The refinement of `ResetLifecycle` needs three facts besides: a task's snapshot holds rows of its own
user only (`SnapIsMine`), a row that is there has an owner (`OwnedFirst`), and a job has a token
(`PostedHasToken`). The crux is `CreatorLives`: what the commit of a request task ends is all that is
left of its snapshot, which is why the UPDATE's second look at locked rows must not lose one.

**EmailVerification.** `LockoutEnds` needs only the types of the requests and the
counter: the script renews the TTL exactly when it passes 1, and a decrement never makes a
counter positive that was not. For `MailsPaced` the invariant counts, per subject, its mails
and the requests that have passed its cooldown and may still send one: together they are no more
than the cooldowns it started.

**Counters and their types.** That a counter stays in its range is no local fact: each of these
modules has commands that may run twice, and a decrement may meet a key that has expired. `Accounted`
(`RateLimit`) says that a counter and its epochs are no more than the INCRs its requests sent, each
once or twice; `Paid` (`Mfa`) finds for each counter the requests and tasks that have passed the place
where it is counted, the epochs included; `Drift` (`EmailVerification`) bounds how far below zero a
counter can be by the cooldowns started and the decrements that requests inside still owe.

**RateLimit and Mfa.** The invariants add that requests of one window have read different numbers
(`ValuesDiffer`: INCR is atomic), none above the counter while its window lasts
(`CountedBefore`). Hence those that passed map injectively to the numbers up to the limit, which
bounds how many they are by the library's theorem on injections. The attempts of a device are
counted directly: `Through`, those let through since the last clearing, is never larger than the
counter. The other two properties of `RateLimit` are inductive together with these: a request whose
window has ended says nothing of the key, and an INCR on a key that has no expiry finds the one
to blame still there or becomes it. `RefusedForCause` looks at refusals from the other side: `ValuesCharged`
bounds what a request read by the INCRs its window was charged with, so who read more than the limit
found it spent. Those INCRs include the ones sent twice: counting requests alone it is false, a
client can be refused for an INCR whose answer was lost. `KeyTellsOutcome` rests on keys being claimed once.

**AuditPipeline.** `LossBounded` counts entries that are nowhere, so the proof bounds what one step can
take away: an entry that was somewhere is somewhere afterwards unless it is in the set the step drops,
and that set is empty without a fault and otherwise a batch or a single entry. The entries shed and
given up leave the count when they leave the lists; that is all an expiring list does to it
(`LapseInv`). `DuplicatesBounded` is about copies, a copy being an entry at an index of a list, in a
worker's hand or in the table. `DupInv` says that there is a set of copies, at most a batch for each
fault, that pays for all but one copy of every entry (`Spread`); while the call that logs an entry is
open, for all of them. Each step maps the copies after it to the copies before, so the set follows, and
a fault that doubles adds at most the batch it strikes. For `DeadForCause` the invariant holds only
while nothing has failed and no bare entry was logged (`Clean`): until then every entry is in at most
one place, once (`Orderly`), so every batch can be inserted. `OnceUntilFault` is the case of no faults
of the two bounds together: no interleaving of calls and workers doubles an entry or loses one that no
list shed and the dead letter worker did not give up.

**AuditTask, AdminEmail.** A task's retries are counted by its errors as long as its row could be
stored. The requests that passed a key are no more than the times it was set, since each sets it
when it passes; a request's doubtful attempts are one less than the attempt it is at.

**Only model-checked:** the liveness properties `TasksSettle`, `LocksComeFree`, `QueueDrains` and
`EventsSettle`: liveness under fairness and ENABLED are outside the prover's reach, and only the
measures on which `TasksSettle` and `EventsSettle` rest are proved. Every invariant
and every action property of a passing run, and both refinements, are proved.

## 7. What is not modelled

- **Posts.** The routes import `models/post.py` and `auth/permissions.py` and call `patch_post`; none
  of them exists, and what decides who may change a post, `require_owner_or_admin`, is among them. A
  model would have to invent it.
- **Users, revoked tokens, roles and permissions.** CRUD helpers no route calls, and tables nothing
  changes.
- **Request authentication.** It checks a token's signature and claims and a user's roles; it reads
  nothing the other components write, the blacklist of access tokens included (section 5).
- **Redis pool, database sessions, start-up and shutdown.** Libraries and wiring. What they let
  through, a failing command, a command sent twice, a cancelled worker, is a step of every module
  that it can reach.
- **Signing and claims of tokens, argon2, key builders, slowapi's limiter, configuration,
  logging, response formatting, the contents of mails and audit entries.** No property is about them.

What would come next: posts, once their model exists.
